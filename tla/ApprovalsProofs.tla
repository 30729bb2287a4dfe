-------------------------- MODULE ApprovalsProofs --------------------------
(***************************************************************************)
(* Proofs about Approvals, for any number of operators, relay tasks, rows, *)
(* requests, calls and faults.                                             *)
(***************************************************************************)
EXTENDS Approvals, SequenceTheorems, FiniteSetTheorems, TLAPS

Row == [status : Statuses, overdue : BOOLEAN, payload : 1..MaxAsks]

Working == {"get", "apply", "update", "record"}
Broking == {"lock", "spend", "log", "open", "track"}

\* A call is about a row that exists, and so is a stand-up; the broker's lock
\* belongs to the stand-up between its two halves.
InHand ==
    /\ \A r \in Resolvers : res[r].pc \in Working => res[r].id \in DOMAIN rows
    /\ \A r \in Resolvers : res[r].pc \in {"apply", "update"} => res[r].payload \in 1..MaxAsks
    /\ \A e \in Exposers : exp[e].pc \in Broking => exp[e].id \in DOMAIN rows
    /\ \A e \in Exposers : exp[e].pc \in {"spend", "log"} <=> lock = e
    /\ \A id \in Ids \ DOMAIN rows :
         decisions[id] = <<>> /\ effects[id] = <<>> /\ approvals[id] = 0 /\ opened[id] = 0

\* The stand-ups that have spent the row and not yet opened a tunnel.
Spending(id) == {e \in Exposers : exp[e].id = id /\ exp[e].pc \in {"log", "open"}}

\* The row can still be spent: it is approved, or a stand-up has just found it so.
Unspent(id) ==
    \/ id \in DOMAIN rows /\ rows[id].status = "approved"
    \/ \E e \in Exposers : exp[e].id = id /\ exp[e].pc = "spend"

\* Every tunnel, every stand-up on its way to one, and the grant that can still
\* be spent, has an approval of its own.
BackedAt(id) ==
    opened[id] + Cardinality(Spending(id)) + (IF Unspent(id) THEN 1 ELSE 0) <= approvals[id]
Backed == \A id \in Ids : BackedAt(id)

\* A row lapses at most once, a row that is pending never did, and a call that
\* came too late is about a row that is not pending.
Lapsed(log) == \E i \in DOMAIN log : log[i] = "expire"
Once(log) == \A i, j \in DOMAIN log : log[i] = "expire" /\ log[j] = "expire" => i = j

Lapses ==
    /\ \A id \in Ids : Once(decisions[id])
    /\ \A id \in DOMAIN rows : rows[id].status = "pending" => ~ Lapsed(decisions[id])
    /\ \A r \in Resolvers : res[r].late /\ res[r].pc = "get" =>
           rows[res[r].id].status # "pending"
    /\ LateNeverHonoured

\* The calls that have gone past the status check of the row, and the stand-ups
\* that hold the lock for it.
At(r, id, pc) == res[r].id = id /\ res[r].pc = pc
Acting(r, id) == res[r].id = id /\ res[r].pc \in {"apply", "update", "record"}
Minding(e, id) == exp[e].id = id /\ exp[e].pc \in {"spend", "log"}
Recording(id) == \E r \in Resolvers : At(r, id, "record")
Logging(id) == \E e \in Exposers : exp[e].id = id /\ exp[e].pc = "log"

\* Settled by a call: the log is written by it, or about to be.
SettledBy(id, verb) ==
    /\ ~ Logging(id)
    /\ \A r \in Resolvers : At(r, id, "record") => res[r].verb = verb
    /\ Recording(id) => decisions[id] = <<>>
    /\ ~ Recording(id) => decisions[id] = <<verb>>

\* Spent by a stand-up: the approver and the stand-up each log in their turn.
SpentAfter(id) ==
    /\ \A r \in Resolvers : At(r, id, "record") => res[r].verb = "approve"
    /\ Recording(id) /\ Logging(id) => decisions[id] = <<>>
    /\ Recording(id) /\ ~ Logging(id) => decisions[id] = <<"revoke">>
    /\ ~ Recording(id) /\ Logging(id) => decisions[id] = <<"approve">>
    /\ ~ Recording(id) /\ ~ Logging(id) =>
          decisions[id] \in {<<"approve", "revoke">>, <<"revoke", "approve">>}

Books(id) ==
    /\ rows[id].status = "pending" =>
           ~ Recording(id) /\ ~ Logging(id) /\ decisions[id] = <<>>
    /\ rows[id].status = "approved" => SettledBy(id, "approve")
    /\ rows[id].status = "denied" => SettledBy(id, "deny")
    /\ rows[id].status = "expired" => ~ Recording(id) /\ SettledBy(id, "expire")
    /\ rows[id].status = "revoked" => SettledBy(id, "revoke") \/ SpentAfter(id)

\* The effect of the row is in place once its call has come to update_status.
InPlace(id) ==
    /\ kind = "effect"
    /\ \/ rows[id].status = "approved"
       \/ \E r \in Resolvers : At(r, id, "update") /\ res[r].verb = "approve"
Applied(id) ==
    /\ InPlace(id) => effects[id] = <<rows[id].payload>>
    /\ ~ InPlace(id) => effects[id] = <<>>

\* What an undisturbed row, the calls about it and its log say of each other.
HonestAt(id) ==
    /\ \A q, r \in Resolvers : Acting(q, id) /\ Acting(r, id) => q = r
    /\ \A r \in Resolvers : At(r, id, "apply") \/ At(r, id, "update") =>
           rows[id].status = "pending" /\ res[r].payload = rows[id].payload
    /\ \A e \in Exposers : exp[e].id = id /\ exp[e].pc = "spend" => rows[id].status = "approved"
    /\ Books(id) /\ Applied(id)

Branches ==
    /\ \A e \in Exposers : exp[e].pc # "idle" => kind = "grant"
    /\ \A r \in Resolvers : res[r].pc = "apply" => kind = "effect" /\ res[r].verb = "approve"

Honest == Branches /\ \A id \in DOMAIN rows \ disturbed : HonestAt(id)

USE DEF Row

-----------------------------------------------------------------------------
(* Sequences.                                                              *)

LEMMA FunctionIsSeq ==
    ASSUME NEW S, NEW n \in Nat, NEW f \in [1..n -> S]
    PROVE  f \in Seq(S) /\ Len(f) = n /\ DOMAIN f = 1..n
  <1>1. f \in Seq(S)
    BY SeqDef
  <1>2. Len(f) \in Nat /\ 1..n = 1..Len(f)
    BY <1>1, LenProperties
  <1> QED
    BY <1>1, <1>2

\* The table has the ids 1..Len(rows), a part of Ids.
LEMMA RowIds ==
    ASSUME TypeOK
    PROVE  /\ Len(rows) \in Nat /\ DOMAIN rows = 1..Len(rows)
           /\ DOMAIN rows \subseteq Ids
           /\ rows \in [1..Len(rows) -> Row]
           /\ \A id \in DOMAIN rows : rows[id] \in Row
  <1>1. rows \in Seq(Row)
    BY DEF TypeOK
  <1>2. Len(rows) \in Nat /\ DOMAIN rows = 1..Len(rows) /\ rows \in [1..Len(rows) -> Row]
    BY <1>1, LenProperties
  <1>3. Len(rows) <= MaxRows /\ MaxRows \in Nat
    BY ApprovalsAssumption DEF TypeOK
  <1> QED
    BY <1>2, <1>3 DEF Ids

-----------------------------------------------------------------------------
(* What a statement may do to the table.                                   *)

TypeRows ==
    /\ rows \in Seq(Row) /\ Len(rows) <= MaxRows
    /\ \A i, j \in DOMAIN rows :
           rows[i].status = "pending" /\ rows[j].status = "pending" => i = j

\* An UPDATE keeps the ids.
LEMMA Update ==
    ASSUME TypeOK, rows' \in [DOMAIN rows -> Row],
           \A id \in DOMAIN rows :
               rows'[id].status = "pending" => rows[id].status = "pending"
    PROVE  TypeRows' /\ DOMAIN rows' = DOMAIN rows /\ Len(rows') = Len(rows)
  <1>1. rows' \in [1..Len(rows) -> Row] /\ Len(rows) \in Nat
    BY RowIds
  <1>2. rows' \in Seq(Row) /\ Len(rows') = Len(rows) /\ DOMAIN rows' = DOMAIN rows
    BY <1>1, FunctionIsSeq, RowIds
  <1> QED
    BY <1>2 DEF TypeRows, TypeOK

LEMMA UpsertStep ==
    ASSUME TypeOK, NEW p \in 1..MaxAsks, UpsertRow(p)
    PROVE  /\ TypeRows'
           /\ DOMAIN rows \subseteq DOMAIN rows'
           /\ \A id \in DOMAIN rows :
                 \/ rows'[id] = rows[id]
                 \/ /\ rows[id].status = "pending" /\ rows'[id].status = "pending"
                    /\ Deciding(id) # {} => id \in disturbed'
           /\ \A id \in DOMAIN rows' \ DOMAIN rows :
                 rows'[id].status = "pending" /\ id \in Ids
           /\ disturbed \subseteq disturbed' /\ disturbed' \subseteq disturbed \cup DOMAIN rows
  <1> DEFINE fresh == [status |-> "pending", overdue |-> FALSE, payload |-> p]
  <1>1. fresh \in Row
    BY DEF Statuses
  <1>2. CASE PendingIds # {}
    <2>1. /\ rows' = [id \in DOMAIN rows |->
                         IF id \in PendingIds THEN fresh ELSE rows[id]]
          /\ disturbed' = disturbed \cup {id \in PendingIds : Deciding(id) # {}}
      BY <1>2 DEF UpsertRow
    <2>2. rows' \in [DOMAIN rows -> Row]
      BY <1>1, <2>1, RowIds
    <2>3. \A id \in DOMAIN rows :
             rows'[id].status = "pending" => rows[id].status = "pending"
      BY <2>1 DEF PendingIds
    <2>4. TypeRows' /\ DOMAIN rows' = DOMAIN rows
      BY <2>2, <2>3, Update
    <2> QED
      BY <2>1, <2>4 DEF PendingIds
  <1>3. CASE PendingIds = {}
    <2>1. Len(rows) < MaxRows /\ rows' = Append(rows, fresh) /\ UNCHANGED disturbed
      BY <1>3 DEF UpsertRow
    <2>2. rows \in Seq(Row) /\ Len(rows) \in Nat /\ MaxRows \in Nat
      BY RowIds, ApprovalsAssumption DEF TypeOK
    <2> HIDE DEF fresh
    <2>3. rows' \in Seq(Row) /\ Len(rows') = Len(rows) + 1
      BY <1>1, <2>1, <2>2
    <2>4. \A i \in 1..Len(rows) : rows'[i] = rows[i]
      BY <1>1, <2>1, <2>2
    <2>5. rows'[Len(rows) + 1] = fresh
      BY <1>1, <2>1, <2>2
    <2>6. DOMAIN rows' = 1..(Len(rows) + 1) /\ DOMAIN rows = 1..Len(rows)
      BY <2>2, <2>3, LenProperties
    <2>7. \A id \in DOMAIN rows : rows[id].status # "pending"
      BY <1>3 DEF PendingIds
    <2>8. TypeRows'
      BY <2>1, <2>2, <2>3, <2>4, <2>6, <2>7 DEF TypeRows
    <2>9. fresh.status = "pending"
      BY DEF fresh
    <2> QED
      BY <2>1, <2>2, <2>4, <2>5, <2>6, <2>8, <2>9 DEF Ids
  <1> QED
    BY <1>2, <1>3

LEMMA SweepStep ==
    ASSUME TypeOK, sweep_expired
    PROVE  /\ TypeRows'
           /\ DOMAIN rows' = DOMAIN rows
           /\ \A id \in DOMAIN rows : IF id \in Overdue
                 THEN /\ rows[id].status = "pending" /\ rows'[id].status = "expired"
                      /\ rows'[id].payload = rows[id].payload
                 ELSE rows'[id] = rows[id]
  <1>1. rows' = [id \in DOMAIN rows |->
                   IF id \in Overdue THEN [rows[id] EXCEPT !.status = "expired"]
                   ELSE rows[id]]
    BY DEF sweep_expired
  <1>2. \A id \in DOMAIN rows : [rows[id] EXCEPT !.status = "expired"] \in Row
    BY RowIds DEF Statuses
  <1>3. rows' \in [DOMAIN rows -> Row]
    BY <1>1, <1>2, RowIds
  <1>4. \A id \in DOMAIN rows : IF id \in Overdue
           THEN /\ rows[id].status = "pending" /\ rows'[id].status = "expired"
                /\ rows'[id].payload = rows[id].payload
           ELSE rows'[id] = rows[id]
    BY <1>1, RowIds DEF Overdue, PendingIds
  <1> QED
    BY <1>3, <1>4, Update

LEMMA StatusStep ==
    ASSUME TypeOK, NEW id \in DOMAIN rows, NEW s \in Statuses \ {"pending"},
           update_status(id, s)
    PROVE  /\ TypeRows'
           /\ DOMAIN rows' = DOMAIN rows
           /\ rows'[id].status = s /\ rows'[id].payload = rows[id].payload
           /\ \A i \in DOMAIN rows \ {id} : rows'[i] = rows[i]
  <1>1. rows' = [rows EXCEPT ![id] = [rows[id] EXCEPT !.status = s]]
    BY DEF update_status
  <1>2. [rows[id] EXCEPT !.status = s] \in Row
    BY RowIds
  <1>3. rows' \in [DOMAIN rows -> Row]
    BY <1>1, <1>2, RowIds
  <1>4. /\ rows'[id].status = s /\ rows'[id].payload = rows[id].payload
        /\ \A i \in DOMAIN rows \ {id} : rows'[i] = rows[i]
    BY <1>1, RowIds
  <1> QED
    BY <1>3, <1>4, Update

LEMMA LapseStep ==
    ASSUME TypeOK, lapse
    PROVE  /\ TypeRows'
           /\ DOMAIN rows' = DOMAIN rows
           /\ \A id \in DOMAIN rows : /\ rows'[id].status = rows[id].status
                                      /\ rows'[id].payload = rows[id].payload
  <1>1. PICK id \in DOMAIN rows :
           rows' = [rows EXCEPT ![id] = [rows[id] EXCEPT !.overdue = TRUE]]
    BY DEF lapse, PendingIds
  <1>2. [rows[id] EXCEPT !.overdue = TRUE] \in Row
    BY RowIds
  <1>3. rows' \in [DOMAIN rows -> Row]
    BY <1>1, <1>2, RowIds
  <1>4. \A i \in DOMAIN rows : /\ rows'[i].status = rows[i].status
                               /\ rows'[i].payload = rows[i].payload
    BY <1>1, RowIds
  <1> QED
    BY <1>3, <1>4, Update

-----------------------------------------------------------------------------
(* Types.                                                                  *)

ResRec == [pc : {"idle", "get", "apply", "update", "record"}, verb : Verbs,
           id : 0..MaxRows, payload : 0..MaxAsks, late : BOOLEAN]
ExpRec == [pc : {"idle", "find", "select", "lock", "spend", "log", "open", "track"},
           id : 0..MaxRows]
Outcomes == Verbs \cup {"expire"}

TypeKind == kind \in {"effect", "grant"} /\ raiser \in {"idle", "select"}
TypeBound == asks \in 0..MaxAsks /\ calls \in 0..MaxCalls /\ faults \in 0..MaxFaults
TypeLog == decisions \in [Ids -> Seq(Outcomes)]
TypeCards == carded \subseteq DOMAIN rows
TypeActive == active \in Seq(DOMAIN rows)
TypeRes == res \in [Resolvers -> ResRec]
TypeExp == exp \in [Exposers -> ExpRec] /\ lock \in {"free"} \cup Exposers
TypeObs == /\ effects \in [Ids -> Seq(1..MaxAsks)]
           /\ approvals \in [Ids -> Nat] /\ opened \in [Ids -> Nat]
TypeMarks == disturbed \subseteq Ids

LEMMA TypeParts ==
    TypeOK <=> /\ TypeRows /\ TypeKind /\ TypeBound /\ TypeLog /\ TypeCards /\ TypeActive
               /\ TypeRes /\ TypeExp /\ TypeObs /\ TypeMarks
  BY DEF TypeOK, TypeRows, TypeKind, TypeBound, TypeLog, TypeCards, TypeActive, TypeRes,
     TypeExp, TypeObs, TypeMarks, ResRec, ExpRec, Outcomes

LEMMA TypePartsNext ==
    ASSUME TypeRows', TypeKind', TypeBound', TypeLog', TypeCards', TypeActive',
           TypeRes', TypeExp', TypeObs', TypeMarks'
    PROVE  TypeOK'
  BY Zenon DEF TypeOK, TypeRows, TypeKind, TypeBound, TypeLog, TypeCards, TypeActive, TypeRes,
     TypeExp, TypeObs, TypeMarks, ResRec, ExpRec, Outcomes, Row

\* What a step leaves alone keeps its type; the table may grow.
LEMMA Frame ==
    ASSUME TypeOK
    PROVE  /\ UNCHANGED rows => TypeRows'
           /\ UNCHANGED <<kind, raiser>> => TypeKind'
           /\ UNCHANGED <<asks, calls, faults>> => TypeBound'
           /\ UNCHANGED decisions => TypeLog'
           /\ UNCHANGED carded /\ DOMAIN rows \subseteq DOMAIN rows' => TypeCards'
           /\ UNCHANGED active /\ DOMAIN rows \subseteq DOMAIN rows' => TypeActive'
           /\ UNCHANGED res => TypeRes'
           /\ UNCHANGED <<exp, lock>> => TypeExp'
           /\ UNCHANGED obs => TypeObs'
           /\ UNCHANGED disturbed => TypeMarks'
  <1> USE DEF TypeOK
  <1>1. UNCHANGED active /\ DOMAIN rows \subseteq DOMAIN rows' => TypeActive'
    BY SeqMonotonic DEF TypeActive
  <1>2. /\ UNCHANGED rows => TypeRows'
        /\ UNCHANGED <<kind, raiser>> => TypeKind'
        /\ UNCHANGED <<asks, calls, faults>> => TypeBound'
        /\ UNCHANGED decisions => TypeLog'
        /\ UNCHANGED carded /\ DOMAIN rows \subseteq DOMAIN rows' => TypeCards'
    BY DEF TypeRows, TypeKind, TypeBound, TypeLog, TypeCards, Outcomes
  <1>3. /\ UNCHANGED res => TypeRes'
        /\ UNCHANGED <<exp, lock>> => TypeExp'
        /\ UNCHANGED obs => TypeObs'
        /\ UNCHANGED disturbed => TypeMarks'
    BY DEF TypeRes, TypeExp, TypeObs, TypeMarks, ResRec, ExpRec, obs
  <1> QED
    BY <1>1, <1>2, <1>3

LEMMA FaultType == ASSUME TypeOK, UNCHANGED <<asks, calls>>, Fault \/ UNCHANGED faults
                   PROVE  TypeBound'
  BY ApprovalsAssumption DEF TypeOK, TypeBound, Fault

LEMMA IdleTypes == IdleRes \in ResRec /\ IdleExp \in ExpRec
  BY ApprovalsAssumption DEF IdleRes, IdleExp, ResRec, ExpRec, Verbs

LEMMA ResType ==
    ASSUME TypeOK, NEW r \in Resolvers, NEW v \in ResRec, res' = [res EXCEPT ![r] = v]
    PROVE  TypeRes' /\ res'[r] = v /\ \A q \in Resolvers \ {r} : res'[q] = res[q]
  BY TypeParts DEF TypeRes

LEMMA ExpType ==
    ASSUME TypeOK, NEW e \in Exposers, NEW v \in ExpRec, exp' = [exp EXCEPT ![e] = v]
    PROVE  /\ exp' \in [Exposers -> ExpRec]
           /\ exp'[e] = v /\ \A f \in Exposers \ {e} : exp'[f] = exp[f]
  BY TypeParts DEF TypeExp

\* record_decision
LEMMA LogType ==
    ASSUME TypeOK, NEW id \in Ids, NEW o \in Outcomes,
           decisions' = [decisions EXCEPT ![id] = Append(@, o)]
    PROVE  /\ TypeLog'
           /\ decisions'[id] = Append(decisions[id], o)
           /\ \A i \in Ids \ {id} : decisions'[i] = decisions[i]
  <1>1. decisions \in [Ids -> Seq(Outcomes)]
    BY TypeParts DEF TypeLog
  <1>2. Append(decisions[id], o) \in Seq(Outcomes)
    BY <1>1, AppendProperties
  <1> QED
    BY <1>1, <1>2 DEF TypeLog

LEMMA SweepLog ==
    ASSUME TypeOK, sweep_expired
    PROVE  /\ TypeLog' /\ TypeMarks'
           /\ \A id \in Ids : decisions'[id] = IF id \in Overdue
                  THEN Append(decisions[id], "expire") ELSE decisions[id]
  <1>1. decisions \in [Ids -> Seq(Outcomes)] /\ disturbed \subseteq Ids /\ Overdue \subseteq Ids
    BY TypeParts, RowIds DEF TypeLog, TypeMarks, Overdue, PendingIds
  <1>2. \A id \in Ids : Append(decisions[id], "expire") \in Seq(Outcomes)
    <2> SUFFICES ASSUME NEW id \in Ids PROVE Append(decisions[id], "expire") \in Seq(Outcomes)
      OBVIOUS
    <2>1. "expire" \in Outcomes
      BY DEF Outcomes
    <2> QED
      BY <1>1, <2>1, AppendProperties
  <1> QED
    BY <1>1, <1>2 DEF TypeLog, TypeMarks, sweep_expired

-----------------------------------------------------------------------------
(* What each step of a call and of a stand-up changes.                     *)

OnlyRes(r) == \A q \in Resolvers \ {r} : res'[q] = res[q]
OnlyExp(e) == \A f \in Exposers \ {e} : exp'[f] = exp[f]

LEMMA ResFields ==
    ASSUME TypeOK, NEW r \in Resolvers
    PROVE  /\ res[r] \in ResRec
           /\ res[r].pc \in Working \cup {"idle"}
           /\ res[r].verb \in Verbs /\ res[r].id \in 0..MaxRows
           /\ res[r].payload \in 0..MaxAsks /\ res[r].late \in BOOLEAN
  <1>1. res[r] \in ResRec
    BY TypeParts DEF TypeRes
  <1> QED
    BY <1>1 DEF ResRec, Working

LEMMA ExpFields ==
    ASSUME TypeOK, NEW e \in Exposers
    PROVE  /\ exp[e] \in ExpRec
           /\ exp[e].pc \in Broking \cup {"idle", "find", "select"}
           /\ exp[e].id \in 0..MaxRows
  <1>1. exp[e] \in ExpRec
    BY TypeParts DEF TypeExp
  <1> QED
    BY <1>1 DEF ExpRec, Broking

LEMMA ResIdle ==
    ASSUME TypeOK, NEW r \in Resolvers, res' = [res EXCEPT ![r] = IdleRes]
    PROVE  TypeRes' /\ res'[r] = IdleRes /\ res'[r].pc = "idle" /\ ~ res'[r].late /\ OnlyRes(r)
  <1>1. TypeRes' /\ res'[r] = IdleRes /\ OnlyRes(r)
    BY IdleTypes, ResType DEF OnlyRes
  <1>2. IdleRes.pc = "idle" /\ IdleRes.late = FALSE
    BY DEF IdleRes
  <1> QED
    BY <1>1, <1>2

LEMMA ResGoes ==
    ASSUME TypeOK, NEW r \in Resolvers, NEW pc \in Working, res' = [res EXCEPT ![r].pc = pc]
    PROVE  /\ TypeRes' /\ OnlyRes(r)
           /\ res'[r].pc = pc /\ res'[r].verb = res[r].verb /\ res'[r].id = res[r].id
           /\ res'[r].payload = res[r].payload /\ res'[r].late = res[r].late
  <1>1. res[r] \in ResRec
    BY ResFields
  <1> DEFINE v == [res[r] EXCEPT !.pc = pc]
  <1>2. v \in ResRec
    BY <1>1 DEF ResRec, Working
  <1>3. res' = [res EXCEPT ![r] = v]
    BY TypeParts DEF TypeRes
  <1>4. /\ v.pc = pc /\ v.verb = res[r].verb /\ v.id = res[r].id
        /\ v.payload = res[r].payload /\ v.late = res[r].late
    BY <1>1 DEF ResRec
  <1> HIDE DEF v
  <1>5. TypeRes' /\ res'[r] = v /\ OnlyRes(r)
    BY <1>2, <1>3, ResType DEF OnlyRes
  <1> QED
    BY <1>4, <1>5

LEMMA ExpIdle ==
    ASSUME TypeOK, NEW e \in Exposers, exp' = [exp EXCEPT ![e] = IdleExp]
    PROVE  exp' \in [Exposers -> ExpRec] /\ exp'[e] = IdleExp /\ exp'[e].pc = "idle" /\ OnlyExp(e)
  BY IdleTypes, ExpType DEF OnlyExp, IdleExp

LEMMA ExpGoes ==
    ASSUME TypeOK, NEW e \in Exposers, NEW pc \in Broking \cup {"find", "select"},
           exp' = [exp EXCEPT ![e].pc = pc]
    PROVE  /\ exp' \in [Exposers -> ExpRec] /\ OnlyExp(e)
           /\ exp'[e].pc = pc /\ exp'[e].id = exp[e].id
  <1>1. exp[e] \in ExpRec
    BY ExpFields
  <1> DEFINE v == [exp[e] EXCEPT !.pc = pc]
  <1>2. v \in ExpRec
    BY <1>1 DEF ExpRec, Broking
  <1>3. exp' = [exp EXCEPT ![e] = v]
    BY TypeParts DEF TypeExp
  <1>4. v.pc = pc /\ v.id = exp[e].id
    BY <1>1 DEF ExpRec
  <1> HIDE DEF v
  <1> QED
    BY <1>2, <1>3, <1>4, ExpType DEF OnlyExp

LEMMA BeginStep ==
    ASSUME TypeOK, NEW r \in Resolvers, resolve_begin(r)
    PROVE  /\ TypeRes' /\ OnlyRes(r)
           /\ res'[r].pc = "get" /\ res'[r].id \in DOMAIN rows
           /\ res'[r].late <=> res'[r].id \in Overdue
  <1>1. carded \subseteq DOMAIN rows /\ DOMAIN rows \subseteq 0..MaxRows
    BY TypeParts, RowIds, ApprovalsAssumption DEF TypeCards, Ids
  <1>2. PICK id \in DOMAIN rows, verb \in Verbs :
           res' = [res EXCEPT ![r] = [IdleRes EXCEPT !.pc = "get", !.verb = verb, !.id = id,
                                                     !.late = id \in Overdue]]
    BY <1>1 DEF resolve_begin
  <1>3. PICK late \in BOOLEAN : late = (id \in Overdue)
    <2>1. CASE id \in Overdue
      BY <2>1
    <2>2. CASE ~ (id \in Overdue)
      <3>1. (id \in Overdue) = FALSE
        BY <2>2
      <3> QED
        BY <3>1
    <2> QED
      BY <2>1, <2>2
  <1> DEFINE v == [IdleRes EXCEPT !.pc = "get", !.verb = verb, !.id = id, !.late = late]
  <1>4. res' = [res EXCEPT ![r] = v]
    BY <1>2, <1>3, Zenon
  <1>5. v \in ResRec
    BY <1>1, IdleTypes DEF ResRec, Working
  <1>6. v.pc = "get" /\ v.id = id /\ v.late = late
    BY DEF IdleRes
  <1> HIDE DEF v
  <1>7. TypeRes' /\ res'[r] = v /\ OnlyRes(r)
    BY <1>4, <1>5, ResType DEF OnlyRes
  <1> QED
    BY <1>3, <1>6, <1>7

LEMMA GetStep ==
    ASSUME TypeOK, NEW r \in Resolvers, resolve_get(r), res[r].id \in DOMAIN rows
    PROVE  /\ TypeRes' /\ OnlyRes(r) /\ TypeMarks' /\ disturbed \subseteq disturbed'
           /\ disturbed' \subseteq disturbed \cup {res[r].id}
           /\ res'[r].late => res[r].late
           /\ \/ res'[r].pc = "idle" /\ res'[r] = IdleRes
              \/ /\ rows[res[r].id].status = "pending"
                 /\ res'[r].id = res[r].id /\ res'[r].verb = res[r].verb
                 /\ res'[r].late = res[r].late
                 /\ res'[r].pc = IF res[r].verb = "approve" /\ kind = "effect"
                                 THEN "apply" ELSE "update"
                 /\ res'[r].payload = rows[res[r].id].payload
                 /\ Deciding(res[r].id) # {} => res[r].id \in disturbed'
  <1>1. disturbed \subseteq Ids /\ res[r].id \in Ids
    BY TypeParts, RowIds DEF TypeMarks
  <1>2. CASE ~ Proceeds(res[r].id)
    <2>1. res' = [res EXCEPT ![r] = IdleRes] /\ UNCHANGED disturbed
      BY <1>2 DEF resolve_get
    <2> QED
      BY <1>1, <2>1, ResIdle DEF TypeMarks
  <1>3. CASE Proceeds(res[r].id)
    <2> DEFINE next == IF res[r].verb = "approve" /\ kind = "effect" THEN "apply" ELSE "update"
               pay == rows[res[r].id].payload
               v == [res[r] EXCEPT !.pc = next, !.payload = pay]
    <2>1. /\ res' = [res EXCEPT ![r].pc = next, ![r].payload = pay]
          /\ disturbed' = disturbed \cup (IF Deciding(res[r].id) # {} THEN {res[r].id} ELSE {})
          /\ rows[res[r].id].status = "pending"
      BY <1>3 DEF resolve_get, Proceeds
    <2>2. res[r] \in ResRec /\ pay \in 0..MaxAsks
      BY ResFields, RowIds, ApprovalsAssumption
    <2>3. next \in {"apply", "update"}
      OBVIOUS
    <2> HIDE DEF next, pay
    <2>4. v \in ResRec
      BY <2>2, <2>3 DEF ResRec
    <2>5. res' = [res EXCEPT ![r] = v]
      BY <2>1, TypeParts DEF TypeRes
    <2>6. /\ v.pc = next /\ v.verb = res[r].verb /\ v.id = res[r].id
          /\ v.payload = pay /\ v.late = res[r].late
      BY <2>2 DEF ResRec
    <2> HIDE DEF v
    <2>7. TypeRes' /\ res'[r] = v /\ OnlyRes(r)
      BY <2>4, <2>5, ResType DEF OnlyRes
    <2>8. TypeMarks' /\ disturbed \subseteq disturbed'
          /\ disturbed' \subseteq disturbed \cup {res[r].id}
          /\ (Deciding(res[r].id) # {} => res[r].id \in disturbed')
      BY <1>1, <2>1 DEF TypeMarks
    <2>9. res'[r].pc = IF res[r].verb = "approve" /\ kind = "effect"
                                 THEN "apply" ELSE "update"
      BY <2>6, <2>7 DEF next
    <2>10. res'[r].payload = rows[res[r].id].payload
      BY <2>6, <2>7 DEF pay
    <2> QED
      BY <2>1, <2>6, <2>7, <2>8, <2>9, <2>10
  <1> QED
    BY <1>2, <1>3

-----------------------------------------------------------------------------
(* The types, and what is in hand, are kept.                               *)

LEMMA InitTypes == Init => TypeOK /\ InHand
  <1> SUFFICES ASSUME Init PROVE TypeOK /\ InHand
    OBVIOUS
  <1> USE ApprovalsAssumption DEF Init
  <1>1. TypeRows /\ TypeKind /\ TypeBound /\ TypeLog /\ TypeCards /\ TypeActive /\ TypeMarks
    BY DEF TypeRows, TypeKind, TypeBound, TypeLog, TypeCards, TypeActive, TypeMarks
  <1>2. TypeRes /\ TypeExp
    BY IdleTypes DEF TypeRes, TypeExp
  <1>3. TypeObs
    BY DEF TypeObs
  <1>4. InHand
    BY DEF InHand, IdleRes, IdleExp, Working, Broking
  <1> QED
    BY <1>1, <1>2, <1>3, <1>4, TypeParts

LEMMA TypesKept ==
    ASSUME TypeOK, InHand, Next
    PROVE  TypeOK'
  <1> USE TypeParts, TypePartsNext, Frame
  <1>1. ASSUME raise_approval PROVE TypeOK'
    <2>1. asks + 1 \in 1..MaxAsks
      BY <1>1, ApprovalsAssumption DEF raise_approval, TypeBound
    <2>2. UpsertRow(asks + 1)
      BY <1>1 DEF raise_approval
    <2>3. TypeRows' /\ DOMAIN rows \subseteq DOMAIN rows' /\ TypeMarks'
      BY <2>1, <2>2, UpsertStep, RowIds DEF TypeMarks
    <2> QED
      BY <1>1, <2>1, <2>3, ApprovalsAssumption DEF raise_approval, broker, TypeKind, TypeBound
  <1>2. ASSUME upsert_select PROVE TypeOK'
    <2>1. TypeExp' /\ TypeKind'
      BY <1>2, ExpIdle DEF upsert_select, TypeKind, TypeExp
    <2>2. TypeCards'
      BY <1>2 DEF upsert_select, TypeCards, PendingIds
    <2> QED
      BY <1>2, <2>1, <2>2 DEF upsert_select
  <1>3. ASSUME lapse PROVE TypeOK'
    BY <1>3, LapseStep DEF lapse, broker
  <1>4. ASSUME list PROVE TypeOK'
    BY <1>4, SweepStep, SweepLog DEF list, broker
  <1>5. ASSUME NEW r \in Resolvers, resolve_begin(r) PROVE TypeOK'
    <2>1. TypeBound'
      BY <1>5, ApprovalsAssumption DEF resolve_begin, TypeBound
    <2>2. sweep_expired
      BY <1>5 DEF resolve_begin
    <2> QED
      BY <1>5, <2>1, <2>2, BeginStep, SweepStep, SweepLog DEF resolve_begin, broker
  <1>6. ASSUME NEW r \in Resolvers, resolve_get(r) PROVE TypeOK'
    <2>1. res[r].id \in DOMAIN rows
      BY <1>6 DEF resolve_get, InHand, Working
    <2> QED
      BY <1>6, <2>1, GetStep DEF resolve_get, broker
  <1>7. ASSUME NEW r \in Resolvers, resolve_apply(r) PROVE TypeOK'
    <2>1. res[r].id \in Ids /\ res[r].payload \in 1..MaxAsks
      BY <1>7, RowIds DEF resolve_apply, InHand, Working
    <2>2. TypeRes'
      BY <1>7, ResIdle, ResGoes DEF resolve_apply, Working
    <2>3. TypeBound'
      BY <1>7, FaultType DEF resolve_apply
    <2>4. effects' \in [Ids -> Seq(1..MaxAsks)]
      <3>1. effects \in [Ids -> Seq(1..MaxAsks)]
        BY DEF TypeObs
      <3>2. Append(effects[res[r].id], res[r].payload) \in Seq(1..MaxAsks)
        BY <2>1, <3>1, AppendProperties
      <3> QED
        BY <1>7, <2>1, <3>1, <3>2 DEF resolve_apply
    <2> QED
      BY <1>7, <2>2, <2>3, <2>4 DEF resolve_apply, broker, TypeObs
  <1>8. ASSUME NEW r \in Resolvers, resolve_update(r) PROVE TypeOK'
    <2>1. res[r].id \in DOMAIN rows /\ res[r].id \in Ids
      BY <1>8, RowIds DEF resolve_update, InHand, Working
    <2>2. Decision[res[r].verb] \in Statuses \ {"pending"}
      BY ResFields DEF Decision, Verbs, Statuses
    <2>3. TypeRes'
      BY <1>8, ResIdle, ResGoes DEF resolve_update, Working
    <2>4. TypeBound'
      BY <1>8, FaultType DEF resolve_update
    <2>5. TypeRows' /\ DOMAIN rows' = DOMAIN rows
      BY <1>8, <2>1, <2>2, StatusStep DEF resolve_update
    <2>6. approvals' \in [Ids -> Nat]
      BY <1>8, <2>1 DEF resolve_update, TypeObs
    <2>7. TypeMarks'
      BY <1>8, <2>1 DEF resolve_update, TypeMarks
    <2> QED
      BY <1>8, <2>3, <2>4, <2>5, <2>6, <2>7 DEF resolve_update, broker, TypeObs
  <1>9. ASSUME NEW r \in Resolvers, resolve_record(r) PROVE TypeOK'
    <2>1. res[r].id \in Ids /\ res[r].verb \in Outcomes
      BY <1>9, RowIds, ResFields DEF resolve_record, InHand, Working, Outcomes
    <2>2. TypeRes'
      BY <1>9, ResIdle DEF resolve_record
    <2>3. TypeBound'
      BY <1>9, FaultType DEF resolve_record
    <2>4. TypeLog' /\ TypeMarks'
      BY <1>9, <2>1, LogType DEF resolve_record, TypeMarks
    <2> QED
      BY <1>9, <2>2, <2>3, <2>4 DEF resolve_record, broker
  <1>10. ASSUME NEW e \in Exposers, expose(e) PROVE TypeOK'
    <2>1. TypeExp'
      BY <1>10, ExpGoes DEF expose, TypeExp
    <2> QED
      BY <1>10, <2>1 DEF expose
  <1>11. ASSUME NEW e \in Exposers, find_approval(e) PROVE TypeOK'
    <2>1. CASE NewestStatus = "approved"
      <3>1. Newest \in 0..MaxRows
        BY RowIds, ApprovalsAssumption DEF Newest, TypeRows
      <3>2. [pc |-> "lock", id |-> Newest] \in ExpRec
        BY <3>1 DEF ExpRec
      <3>3. TypeExp'
        BY <1>11, <2>1, <3>2, ExpType DEF find_approval, TypeExp
      <3> QED
        BY <1>11, <2>1, <3>3 DEF find_approval
    <2>2. CASE NewestStatus \in {"denied", "pending"}
      <3>1. TypeExp'
        BY <1>11, <2>2, ExpIdle DEF find_approval, TypeExp
      <3> QED
        BY <1>11, <2>2, <3>1 DEF find_approval
    <2>3. CASE NewestStatus \notin {"approved", "denied", "pending"}
      <3>1. asks < MaxAsks /\ asks' = asks + 1 /\ UpsertRow(asks + 1)
            /\ exp' = [exp EXCEPT ![e].pc = "select"]
        BY <1>11, <2>3 DEF find_approval
      <3>2. asks + 1 \in 1..MaxAsks
        BY <3>1, ApprovalsAssumption DEF TypeBound
      <3>3. TypeRows' /\ DOMAIN rows \subseteq DOMAIN rows' /\ TypeMarks'
        BY <3>1, <3>2, UpsertStep, RowIds DEF TypeMarks
      <3>4. TypeExp'
        BY <1>11, <3>1, ExpGoes DEF find_approval, TypeExp
      <3> QED
        BY <1>11, <3>1, <3>2, <3>3, <3>4 DEF find_approval, TypeBound
    <2> QED
      BY <2>1, <2>2, <2>3
  <1>12. ASSUME NEW e \in Exposers, stand_up(e) PROVE TypeOK'
    <2>1. TypeExp'
      BY <1>12, ExpGoes, ExpIdle DEF stand_up, TypeExp, Broking
    <2> QED
      BY <1>12, <2>1 DEF stand_up
  <1>13. ASSUME NEW e \in Exposers, consume_grant(e) PROVE TypeOK'
    <2>1. exp[e].id \in DOMAIN rows /\ exp[e].id \in Ids
      BY <1>13, RowIds DEF consume_grant, InHand, Broking
    <2>2. TypeExp'
      BY <1>13, ExpGoes, ExpIdle DEF consume_grant, TypeExp, Broking
    <2>3. TypeBound'
      BY <1>13, FaultType DEF consume_grant
    <2>4. TypeRows' /\ DOMAIN rows' = DOMAIN rows
      BY <1>13, <2>1, StatusStep DEF consume_grant, Statuses
    <2>5. TypeMarks'
      BY <1>13, <2>1 DEF consume_grant, TypeMarks
    <2> QED
      BY <1>13, <2>2, <2>3, <2>4, <2>5 DEF consume_grant
  <1>14. ASSUME NEW e \in Exposers, consume_logged(e) PROVE TypeOK'
    <2>1. exp[e].id \in Ids
      BY <1>14, RowIds DEF consume_logged, InHand, Broking
    <2>2. TypeExp'
      BY <1>14, ExpGoes DEF consume_logged, TypeExp, Broking
    <2>3. TypeBound'
      BY <1>14, FaultType DEF consume_logged
    <2>4. TypeLog' /\ TypeMarks'
      BY <1>14, <2>1, LogType DEF consume_logged, TypeMarks, Outcomes, Verbs
    <2> QED
      BY <1>14, <2>2, <2>3, <2>4 DEF consume_logged
  <1>15. ASSUME NEW e \in Exposers, open(e) PROVE TypeOK'
    <2>1. exp[e].id \in Ids
      BY <1>15, RowIds DEF open, InHand, Broking
    <2>2. TypeExp'
      BY <1>15, ExpGoes, ExpIdle DEF open, TypeExp, Broking
    <2>3. TypeBound'
      BY <1>15, FaultType DEF open
    <2>4. TypeObs'
      BY <1>15, <2>1 DEF open, TypeObs
    <2> QED
      BY <1>15, <2>2, <2>3, <2>4 DEF open
  <1>16. ASSUME NEW e \in Exposers, track(e) PROVE TypeOK'
    <2>1. exp[e].id \in DOMAIN rows
      BY <1>16 DEF track, InHand, Broking
    <2>2. TypeExp'
      BY <1>16, ExpIdle DEF track, TypeExp
    <2>3. TypeActive'
      BY <1>16, <2>1, AppendProperties DEF track, TypeActive
    <2> QED
      BY <1>16, <2>2, <2>3 DEF track
  <1>17. ASSUME teardown PROVE TypeOK'
    <2>1. TypeActive'
      BY <1>17, HeadTailProperties DEF teardown, TypeActive, Exposed
    <2> QED
      BY <1>17, <2>1 DEF teardown
  <1>18. ASSUME restart PROVE TypeOK'
    <2>1. TypeRes' /\ TypeExp' /\ TypeActive'
      BY <1>18, IdleTypes DEF restart, TypeRes, TypeExp, TypeActive
    <2>2. TypeKind' /\ TypeBound'
      BY <1>18, FaultType DEF restart, TypeKind
    <2>3. TypeMarks'
      BY <1>18, RowIds DEF restart, TypeMarks, InHand, Working, Broking
    <2> QED
      BY <1>18, <2>1, <2>2, <2>3 DEF restart
  <1> QED
    BY <1>1, <1>2, <1>3, <1>4, <1>5, <1>6, <1>7, <1>8, <1>9, <1>10, <1>11, <1>12, <1>13,
       <1>14, <1>15, <1>16, <1>17, <1>18 DEF Next

\* Who is in hand, and what is not of their row, when a call applies, updates,
\* records, or a stand-up finds, takes, spends, logs, opens.
LEMMA ApplyStep ==
    ASSUME TypeOK, InHand, NEW r \in Resolvers, resolve_apply(r)
    PROVE  /\ res[r].pc = "apply" /\ res[r].id \in DOMAIN rows /\ OnlyRes(r)
           /\ \A id \in Ids \ {res[r].id} : effects'[id] = effects[id]
           /\ UNCHANGED <<kind, rows, decisions, approvals, opened, exp, lock, active, disturbed>>
           /\ \/ /\ res'[r].pc = "update" /\ res'[r].id = res[r].id /\ res'[r].verb = res[r].verb
                 /\ res'[r].payload = res[r].payload /\ res'[r].late = res[r].late
                 /\ effects'[res[r].id] = Append(effects[res[r].id], res[r].payload)
              \/ res'[r].pc = "idle" /\ ~ res'[r].late /\ UNCHANGED effects
  <1>1. res[r].id \in DOMAIN rows /\ res[r].id \in Ids
    BY RowIds DEF resolve_apply, InHand, Working
  <1>2. effects \in [Ids -> Seq(1..MaxAsks)]
    BY TypeParts DEF TypeObs
  <1>3. CASE UNCHANGED effects /\ res' = [res EXCEPT ![r] = IdleRes]
    BY <1>1, <1>2, <1>3, ResIdle DEF resolve_apply, broker
  <1>4. CASE /\ effects' = [effects EXCEPT ![res[r].id] = Append(@, res[r].payload)]
             /\ res' = [res EXCEPT ![r].pc = "update"]
    <2>1. /\ effects'[res[r].id] = Append(effects[res[r].id], res[r].payload)
          /\ \A id \in Ids \ {res[r].id} : effects'[id] = effects[id]
      BY <1>1, <1>2, <1>4
    <2> QED
      BY <1>1, <1>4, <2>1, ResGoes DEF resolve_apply, broker, Working
  <1> QED
    BY <1>3, <1>4 DEF resolve_apply

LEMMA UpdateStep ==
    ASSUME TypeOK, InHand, NEW r \in Resolvers, resolve_update(r)
    PROVE  /\ res[r].pc = "update" /\ res[r].id \in DOMAIN rows /\ OnlyRes(r)
           /\ Decision[res[r].verb] \in Statuses \ {"pending"}
           /\ DOMAIN rows' = DOMAIN rows
           /\ \A id \in Ids \ {res[r].id} : approvals'[id] = approvals[id]
           /\ \A id \in DOMAIN rows \ {res[r].id} : rows'[id] = rows[id]
           /\ UNCHANGED <<kind, decisions, effects, opened, exp, lock, active>>
           /\ \/ /\ res'[r].pc = "record" /\ res'[r].id = res[r].id /\ res'[r].verb = res[r].verb
                 /\ res'[r].late = res[r].late
                 /\ rows'[res[r].id].status = Decision[res[r].verb]
                 /\ rows'[res[r].id].payload = rows[res[r].id].payload
                 /\ approvals'[res[r].id] = approvals[res[r].id]
                        + (IF Decision[res[r].verb] = "approved" THEN 1 ELSE 0)
                 /\ UNCHANGED disturbed
              \/ /\ res'[r].pc = "idle" /\ ~ res'[r].late /\ UNCHANGED <<rows, approvals>>
                 /\ disturbed' = disturbed \cup {res[r].id}
  <1>1. res[r].id \in DOMAIN rows /\ res[r].id \in Ids
    BY RowIds DEF resolve_update, InHand, Working
  <1>2. approvals \in [Ids -> Nat]
    BY TypeParts DEF TypeObs
  <1>3. Decision[res[r].verb] \in Statuses \ {"pending"}
    BY ResFields DEF Decision, Verbs, Statuses
  <1>4. CASE UNCHANGED <<rows, approvals>> /\ res' = [res EXCEPT ![r] = IdleRes]
             /\ disturbed' = disturbed \cup {res[r].id}
    BY <1>1, <1>2, <1>3, <1>4, ResIdle DEF resolve_update, broker
  <1>5. CASE /\ update_status(res[r].id, Decision[res[r].verb])
             /\ approvals' = [approvals EXCEPT ![res[r].id] =
                   @ + (IF Decision[res[r].verb] = "approved" THEN 1 ELSE 0)]
             /\ res' = [res EXCEPT ![r].pc = "record"]
             /\ UNCHANGED disturbed
    <2>1. /\ approvals'[res[r].id] = approvals[res[r].id]
                        + (IF Decision[res[r].verb] = "approved" THEN 1 ELSE 0)
          /\ \A id \in Ids \ {res[r].id} : approvals'[id] = approvals[id]
      BY <1>1, <1>2, <1>5
    <2>2. /\ OnlyRes(r) /\ res'[r].pc = "record" /\ res'[r].id = res[r].id
          /\ res'[r].verb = res[r].verb /\ res'[r].late = res[r].late
      BY <1>5, ResGoes DEF Working
    <2>3. /\ DOMAIN rows' = DOMAIN rows
          /\ \A id \in DOMAIN rows \ {res[r].id} : rows'[id] = rows[id]
          /\ rows'[res[r].id].status = Decision[res[r].verb]
          /\ rows'[res[r].id].payload = rows[res[r].id].payload
      BY <1>1, <1>3, <1>5, StatusStep
    <2> QED
      BY <1>1, <1>3, <1>5, <2>1, <2>2, <2>3 DEF resolve_update, broker
  <1> QED
    BY <1>4, <1>5 DEF resolve_update

LEMMA RecordStep ==
    ASSUME TypeOK, InHand, NEW r \in Resolvers, resolve_record(r)
    PROVE  /\ res[r].pc = "record" /\ res[r].id \in DOMAIN rows /\ OnlyRes(r)
           /\ res'[r].pc = "idle" /\ ~ res'[r].late
           /\ \A id \in Ids \ {res[r].id} : decisions'[id] = decisions[id]
           /\ UNCHANGED <<kind, rows, effects, approvals, opened, exp, lock, active>>
           /\ \/ /\ decisions'[res[r].id] = Append(decisions[res[r].id], res[r].verb)
                 /\ UNCHANGED disturbed
              \/ UNCHANGED decisions /\ disturbed' = disturbed \cup {res[r].id}
  <1>1. res[r].id \in DOMAIN rows /\ res[r].id \in Ids /\ res[r].verb \in Outcomes
    BY RowIds, ResFields DEF resolve_record, InHand, Working, Outcomes
  <1>2. CASE UNCHANGED decisions
    BY <1>1, <1>2, ResIdle, LogType DEF resolve_record, broker, obs
  <1>3. CASE decisions' = [decisions EXCEPT ![res[r].id] = Append(@, res[r].verb)]
             /\ UNCHANGED disturbed
    BY <1>1, <1>3, ResIdle, LogType DEF resolve_record, broker, obs
  <1> QED
    BY <1>2, <1>3 DEF resolve_record

LEMMA FindStep ==
    ASSUME TypeOK, InHand, NEW e \in Exposers, find_approval(e)
    PROVE  /\ exp[e].pc = "find" /\ OnlyExp(e)
           /\ UNCHANGED <<kind, decisions, res, lock, active, effects, approvals, opened>>
           /\ \/ /\ exp'[e].pc = "lock" /\ exp'[e].id \in DOMAIN rows
                 /\ UNCHANGED <<rows, disturbed>>
              \/ exp'[e].pc = "idle" /\ UNCHANGED <<rows, disturbed>>
              \/ /\ exp'[e].pc = "select" /\ asks + 1 \in 1..MaxAsks /\ UpsertRow(asks + 1)
  <1>1. CASE NewestStatus = "approved"
    <2>1. rows # <<>> /\ rows \in Seq(Row)
      BY <1>1, TypeParts DEF NewestStatus, TypeRows
    <2>2. Len(rows) # 0 /\ Len(rows) <= MaxRows /\ MaxRows \in Nat
      BY <2>1, EmptySeq, TypeParts, ApprovalsAssumption DEF TypeRows
    <2>3. Newest \in DOMAIN rows /\ Newest \in 0..MaxRows
      BY <2>2, RowIds DEF Newest
    <2>4. [pc |-> "lock", id |-> Newest] \in ExpRec
      BY <2>3 DEF ExpRec
    <2>5. exp'[e].pc = "lock" /\ exp'[e].id = Newest /\ OnlyExp(e)
      BY <1>1, <2>4, ExpType DEF find_approval, OnlyExp
    <2> QED
      BY <1>1, <2>3, <2>5 DEF find_approval, obs
  <1>2. CASE NewestStatus \in {"denied", "pending"}
    BY <1>2, ExpIdle DEF find_approval, obs
  <1>3. CASE NewestStatus \notin {"approved", "denied", "pending"}
    <2>1. asks < MaxAsks /\ UpsertRow(asks + 1) /\ exp' = [exp EXCEPT ![e].pc = "select"]
      BY <1>3 DEF find_approval
    <2>2. asks + 1 \in 1..MaxAsks
      BY <2>1, ApprovalsAssumption, TypeParts DEF TypeBound
    <2>3. exp'[e].pc = "select" /\ OnlyExp(e)
      BY <2>1, ExpGoes
    <2> QED
      BY <2>1, <2>2, <2>3 DEF find_approval, obs
  <1> QED
    BY <1>1, <1>2, <1>3

LEMMA StandUpStep ==
    ASSUME TypeOK, InHand, NEW e \in Exposers, stand_up(e)
    PROVE  /\ exp[e].pc = "lock" /\ exp[e].id \in DOMAIN rows /\ lock = "free" /\ OnlyExp(e)
           /\ UNCHANGED <<kind, rows, decisions, res, active, effects, approvals, opened,
                          disturbed>>
           /\ \/ /\ rows[exp[e].id].status = "approved" /\ lock' = e
                 /\ exp'[e].pc = "spend" /\ exp'[e].id = exp[e].id
              \/ exp'[e].pc = "idle" /\ lock' = "free"
  <1>1. exp[e].id \in DOMAIN rows
    BY DEF stand_up, InHand, Broking
  <1>2. CASE ~ Exposed /\ Spendable(exp[e].id)
    BY <1>1, <1>2, ExpGoes DEF stand_up, obs, Broking, Spendable
  <1>3. CASE ~ (~ Exposed /\ Spendable(exp[e].id))
    BY <1>1, <1>3, ExpIdle DEF stand_up, obs
  <1> QED
    BY <1>2, <1>3

LEMMA GrantStep ==
    ASSUME TypeOK, InHand, NEW e \in Exposers, consume_grant(e)
    PROVE  /\ exp[e].pc = "spend" /\ exp[e].id \in DOMAIN rows /\ lock = e /\ OnlyExp(e)
           /\ DOMAIN rows' = DOMAIN rows
           /\ \A id \in DOMAIN rows \ {exp[e].id} : rows'[id] = rows[id]
           /\ UNCHANGED <<kind, decisions, res, active, effects, approvals, opened>>
           /\ disturbed \subseteq disturbed'
           /\ disturbed' \subseteq disturbed \cup {exp[e].id}
           /\ Deciding(exp[e].id) # {} => exp[e].id \in disturbed'
           /\ \/ /\ exp'[e].pc = "log" /\ exp'[e].id = exp[e].id /\ lock' = e
                 /\ rows'[exp[e].id].status = "revoked"
                 /\ rows'[exp[e].id].payload = rows[exp[e].id].payload
              \/ exp'[e].pc = "idle" /\ lock' = "free" /\ UNCHANGED rows
  <1>1. exp[e].id \in DOMAIN rows /\ lock = e
    BY DEF consume_grant, InHand, Broking
  <1>2. /\ disturbed \subseteq disturbed'
        /\ disturbed' \subseteq disturbed \cup {exp[e].id}
        /\ Deciding(exp[e].id) # {} => exp[e].id \in disturbed'
    BY DEF consume_grant
  <1>3. CASE update_status(exp[e].id, "revoked") /\ exp' = [exp EXCEPT ![e].pc = "log"]
             /\ UNCHANGED lock
    BY <1>1, <1>2, <1>3, ExpGoes, StatusStep DEF consume_grant, obs, Broking, Statuses
  <1>4. CASE UNCHANGED rows /\ exp' = [exp EXCEPT ![e] = IdleExp] /\ lock' = "free"
    BY <1>1, <1>2, <1>4, ExpIdle DEF consume_grant, obs
  <1> QED
    BY <1>3, <1>4 DEF consume_grant

LEMMA LoggedStep ==
    ASSUME TypeOK, InHand, NEW e \in Exposers, consume_logged(e)
    PROVE  /\ exp[e].pc = "log" /\ exp[e].id \in DOMAIN rows /\ lock = e /\ OnlyExp(e)
           /\ exp'[e].pc = "open" /\ exp'[e].id = exp[e].id /\ lock' = "free"
           /\ \A id \in Ids \ {exp[e].id} : decisions'[id] = decisions[id]
           /\ UNCHANGED <<kind, rows, res, active, effects, approvals, opened>>
           /\ \/ /\ decisions'[exp[e].id] = Append(decisions[exp[e].id], "revoke")
                 /\ UNCHANGED disturbed
              \/ UNCHANGED decisions /\ disturbed' = disturbed \cup {exp[e].id}
  <1>1. exp[e].id \in DOMAIN rows /\ exp[e].id \in Ids /\ lock = e /\ "revoke" \in Outcomes
    BY RowIds DEF consume_logged, InHand, Broking, Outcomes, Verbs
  <1>2. exp'[e].pc = "open" /\ exp'[e].id = exp[e].id /\ OnlyExp(e)
    BY ExpGoes DEF consume_logged, Broking
  <1>3. CASE UNCHANGED decisions
    BY <1>1, <1>2, <1>3, LogType DEF consume_logged, obs
  <1>4. CASE decisions' = [decisions EXCEPT ![exp[e].id] = Append(@, "revoke")]
             /\ UNCHANGED disturbed
    BY <1>1, <1>2, <1>4, LogType DEF consume_logged, obs
  <1> QED
    BY <1>3, <1>4 DEF consume_logged

LEMMA OpenStep ==
    ASSUME TypeOK, InHand, NEW e \in Exposers, open(e)
    PROVE  /\ exp[e].pc = "open" /\ exp[e].id \in DOMAIN rows /\ OnlyExp(e)
           /\ \A id \in Ids \ {exp[e].id} : opened'[id] = opened[id]
           /\ UNCHANGED <<kind, rows, decisions, res, lock, active, effects, approvals, disturbed>>
           /\ \/ /\ exp'[e].pc = "track" /\ exp'[e].id = exp[e].id
                 /\ opened'[exp[e].id] = opened[exp[e].id] + 1
              \/ exp'[e].pc = "idle" /\ UNCHANGED opened
  <1>1. exp[e].id \in DOMAIN rows /\ exp[e].id \in Ids
    BY RowIds DEF open, InHand, Broking
  <1>2. opened \in [Ids -> Nat]
    BY TypeParts DEF TypeObs
  <1>3. CASE opened' = [opened EXCEPT ![exp[e].id] = @ + 1] /\ exp' = [exp EXCEPT ![e].pc = "track"]
    BY <1>1, <1>2, <1>3, ExpGoes DEF open, Broking
  <1>4. CASE UNCHANGED opened /\ exp' = [exp EXCEPT ![e] = IdleExp]
    BY <1>1, <1>4, ExpIdle DEF open
  <1> QED
    BY <1>3, <1>4 DEF open

LEMMA TrackStep ==
    ASSUME TypeOK, InHand, NEW e \in Exposers, track(e)
    PROVE  /\ exp[e].pc = "track" /\ exp[e].id \in DOMAIN rows /\ OnlyExp(e)
           /\ exp'[e].pc = "idle"
           /\ UNCHANGED <<kind, rows, decisions, res, lock, effects, approvals, opened, disturbed>>
  BY ExpIdle DEF track, InHand, Broking, obs

LEMMA SelectStep ==
    ASSUME TypeOK, upsert_select
    PROVE  /\ UNCHANGED <<kind, rows, decisions, res, lock, active, effects, approvals, opened,
                          disturbed>>
           /\ \/ UNCHANGED exp
              \/ \E e \in Exposers : exp[e].pc = "select" /\ exp'[e].pc = "idle" /\ OnlyExp(e)
  BY ExpIdle DEF upsert_select, obs

LEMMA BrokerSteps ==
    ASSUME TypeOK, InHand, NEW e \in Exposers,
           \/ expose(e) \/ stand_up(e) \/ open(e) \/ track(e)
    PROVE  UNCHANGED <<kind, rows, decisions, res, effects, approvals, disturbed>>
  BY StandUpStep, OpenStep, TrackStep DEF expose, obs

\* The lock is held by nobody, or by the one stand-up between its two halves.
LEMMA InHandKept ==
    ASSUME TypeOK, InHand, Next
    PROVE  InHand'
  <1> USE DEF InHand
  <1>1. ASSUME raise_approval PROVE InHand'
    <2>1. UpsertRow(asks + 1) /\ asks + 1 \in 1..MaxAsks
      BY <1>1, TypeParts, ApprovalsAssumption DEF raise_approval, TypeBound
    <2> QED
      BY <1>1, <2>1, UpsertStep DEF raise_approval, broker, obs
  <1>2. ASSUME upsert_select PROVE InHand'
    BY <1>2, SelectStep DEF OnlyExp, Broking
  <1>3. ASSUME lapse PROVE InHand'
    BY <1>3, LapseStep DEF lapse, broker, obs
  <1>4. ASSUME list PROVE InHand'
    BY <1>4, SweepStep, SweepLog DEF list, broker, obs, Overdue, PendingIds
  <1>5. ASSUME NEW r \in Resolvers, resolve_begin(r) PROVE InHand'
    <2>1. sweep_expired /\ UNCHANGED <<exp, lock, effects, approvals, opened>>
      BY <1>5 DEF resolve_begin, broker, obs
    <2>2. DOMAIN rows' = DOMAIN rows /\ \A id \in Ids \ DOMAIN rows : decisions'[id] = decisions[id]
      BY <2>1, SweepStep, SweepLog DEF Overdue, PendingIds
    <2> QED
      BY <1>5, <2>1, <2>2, BeginStep DEF OnlyRes
  <1>6. ASSUME NEW r \in Resolvers, resolve_get(r) PROVE InHand'
    <2>1. res[r].id \in DOMAIN rows /\ rows[res[r].id].payload \in 1..MaxAsks
      BY <1>6, RowIds DEF resolve_get, Working
    <2> QED
      BY <1>6, <2>1, GetStep DEF resolve_get, broker, obs, OnlyRes, Working
  <1>7. ASSUME NEW r \in Resolvers, resolve_apply(r) PROVE InHand'
    BY <1>7, ApplyStep DEF OnlyRes, Working
  <1>8. ASSUME NEW r \in Resolvers, resolve_update(r) PROVE InHand'
    BY <1>8, UpdateStep DEF OnlyRes, Working
  <1>9. ASSUME NEW r \in Resolvers, resolve_record(r) PROVE InHand'
    BY <1>9, RecordStep DEF OnlyRes, Working
  <1>10. ASSUME NEW e \in Exposers, expose(e) PROVE InHand'
    BY <1>10, ExpGoes DEF expose, obs, OnlyExp, Broking
  <1>11. ASSUME NEW e \in Exposers, find_approval(e) PROVE InHand'
    <2>1. CASE UNCHANGED rows
      BY <1>11, <2>1, FindStep DEF OnlyExp, Broking
    <2>2. CASE UpsertRow(asks + 1) /\ asks + 1 \in 1..MaxAsks /\ exp'[e].pc = "select"
      <3>1. DOMAIN rows \subseteq DOMAIN rows'
        BY <2>2, UpsertStep
      <3> QED
        BY <1>11, <2>2, <3>1, FindStep DEF OnlyExp, Broking
    <2> QED
      BY <1>11, <2>1, <2>2, FindStep
  <1>12. ASSUME NEW e \in Exposers, stand_up(e) PROVE InHand'
    BY <1>12, StandUpStep, ApprovalsAssumption DEF OnlyExp, Broking
  <1>13. ASSUME NEW e \in Exposers, consume_grant(e) PROVE InHand'
    BY <1>13, GrantStep, ApprovalsAssumption DEF OnlyExp, Broking
  <1>14. ASSUME NEW e \in Exposers, consume_logged(e) PROVE InHand'
    BY <1>14, LoggedStep, ApprovalsAssumption DEF OnlyExp, Broking
  <1>15. ASSUME NEW e \in Exposers, open(e) PROVE InHand'
    BY <1>15, OpenStep DEF OnlyExp, Broking
  <1>16. ASSUME NEW e \in Exposers, track(e) PROVE InHand'
    BY <1>16, TrackStep DEF OnlyExp, Broking
  <1>17. ASSUME teardown PROVE InHand'
    BY <1>17 DEF teardown, obs
  <1>18. ASSUME restart PROVE InHand'
    BY <1>18, ApprovalsAssumption DEF restart, obs, IdleRes, IdleExp, Working, Broking
  <1> QED
    BY <1>1, <1>2, <1>3, <1>4, <1>5, <1>6, <1>7, <1>8, <1>9, <1>10, <1>11, <1>12, <1>13,
       <1>14, <1>15, <1>16, <1>17, <1>18 DEF Next

-----------------------------------------------------------------------------
(* Lapses.                                                                 *)

LEMMA AppendOutcome ==
    ASSUME NEW log \in Seq(Outcomes), NEW o \in Outcomes
    PROVE  /\ o # "expire" /\ Once(log) => Once(Append(log, o))
           /\ o # "expire" /\ ~ Lapsed(log) => ~ Lapsed(Append(log, o))
           /\ ~ Lapsed(log) => Once(Append(log, o))
  <1> DEFINE new == Append(log, o)
  <1>1. Len(log) \in Nat /\ DOMAIN log = 1..Len(log)
    BY LenProperties
  <1>2. Len(new) = Len(log) + 1 /\ new \in Seq(Outcomes)
    BY AppendProperties
  <1>3. DOMAIN new = 1..(Len(log) + 1)
    BY <1>2, LenProperties
  <1>4. \A i \in 1..Len(log) : new[i] = log[i]
    BY AppendProperties
  <1>5. new[Len(log) + 1] = o
    BY AppendProperties
  <1> HIDE DEF new
  <1>6. /\ o # "expire" /\ Once(log) => Once(new)
        /\ o # "expire" /\ ~ Lapsed(log) => ~ Lapsed(new)
        /\ ~ Lapsed(log) => Once(new)
    BY <1>1, <1>3, <1>4, <1>5 DEF Once, Lapsed
  <1> QED
    BY <1>6 DEF new

LEMMA EmptyLog == ~ Lapsed(<<>>) /\ Once(<<>>)
  BY DEF Lapsed, Once

\* A row that was settled is never pending again, and the log of a row only
\* grows, by a decision or by the lapse that settles it.
LEMMA LogStep ==
    ASSUME TypeOK, InHand, Next
    PROVE  /\ \A id \in DOMAIN rows : rows'[id].status = "pending" => rows[id].status = "pending"
           /\ \A id \in DOMAIN rows' \ DOMAIN rows : id \in Ids
           /\ \A id \in Ids : \/ decisions'[id] = decisions[id]
                              \/ /\ id \in DOMAIN rows
                                 /\ \E o \in Verbs : decisions'[id] = Append(decisions[id], o)
                              \/ /\ id \in DOMAIN rows
                                 /\ rows[id].status = "pending" /\ rows'[id].status # "pending"
                                 /\ decisions'[id] = Append(decisions[id], "expire")
  <1> DEFINE Goal ==
           /\ \A id \in DOMAIN rows : rows'[id].status = "pending" => rows[id].status = "pending"
           /\ \A id \in DOMAIN rows' \ DOMAIN rows : id \in Ids
           /\ \A id \in Ids : \/ decisions'[id] = decisions[id]
                              \/ /\ id \in DOMAIN rows
                                 /\ \E o \in Verbs : decisions'[id] = Append(decisions[id], o)
                              \/ /\ id \in DOMAIN rows
                                 /\ rows[id].status = "pending" /\ rows'[id].status # "pending"
                                 /\ decisions'[id] = Append(decisions[id], "expire")
  <1>1. CASE raise_approval
    <2>1. UpsertRow(asks + 1) /\ asks + 1 \in 1..MaxAsks
      BY <1>1, TypeParts, ApprovalsAssumption DEF raise_approval, TypeBound
    <2> QED
      BY <1>1, <2>1, UpsertStep DEF raise_approval
  <1>2. CASE upsert_select
    BY <1>2, SelectStep
  <1>3. CASE lapse
    BY <1>3, LapseStep DEF lapse
  <1>4. ASSUME sweep_expired PROVE Goal
    BY <1>4, SweepStep, SweepLog DEF Overdue, PendingIds
  <1>5. ASSUME NEW r \in Resolvers, resolve_get(r) PROVE Goal
    BY <1>5 DEF resolve_get
  <1>6. ASSUME NEW r \in Resolvers, resolve_apply(r) PROVE Goal
    BY <1>6, ApplyStep
  <1>7. ASSUME NEW r \in Resolvers, resolve_update(r) PROVE Goal
    BY <1>7, UpdateStep
  <1>8. ASSUME NEW r \in Resolvers, resolve_record(r) PROVE Goal
    BY <1>8, RecordStep, ResFields
  <1>9. ASSUME NEW e \in Exposers, find_approval(e) PROVE Goal
    <2>1. CASE UNCHANGED rows
      BY <1>9, <2>1, FindStep
    <2>2. CASE UpsertRow(asks + 1) /\ asks + 1 \in 1..MaxAsks
      BY <1>9, <2>2, FindStep, UpsertStep
    <2> QED
      BY <1>9, <2>1, <2>2, FindStep
  <1>10. ASSUME NEW e \in Exposers, consume_grant(e) PROVE Goal
    BY <1>10, GrantStep
  <1>11. ASSUME NEW e \in Exposers, consume_logged(e) PROVE Goal
    BY <1>11, LoggedStep DEF Verbs
  <1>12. ASSUME NEW e \in Exposers, expose(e) \/ stand_up(e) \/ open(e) \/ track(e) PROVE Goal
    BY <1>12, BrokerSteps
  <1>13. CASE teardown
    BY <1>13 DEF teardown
  <1>14. CASE restart
    BY <1>14 DEF restart
  <1> QED
    BY <1>1, <1>2, <1>3, <1>4, <1>5, <1>6, <1>7, <1>8, <1>9, <1>10, <1>11, <1>12, <1>13,
       <1>14, Zenon DEF Next, list, resolve_begin

LEMMA LapsesKept ==
    ASSUME TypeOK, InHand, Lapses, Next
    PROVE  Lapses'
  <1>1. \A id \in Ids : decisions[id] \in Seq(Outcomes)
    BY TypeParts DEF TypeLog
  <1>2. DOMAIN rows \subseteq Ids
    BY RowIds
  <1>3. (\A id \in Ids : Once(decisions[id]))'
        /\ (\A id \in DOMAIN rows : rows[id].status = "pending" => ~ Lapsed(decisions[id]))'
    <2>1. ASSUME NEW id \in Ids
          PROVE  /\ Once(decisions'[id])
                 /\ id \in DOMAIN rows /\ rows'[id].status = "pending" => ~ Lapsed(decisions'[id])
      <3>1. /\ decisions[id] \in Seq(Outcomes) /\ Once(decisions[id])
            /\ id \in DOMAIN rows /\ rows[id].status = "pending" => ~ Lapsed(decisions[id])
            /\ id \in DOMAIN rows /\ rows'[id].status = "pending" => rows[id].status = "pending"
        BY <1>1, LogStep DEF Lapses
      <3>2. CASE decisions'[id] = decisions[id]
        BY <3>1, <3>2
      <3>3. ASSUME NEW o \in Verbs, decisions'[id] = Append(decisions[id], o)
            PROVE  /\ Once(decisions'[id])
                   /\ id \in DOMAIN rows /\ rows'[id].status = "pending"
                          => ~ Lapsed(decisions'[id])
        <4>1. o \in Outcomes /\ o # "expire"
          BY DEF Outcomes, Verbs
        <4> QED
          BY <3>1, <3>3, <4>1, AppendOutcome
      <3>4. CASE /\ id \in DOMAIN rows
                 /\ rows[id].status = "pending" /\ rows'[id].status # "pending"
                 /\ decisions'[id] = Append(decisions[id], "expire")
        <4>1. "expire" \in Outcomes
          BY DEF Outcomes
        <4> QED
          BY <3>1, <3>4, <4>1, AppendOutcome
      <3> QED
        BY <3>2, <3>3, <3>4, LogStep
    <2>2. \A id \in DOMAIN rows : rows'[id].status = "pending" => ~ Lapsed(decisions'[id])
      BY <1>2, <2>1
    <2>3. \A id \in DOMAIN rows' \ DOMAIN rows : ~ Lapsed(decisions'[id])
      BY LogStep, EmptyLog DEF InHand
    <2> QED
      BY <2>1, <2>2, <2>3 DEF Once, Lapsed
  <1>4. (\A r \in Resolvers : res[r].late /\ res[r].pc = "get" =>
           rows[res[r].id].status # "pending")' /\ LateNeverHonoured'
    <2> DEFINE Late == /\ \A r \in Resolvers : res'[r].late /\ res'[r].pc = "get" =>
                             rows'[res'[r].id].status # "pending"
                       /\ \A r \in Resolvers : res'[r].late => res'[r].pc \in {"idle", "get"}
    <2> SUFFICES Late
      BY DEF LateNeverHonoured
    <2> USE DEF Lapses, LateNeverHonoured, InHand, Working
    <2>1. CASE UNCHANGED res
      BY <2>1, LogStep
    <2>2. ASSUME NEW r \in Resolvers, resolve_begin(r) PROVE Late
      <3>1. sweep_expired
        BY <2>2 DEF resolve_begin
      <3> QED
        BY <2>2, <3>1, BeginStep, SweepStep, LogStep DEF OnlyRes
    <2>3. ASSUME NEW r \in Resolvers, resolve_get(r) PROVE Late
      <3>1. res[r].pc = "get" /\ res[r].id \in DOMAIN rows /\ UNCHANGED rows
        BY <2>3 DEF resolve_get
      <3>2. OnlyRes(r) /\ (res'[r].late => res'[r].pc = "idle")
        BY <2>3, <3>1, GetStep
      <3> QED
        BY <3>1, <3>2 DEF OnlyRes
    <2>4. ASSUME NEW r \in Resolvers, resolve_apply(r) PROVE Late
      BY <2>4, ApplyStep, LogStep DEF OnlyRes
    <2>5. ASSUME NEW r \in Resolvers, resolve_update(r) PROVE Late
      BY <2>5, UpdateStep, LogStep DEF OnlyRes
    <2>6. ASSUME NEW r \in Resolvers, resolve_record(r) PROVE Late
      BY <2>6, RecordStep, LogStep DEF OnlyRes
    <2>7. CASE restart
      BY <2>7 DEF restart, IdleRes
    <2>8. \/ UNCHANGED res \/ restart
          \/ \E r \in Resolvers : \/ resolve_begin(r) \/ resolve_get(r) \/ resolve_apply(r)
                                  \/ resolve_update(r) \/ resolve_record(r)
      BY DEF Next, raise_approval, upsert_select, lapse, list, expose, find_approval, stand_up,
             consume_grant, consume_logged, open, track, teardown
    <2> QED
      BY <2>1, <2>2, <2>3, <2>4, <2>5, <2>6, <2>7, <2>8
  <1> QED
    BY <1>3, <1>4 DEF Lapses

LEMMA LapsesFinal == TypeOK /\ Lapses => LapseIsFinal
  BY RowIds DEF Lapses, LapseIsFinal, ExpiredOnce, Once

-----------------------------------------------------------------------------
(* Grants.                                                                 *)

LEMMA SpendingFinite ==
    ASSUME NEW id
    PROVE  IsFiniteSet(Spending(id)) /\ Cardinality(Spending(id)) \in Nat
  <1>1. Spending(id) \subseteq Exposers /\ IsFiniteSet(Exposers)
    BY ApprovalsAssumption DEF Spending
  <1> QED
    BY <1>1, FS_Subset, FS_CardinalityType

LEMMA CountsAt ==
    ASSUME TypeOK, NEW id \in Ids
    PROVE  opened[id] \in Nat /\ approvals[id] \in Nat
  BY TypeParts DEF TypeObs

\* A row nobody spends, opens or approves stays backed.
LEMMA StaysBacked ==
    ASSUME TypeOK, NEW id \in Ids, BackedAt(id),
           opened'[id] = opened[id], approvals'[id] = approvals[id],
           Spending(id)' \subseteq Spending(id), Unspent(id)' => Unspent(id)
    PROVE  BackedAt(id)'
  <1>1. /\ Cardinality(Spending(id)') <= Cardinality(Spending(id))
        /\ Cardinality(Spending(id)) \in Nat /\ Cardinality(Spending(id)') \in Nat
    BY SpendingFinite, FS_Subset, FS_CardinalityType
  <1>2. opened[id] \in Nat /\ approvals[id] \in Nat
    BY CountsAt
  <1> QED
    BY <1>1, <1>2 DEF BackedAt

\* The stand-ups as they were, and no row newly approved.
LEMMA SameBroker ==
    ASSUME TypeOK, Backed, UNCHANGED <<exp, opened, approvals>>,
           \A id \in DOMAIN rows' : rows'[id].status = "approved" =>
               id \in DOMAIN rows /\ rows[id].status = "approved"
    PROVE  Backed'
  <1>1. ASSUME NEW id \in Ids PROVE BackedAt(id)'
    <2>1. Spending(id)' = Spending(id) /\ (Unspent(id)' => Unspent(id)) /\ BackedAt(id)
      BY <1>1 DEF Spending, Unspent, Backed
    <2> QED
      BY <1>1, <2>1, StaysBacked
  <1> QED
    BY <1>1 DEF Backed

\* A stand-up moves without spending and without opening a tunnel.
LEMMA OneMoves ==
    ASSUME TypeOK, Backed, UNCHANGED <<opened, approvals>>, NEW e \in Exposers, OnlyExp(e),
           \A id \in DOMAIN rows' : rows'[id].status = "approved" =>
               id \in DOMAIN rows /\ rows[id].status = "approved",
           exp'[e].pc \in {"log", "open"} =>
               exp[e].pc \in {"log", "open"} /\ exp'[e].id = exp[e].id,
           exp'[e].pc = "spend" =>
               exp'[e].id \in DOMAIN rows /\ rows[exp'[e].id].status = "approved"
    PROVE  Backed'
  <1>1. ASSUME NEW id \in Ids PROVE BackedAt(id)'
    <2>1. Spending(id)' \subseteq Spending(id) /\ (Unspent(id)' => Unspent(id)) /\ BackedAt(id)
      BY <1>1 DEF Spending, Unspent, Backed, OnlyExp
    <2> QED
      BY <1>1, <2>1, StaysBacked
  <1> QED
    BY <1>1 DEF Backed

\* update_status to approved pays for one tunnel; any other decision for none.
LEMMA UpdateBacked ==
    ASSUME TypeOK, InHand, Backed, NEW r \in Resolvers, resolve_update(r)
    PROVE  Backed'
  <1>1. ASSUME NEW id \in Ids PROVE BackedAt(id)'
    <2>0. UNCHANGED <<exp, opened>>
      BY UpdateStep
    <2>1. /\ opened[id] \in Nat /\ approvals[id] \in Nat /\ BackedAt(id)
          /\ opened'[id] = opened[id] /\ Spending(id)' = Spending(id)
          /\ Cardinality(Spending(id)) \in Nat
      BY <1>1, <2>0, CountsAt, SpendingFinite DEF Backed, Spending
    <2>2. CASE id # res[r].id \/ Decision[res[r].verb] # "approved" \/ UNCHANGED <<rows, approvals>>
      <3>1. approvals'[id] = approvals[id]
        BY <2>1, <2>2, UpdateStep
      <3>2. UNCHANGED exp /\ DOMAIN rows' = DOMAIN rows
            /\ (id \in DOMAIN rows /\ rows'[id].status = "approved" => rows[id].status = "approved")
        BY <2>2, UpdateStep
      <3>3. Unspent(id)' => Unspent(id)
        BY <3>2 DEF Unspent
      <3> QED
        BY <1>1, <2>1, <3>1, <3>3, StaysBacked
    <2>3. CASE approvals'[id] = approvals[id] + 1
      BY <2>1, <2>3 DEF BackedAt
    <2> QED
      BY <2>2, <2>3, UpdateStep
  <1> QED
    BY <1>1 DEF Backed

\* consume_grant spends the approval it found: the lock lets no second stand-up
\* find it too.
LEMMA GrantBackedStep ==
    ASSUME TypeOK, InHand, Backed, NEW e \in Exposers, consume_grant(e)
    PROVE  Backed'
  <1>1. CASE UNCHANGED rows /\ exp'[e].pc = "idle"
    BY <1>1, GrantStep, OneMoves
  <1>2. CASE /\ exp'[e].pc = "log" /\ exp'[e].id = exp[e].id
             /\ rows'[exp[e].id].status = "revoked"
    <2>1. ASSUME NEW id \in Ids, id # exp[e].id PROVE BackedAt(id)'
      <3>1. /\ opened'[id] = opened[id] /\ approvals'[id] = approvals[id] /\ BackedAt(id)
            /\ Spending(id)' \subseteq Spending(id) /\ (Unspent(id)' => Unspent(id))
        BY <1>2, <2>1, GrantStep DEF Backed, Spending, Unspent, OnlyExp
      <3> QED
        BY <2>1, <3>1, StaysBacked
    <2>2. ASSUME NEW id \in Ids, id = exp[e].id PROVE BackedAt(id)'
      <3>1. id \in Ids /\ BackedAt(id) /\ opened'[id] = opened[id] /\ approvals'[id] = approvals[id]
        BY <2>2, GrantStep, RowIds DEF Backed
      <3>2. opened[id] \in Nat /\ approvals[id] \in Nat
        BY <2>2, <3>1, CountsAt
      <3>3. Unspent(id)
        BY <2>2, GrantStep DEF Unspent
      <3>4. ~ Unspent(id)'
        BY <1>2, <2>2, GrantStep DEF Unspent, OnlyExp, InHand
      <3>5. Spending(id)' = Spending(id) \cup {e} /\ e \notin Spending(id)
        BY <1>2, <2>2, GrantStep DEF Spending, OnlyExp
      <3>6. Cardinality(Spending(id)') = Cardinality(Spending(id)) + 1
        BY <2>2, <3>5, SpendingFinite, FS_AddElement
      <3>7. Cardinality(Spending(id)) \in Nat
        BY <2>2, SpendingFinite
      <3> QED
        BY <2>2, <3>1, <3>2, <3>3, <3>4, <3>6, <3>7 DEF BackedAt
    <2> QED
      BY <2>1, <2>2 DEF Backed
  <1> QED
    BY <1>1, <1>2, GrantStep

\* A tunnel takes the place of the stand-up that opened it.
LEMMA OpenBacked ==
    ASSUME TypeOK, InHand, Backed, NEW e \in Exposers, open(e)
    PROVE  Backed'
  <1>1. CASE exp'[e].pc = "idle" /\ UNCHANGED opened
    BY <1>1, OpenStep, OneMoves
  <1>2. CASE /\ exp'[e].pc = "track" /\ exp'[e].id = exp[e].id
             /\ opened'[exp[e].id] = opened[exp[e].id] + 1
    <2>1. ASSUME NEW id \in Ids, id # exp[e].id PROVE BackedAt(id)'
      <3>1. /\ opened'[id] = opened[id] /\ approvals'[id] = approvals[id] /\ BackedAt(id)
            /\ Spending(id)' \subseteq Spending(id) /\ (Unspent(id)' => Unspent(id))
        BY <1>2, <2>1, OpenStep DEF Backed, Spending, Unspent, OnlyExp
      <3> QED
        BY <2>1, <3>1, StaysBacked
    <2>2. ASSUME NEW id \in Ids, id = exp[e].id PROVE BackedAt(id)'
      <3>1. id \in Ids /\ BackedAt(id) /\ opened'[id] = opened[id] + 1 /\ approvals'[id] = approvals[id]
        BY <1>2, <2>2, OpenStep, RowIds DEF Backed
      <3>2. opened[id] \in Nat /\ approvals[id] \in Nat
        BY <2>2, <3>1, CountsAt
      <3>3. Unspent(id)' => Unspent(id)
        BY <1>2, <2>2, OpenStep DEF Unspent, OnlyExp
      <3>4. Spending(id)' = Spending(id) \ {e} /\ e \in Spending(id)
        BY <1>2, <2>2, OpenStep DEF Spending, OnlyExp
      <3>5. Cardinality(Spending(id)') = Cardinality(Spending(id)) - 1
        BY <3>4, SpendingFinite, FS_RemoveElement, ZenonT(40)
      <3>6. Cardinality(Spending(id)) \in Nat
        BY <2>2, SpendingFinite
      <3> QED
        BY <2>2, <3>1, <3>2, <3>3, <3>5, <3>6 DEF BackedAt
    <2> QED
      BY <2>1, <2>2 DEF Backed
  <1> QED
    BY <1>1, <1>2, OpenStep

LEMMA UpsertApproves ==
    ASSUME TypeOK, UpsertRow(asks + 1), asks + 1 \in 1..MaxAsks
    PROVE  \A id \in DOMAIN rows' : rows'[id].status = "approved" =>
               id \in DOMAIN rows /\ rows[id].status = "approved"
  BY UpsertStep

LEMMA BackedKept ==
    ASSUME TypeOK, InHand, Backed, Next
    PROVE  Backed'
  <1>1. CASE raise_approval
    <2>1. UpsertRow(asks + 1) /\ asks + 1 \in 1..MaxAsks
      BY <1>1, TypeParts, ApprovalsAssumption DEF raise_approval, TypeBound
    <2> QED
      BY <1>1, <2>1, UpsertApproves, SameBroker DEF raise_approval, broker, obs
  <1>2. CASE upsert_select
    <2>1. CASE UNCHANGED exp
      BY <1>2, <2>1, SelectStep, SameBroker
    <2>2. ASSUME NEW e \in Exposers, exp'[e].pc = "idle", OnlyExp(e) PROVE Backed'
      BY <1>2, <2>2, SelectStep, OneMoves
    <2> QED
      BY <1>2, <2>1, <2>2, SelectStep
  <1>3. CASE lapse
    BY <1>3, LapseStep, SameBroker DEF lapse, broker, obs
  <1>4. ASSUME sweep_expired, UNCHANGED <<exp, opened, approvals>> PROVE Backed'
    BY <1>4, SweepStep, SameBroker
  <1>5. CASE UNCHANGED <<rows, exp, opened, approvals>>
    BY <1>5, SameBroker
  <1>6. ASSUME NEW r \in Resolvers, resolve_update(r) PROVE Backed'
    BY <1>6, UpdateBacked
  <1>7. ASSUME NEW e \in Exposers, expose(e) PROVE Backed'
    <2>1. OnlyExp(e) /\ exp'[e].pc = "find" /\ UNCHANGED <<rows, opened, approvals>>
      BY <1>7, ExpGoes DEF expose, obs
    <2> QED
      BY <2>1, OneMoves
  <1>8. ASSUME NEW e \in Exposers, find_approval(e) PROVE Backed'
    <2>1. OnlyExp(e) /\ exp'[e].pc \in {"lock", "idle", "select"} /\ UNCHANGED <<opened, approvals>>
      BY <1>8, FindStep
    <2>2. \A id \in DOMAIN rows' : rows'[id].status = "approved" =>
               id \in DOMAIN rows /\ rows[id].status = "approved"
      BY <1>8, FindStep, UpsertApproves
    <2> QED
      BY <2>1, <2>2, OneMoves
  <1>9. ASSUME NEW e \in Exposers, stand_up(e) PROVE Backed'
    <2>1. /\ OnlyExp(e) /\ exp'[e].pc \in {"spend", "idle"} /\ UNCHANGED <<rows, opened, approvals>>
          /\ exp'[e].pc = "spend" =>
               exp'[e].id \in DOMAIN rows /\ rows[exp'[e].id].status = "approved"
      BY <1>9, StandUpStep
    <2> QED
      BY <2>1, OneMoves
  <1>10. ASSUME NEW e \in Exposers, consume_grant(e) PROVE Backed'
    BY <1>10, GrantBackedStep
  <1>11. ASSUME NEW e \in Exposers, consume_logged(e) PROVE Backed'
    BY <1>11, LoggedStep, OneMoves
  <1>12. ASSUME NEW e \in Exposers, open(e) PROVE Backed'
    BY <1>12, OpenBacked
  <1>13. ASSUME NEW e \in Exposers, track(e) PROVE Backed'
    BY <1>13, TrackStep, OneMoves
  <1>14. CASE restart
    <2>1. ASSUME NEW id \in Ids PROVE BackedAt(id)'
      <3>1. /\ Spending(id)' \subseteq Spending(id) /\ (Unspent(id)' => Unspent(id)) /\ BackedAt(id)
            /\ UNCHANGED <<opened, approvals>>
        BY <1>14, <2>1 DEF restart, Spending, Unspent, Backed, IdleExp, obs
      <3> QED
        BY <2>1, <3>1, StaysBacked
    <2> QED
      BY <2>1 DEF Backed
  <1>15. \/ UNCHANGED <<rows, exp, opened, approvals>>
         \/ raise_approval \/ upsert_select \/ lapse \/ restart
         \/ sweep_expired /\ UNCHANGED <<exp, opened, approvals>>
         \/ \E r \in Resolvers : resolve_update(r)
         \/ \E e \in Exposers :
               \/ expose(e) \/ find_approval(e) \/ stand_up(e) \/ consume_grant(e)
               \/ consume_logged(e) \/ open(e) \/ track(e)
    BY ZenonT(60) DEF Next, list, resolve_begin, resolve_get, resolve_apply, resolve_record,
       teardown, broker, obs
  <1> QED
    BY <1>1, <1>2, <1>3, <1>4, <1>5, <1>6, <1>7, <1>8, <1>9, <1>10, <1>11, <1>12, <1>13,
       <1>14, <1>15

\* The list of tunnels is only ever added to when it is empty.
LEMMA OneTunnelKept ==
    ASSUME TypeOK, OneTunnel, Next
    PROVE  OneTunnel'
  <1>1. active \in Seq(DOMAIN rows)
    BY DEF TypeOK
  <1>2. ASSUME NEW e \in Exposers, track(e) PROVE OneTunnel'
    <2>1. CASE Exposed
      BY <1>2, <2>1 DEF track, OneTunnel
    <2>2. CASE ~ Exposed
      <3>1. active' = Append(<<>>, exp[e].id)
        BY <1>2, <2>2 DEF track, Exposed
      <3> QED
        BY <3>1 DEF OneTunnel
    <2> QED
      BY <2>1, <2>2
  <1>3. CASE teardown
    <2>1. active # <<>> /\ active' = Tail(active)
      BY <1>3 DEF teardown, Exposed
    <2>2. Len(active') = Len(active) - 1 /\ Len(active) \in Nat
      BY <1>1, <2>1, HeadTailProperties, LenProperties
    <2> QED
      BY <2>2 DEF OneTunnel
  <1>4. CASE restart
    BY <1>4 DEF restart, OneTunnel
  <1>5. CASE UNCHANGED active
    BY <1>5 DEF OneTunnel
  <1> QED
    BY <1>2, <1>3, <1>4, <1>5, ZenonT(30) DEF Next, raise_approval, upsert_select, lapse, list,
       resolve_begin, resolve_get, resolve_apply, resolve_update, resolve_record,
       expose, find_approval, stand_up, consume_grant, consume_logged, open, broker

LEMMA InitBacked == Init => Backed /\ OneTunnel
  <1> SUFFICES ASSUME Init PROVE Backed /\ OneTunnel
    OBVIOUS
  <1>1. ASSUME NEW id \in Ids PROVE Spending(id) = {} /\ ~ Unspent(id)
    BY DEF Init, Spending, Unspent, IdleExp
  <1>2. Backed
    BY <1>1, FS_EmptySet DEF Init, Backed, BackedAt
  <1>3. OneTunnel
    BY DEF Init, OneTunnel
  <1> QED
    BY <1>2, <1>3

LEMMA BackedGrants == TypeOK /\ Backed => GrantBacked
  <1> SUFFICES ASSUME TypeOK, Backed, NEW id \in Ids PROVE opened[id] <= approvals[id]
    BY DEF GrantBacked
  <1>1. /\ BackedAt(id) /\ opened[id] \in Nat /\ approvals[id] \in Nat
        /\ Cardinality(Spending(id)) \in Nat
    BY CountsAt, SpendingFinite DEF Backed
  <1> QED
    BY <1>1 DEF BackedAt

-----------------------------------------------------------------------------
(* Honest rows.                                                            *)

LEMMA AppendFirst == ASSUME NEW x PROVE Append(<<>>, x) = <<x>>
  OBVIOUS

LEMMA AppendSecond == ASSUME NEW x, NEW y PROVE Append(<<x>>, y) = <<x, y>>
  <1> DEFINE S == {x, y}
             s == <<x>>
             u == Append(s, y)
             v == <<x, y>>
  <1>1. v \in Seq(S) /\ Len(v) = 2 /\ v[1] = x /\ v[2] = y
    OBVIOUS
  <1>2. s \in Seq(S) /\ Len(s) = 1 /\ s[1] = x /\ x \in S /\ y \in S
    OBVIOUS
  <1> HIDE DEF S, s, v
  <1>3. u \in Seq(S) /\ Len(u) = 2
    <2>1. u \in Seq(S)
      BY <1>2, AppendProperties
    <2>2. Len(u) = Len(s) + 1
      BY <1>2, AppendProperties
    <2> QED
      BY <1>2, <2>1, <2>2
  <1>4. u[1] = x
    <2>1. \A i \in 1..Len(s) : u[i] = s[i]
      BY <1>2, AppendProperties
    <2> QED
      BY <1>2, <2>1
  <1>5. u[2] = y
    <2>1. u[Len(s) + 1] = y
      BY <1>2, AppendProperties
    <2> QED
      BY <1>2, <2>1
  <1> HIDE DEF u
  <1>6. \A i \in 1..2 : u[i] = v[i]
    BY <1>1, <1>4, <1>5
  <1>7. u = v
    BY <1>1, <1>3, <1>6, SeqEqual
  <1> QED
    BY <1>7 DEF u, v, s

LEMMA BranchesKept ==
    ASSUME TypeOK, InHand, Branches, Next
    PROVE  Branches'
  <1>1. kind' = kind
    BY ZenonT(60) DEF Next, raise_approval, upsert_select, lapse, list, resolve_begin,
       resolve_get, resolve_apply, resolve_update, resolve_record, expose, find_approval,
       stand_up, consume_grant, consume_logged, open, track, teardown, restart
  <1>2. \A e \in Exposers : exp'[e].pc # "idle" => kind = "grant"
    <2> USE DEF Branches, OnlyExp
    <2>1. CASE UNCHANGED exp
      BY <2>1
    <2>2. CASE upsert_select
      BY <2>2, SelectStep
    <2>3. ASSUME NEW e \in Exposers, expose(e) PROVE kind = "grant"
      BY <2>3 DEF expose
    <2>4. ASSUME NEW e \in Exposers, exp[e].pc # "idle" PROVE kind = "grant"
      BY <2>4
    <2>5. CASE restart
      BY <2>5 DEF restart, IdleExp
    <2> QED
      BY <2>1, <2>2, <2>3, <2>4, <2>5, ZenonT(30) DEF Next, raise_approval, lapse, list,
         resolve_begin, resolve_get, resolve_apply, resolve_update, resolve_record, broker, find_approval,
         stand_up, consume_grant, consume_logged, open, track, teardown
  <1>3. \A r \in Resolvers : res'[r].pc = "apply" => kind = "effect" /\ res'[r].verb = "approve"
    <2> USE DEF Branches, OnlyRes
    <2>1. CASE UNCHANGED res
      BY <2>1
    <2>2. ASSUME NEW r \in Resolvers, resolve_begin(r)
          PROVE  \A q \in Resolvers : res'[q].pc = "apply" => kind = "effect" /\ res'[q].verb = "approve"
      BY <2>2, BeginStep
    <2>3. ASSUME NEW r \in Resolvers, resolve_get(r)
          PROVE  \A q \in Resolvers : res'[q].pc = "apply" => kind = "effect" /\ res'[q].verb = "approve"
      <3>1. res[r].id \in DOMAIN rows
        BY <2>3 DEF resolve_get, InHand, Working
      <3> QED
        BY <2>3, <3>1, GetStep
    <2>4. ASSUME NEW r \in Resolvers, resolve_apply(r) \/ resolve_update(r) \/ resolve_record(r)
          PROVE  \A q \in Resolvers : res'[q].pc = "apply" => kind = "effect" /\ res'[q].verb = "approve"
      <3>1. OnlyRes(r) /\ res'[r].pc # "apply"
        BY <2>4, ApplyStep, UpdateStep, RecordStep
      <3> QED
        BY <3>1
    <2>5. CASE restart
      BY <2>5 DEF restart, IdleRes
    <2> QED
      BY <2>1, <2>2, <2>3, <2>4, <2>5 DEF Next, raise_approval, upsert_select, lapse, list,
         expose, find_approval, stand_up, consume_grant, consume_logged, open, track, teardown
  <1> QED
    BY <1>1, <1>2, <1>3 DEF Branches

\* A row that nobody who is past its status check, or holds the lock for it,
\* works on in this step.
SameCalls(id) ==
    \A r \in Resolvers : Acting(r, id) \/ Acting(r, id)' => res'[r] = res[r]
SameStandUps(id) ==
    \A e \in Exposers : Minding(e, id) \/ Minding(e, id)' => exp'[e] = exp[e]
SameRow(id) ==
    /\ UNCHANGED kind /\ rows'[id].status = rows[id].status /\ rows'[id].payload = rows[id].payload
    /\ decisions'[id] = decisions[id] /\ effects'[id] = effects[id]

LEMMA CallsSame ==
    ASSUME NEW id, SameCalls(id)
    PROVE  /\ \A r \in Resolvers : Acting(r, id)' <=> Acting(r, id)
           /\ Recording(id)' <=> Recording(id)
           /\ \A r \in Resolvers : Acting(r, id) => res'[r] = res[r]
           /\ \A r \in Resolvers :
                 /\ At(r, id, "apply")' <=> At(r, id, "apply")
                 /\ At(r, id, "update")' <=> At(r, id, "update")
                 /\ At(r, id, "record")' <=> At(r, id, "record")
  BY DEF SameCalls, Acting, At, Recording

LEMMA StandUpsSame ==
    ASSUME NEW id, SameStandUps(id)
    PROVE  /\ Logging(id)' <=> Logging(id)
           /\ \A e \in Exposers : exp'[e].id = id /\ exp'[e].pc = "spend"
                                      => exp[e].id = id /\ exp[e].pc = "spend"
  BY DEF SameStandUps, Minding, Logging

LEMMA BooksSame ==
    ASSUME NEW id, Books(id), SameCalls(id), SameStandUps(id),
           decisions'[id] = decisions[id], rows'[id].status = rows[id].status
    PROVE  Books(id)'
  <1>1. /\ Recording(id)' <=> Recording(id)
        /\ Logging(id)' <=> Logging(id)
        /\ \A r \in Resolvers : At(r, id, "record")' => At(r, id, "record") /\ res'[r] = res[r]
    BY CallsSame, StandUpsSame DEF At, Acting
  <1>2. ASSUME NEW verb, SettledBy(id, verb) PROVE SettledBy(id, verb)'
    BY <1>1, <1>2 DEF SettledBy
  <1>3. SpentAfter(id) => SpentAfter(id)'
    BY <1>1 DEF SpentAfter
  <1> QED
    BY <1>1, <1>2, <1>3 DEF Books

LEMMA StaysHonest ==
    ASSUME NEW id, HonestAt(id), SameCalls(id), SameStandUps(id), SameRow(id)
    PROVE  HonestAt(id)'
  <1>1. Books(id)'
    BY BooksSame DEF HonestAt, SameRow
  <1>2. Applied(id)'
    <2>1. InPlace(id)' <=> InPlace(id)
      BY CallsSame DEF InPlace, SameRow, At, Acting
    <2> QED
      BY <2>1 DEF HonestAt, SameRow, Applied
  <1> QED
    BY <1>1, <1>2, CallsSame, StandUpsSame DEF HonestAt, SameRow, At, Acting

\* The steps of a call about a row, one by one.
LEMMA OtherRows ==
    ASSUME TypeOK, NEW r \in Resolvers, OnlyRes(r), NEW id,
           Acting(r, id) => FALSE, Acting(r, id)' => FALSE
    PROVE  SameCalls(id)
  BY DEF SameCalls, OnlyRes

LEMMA OtherStandUps ==
    ASSUME TypeOK, NEW e \in Exposers, OnlyExp(e), NEW id,
           Minding(e, id) => FALSE, Minding(e, id)' => FALSE
    PROVE  SameStandUps(id)
  BY DEF SameStandUps, OnlyExp

LEMMA GetHonest ==
    ASSUME TypeOK, InHand, Honest, NEW r \in Resolvers, resolve_get(r),
           NEW id \in DOMAIN rows \ disturbed'
    PROVE  HonestAt(id)'
  <1>1. /\ res[r].pc = "get" /\ res[r].id \in DOMAIN rows
        /\ UNCHANGED <<kind, rows, decisions, effects, exp>>
    BY DEF resolve_get, InHand, Working, obs, broker
  <1>2. HonestAt(id) /\ OnlyRes(r)
    BY <1>1, GetStep DEF Honest
  <1>3. SameStandUps(id)
    BY <1>1 DEF SameStandUps
  <1>4. CASE ~ Acting(r, id)'
    <2>1. SameCalls(id)
      BY <1>1, <1>2, <1>4, OtherRows DEF Acting
    <2> QED
      BY <1>1, <1>2, <1>3, <2>1, StaysHonest DEF SameRow
  <1>5. CASE Acting(r, id)'
    <2>1. /\ id = res[r].id /\ rows[id].status = "pending" /\ res'[r].payload = rows[id].payload
          /\ res'[r].pc \in {"apply", "update"} /\ res'[r].verb = res[r].verb
          /\ res'[r].pc = "update" /\ res'[r].verb = "approve" => kind # "effect"
          /\ Deciding(id) = {}
      BY <1>1, <1>5, GetStep DEF Acting, IdleRes
    <2>2. \A q \in Resolvers : ~ Acting(q, id)
      BY <1>2, <2>1 DEF Deciding, Acting, HonestAt, Books, Recording, At
    <2>3. \A q \in Resolvers : Acting(q, id)' => q = r
      BY <1>2, <2>2 DEF OnlyRes, Acting
    <2>4. Recording(id)' = FALSE /\ Recording(id) = FALSE
      BY <2>1, <2>2, <2>3 DEF Recording, At, Acting
    <2>5. Books(id)'
      BY <1>1, <1>2, <2>1, <2>4 DEF Books, HonestAt, Logging
    <2>6. ~ InPlace(id) /\ ~ InPlace(id)'
      BY <1>1, <2>1, <2>2, <2>3 DEF InPlace, At, Acting
    <2> QED
      BY <1>1, <1>2, <2>1, <2>3, <2>5, <2>6 DEF HonestAt, Applied, At, Acting
  <1> QED
    BY <1>4, <1>5

LEMMA ApplyHonest ==
    ASSUME TypeOK, InHand, Honest, NEW r \in Resolvers, resolve_apply(r),
           NEW id \in DOMAIN rows \ disturbed'
    PROVE  HonestAt(id)'
  <1>1. HonestAt(id) /\ OnlyRes(r) /\ id \in Ids
    BY ApplyStep, RowIds DEF Honest
  <1>2. SameStandUps(id)
    BY ApplyStep DEF SameStandUps
  <1>3. CASE id # res[r].id
    <2>1. SameCalls(id)
      BY <1>1, <1>3, ApplyStep, OtherRows DEF Acting
    <2> QED
      BY <1>1, <1>2, <1>3, <2>1, ApplyStep, StaysHonest DEF SameRow
  <1>4. CASE id = res[r].id
    <2>1. /\ At(r, id, "apply") /\ kind = "effect" /\ res[r].verb = "approve"
          /\ rows[id].status = "pending" /\ res[r].payload = rows[id].payload
      BY <1>1, <1>4, ApplyStep DEF Honest, Branches, HonestAt, At
    <2>2. \A q \in Resolvers : Acting(q, id) => q = r
      BY <1>1, <2>1 DEF HonestAt, Acting, At
    <2>3. ~ InPlace(id)
      BY <2>1, <2>2 DEF InPlace, Acting, At
    <2>4. effects[id] = <<>>
      BY <1>1, <2>3 DEF HonestAt, Applied
    <2>5. \A q \in Resolvers : Acting(q, id)' => q = r
      BY <1>1, <2>2 DEF OnlyRes, Acting
    <2>6. Recording(id)' = FALSE /\ Recording(id) = FALSE
      BY <1>4, <2>1, <2>2, <2>5, ApplyStep DEF Recording, At, Acting
    <2>7. Books(id)'
      BY <1>1, <2>1, <2>6, ApplyStep DEF Books, HonestAt, Logging
    <2>8. Applied(id)'
      <3>1. CASE res'[r].pc = "idle" /\ UNCHANGED effects
        <4>1. ~ InPlace(id)'
          BY <3>1, <2>1, <2>5, ApplyStep DEF InPlace, At, Acting
        <4> QED
          BY <3>1, <2>4, <4>1 DEF Applied
      <3>2. CASE /\ res'[r].pc = "update" /\ res'[r].id = id /\ res'[r].verb = "approve"
                 /\ effects'[id] = Append(effects[id], rows[id].payload)
        <4>1. InPlace(id)'
          BY <3>2, <2>1, ApplyStep DEF InPlace, At
        <4> QED
          BY <3>2, <2>4, <4>1, AppendFirst, ApplyStep DEF Applied
      <3> QED
        BY <1>4, <2>1, <3>1, <3>2, ApplyStep
    <2> QED
      BY <1>1, <1>4, <2>1, <2>5, <2>7, <2>8, ApplyStep DEF HonestAt, At, Acting
  <1> QED
    BY <1>3, <1>4

LEMMA UpdateHonest ==
    ASSUME TypeOK, InHand, Honest, NEW r \in Resolvers, resolve_update(r),
           NEW id \in DOMAIN rows \ disturbed'
    PROVE  HonestAt(id)'
  <1>1. HonestAt(id) /\ OnlyRes(r) /\ id \in Ids
    BY UpdateStep, RowIds DEF Honest
  <1>2. SameStandUps(id)
    BY UpdateStep DEF SameStandUps
  <1>3. CASE id # res[r].id
    <2>1. SameCalls(id)
      BY <1>1, <1>3, UpdateStep, OtherRows DEF Acting
    <2> QED
      BY <1>1, <1>2, <1>3, <2>1, UpdateStep, StaysHonest DEF SameRow
  <1>4. CASE id = res[r].id
    <2>1. /\ res'[r].pc = "record" /\ res'[r].id = id /\ res'[r].verb = res[r].verb
          /\ rows'[id].status = Decision[res[r].verb] /\ rows'[id].payload = rows[id].payload
      BY <1>4, UpdateStep
    <2>2. At(r, id, "update") /\ rows[id].status = "pending"
      BY <1>1, <1>4, UpdateStep DEF HonestAt, At
    <2>3. \A q \in Resolvers : Acting(q, id) => q = r
      BY <1>1, <2>2 DEF HonestAt, Acting, At
    <2>4. \A q \in Resolvers : Acting(q, id)' => q = r
      BY <1>1, <2>3 DEF OnlyRes, Acting
    <2>5. Recording(id)' /\ ~ Logging(id)' /\ decisions'[id] = <<>>
      BY <1>1, <2>1, <2>2, UpdateStep DEF HonestAt, Books, Recording, Logging, At
    <2>6. SettledBy(id, res[r].verb)'
      BY <2>1, <2>4, <2>5 DEF SettledBy, At, Acting
    <2>7. res[r].verb \in Verbs
      BY ResFields
    <2>8. Books(id)'
      <3>1. CASE res[r].verb = "approve"
        BY <2>1, <2>6, <3>1 DEF Books, Decision, SettledBy
      <3>2. CASE res[r].verb = "deny"
        BY <2>1, <2>6, <3>2 DEF Books, Decision, SettledBy
      <3>3. CASE res[r].verb = "revoke"
        BY <2>1, <2>6, <3>3 DEF Books, Decision, SettledBy
      <3> QED
        BY <2>7, <3>1, <3>2, <3>3 DEF Verbs
    <2>9. InPlace(id)' <=> InPlace(id)
      <3>1. InPlace(id) <=> kind = "effect" /\ res[r].verb = "approve"
        BY <2>2, <2>3 DEF InPlace, At, Acting
      <3>2. rows'[id].status = "approved" <=> res[r].verb = "approve"
        BY <2>1, <2>7 DEF Decision, Verbs
      <3>3. \A q \in Resolvers : ~ At(q, id, "update")'
        BY <2>1, <2>4 DEF At, Acting
      <3> QED
        BY <3>1, <3>2, <3>3, UpdateStep DEF InPlace
    <2>10. Applied(id)'
      BY <1>1, <2>1, <2>9, UpdateStep DEF HonestAt, Applied
    <2>11. \A e \in Exposers : ~ (exp[e].id = id /\ exp[e].pc = "spend")
      BY <1>1, <2>2 DEF HonestAt
    <2> QED
      BY <2>1, <2>4, <2>8, <2>10, <2>11, UpdateStep DEF HonestAt, At, Acting
  <1> QED
    BY <1>3, <1>4

LEMMA RecordHonest ==
    ASSUME TypeOK, InHand, Honest, NEW r \in Resolvers, resolve_record(r),
           NEW id \in DOMAIN rows \ disturbed'
    PROVE  HonestAt(id)'
  <1>1. HonestAt(id) /\ OnlyRes(r) /\ id \in Ids
    BY RecordStep, RowIds DEF Honest
  <1>2. SameStandUps(id)
    BY RecordStep DEF SameStandUps
  <1>3. CASE id # res[r].id
    <2>1. SameCalls(id)
      BY <1>1, <1>3, RecordStep, OtherRows DEF Acting
    <2> QED
      BY <1>1, <1>2, <1>3, <2>1, RecordStep, StaysHonest DEF SameRow
  <1>4. CASE id = res[r].id
    <2>1. /\ At(r, id, "record") /\ res'[r].pc = "idle"
          /\ decisions'[id] = Append(decisions[id], res[r].verb)
      BY <1>4, RecordStep DEF At
    <2>2. \A q \in Resolvers : Acting(q, id) => q = r
      BY <1>1, <2>1 DEF HonestAt, Acting, At
    <2>3. \A q \in Resolvers : ~ Acting(q, id)'
      BY <1>1, <2>1, <2>2 DEF OnlyRes, Acting
    <2>4. Recording(id) /\ ~ Recording(id)' /\ (Logging(id)' <=> Logging(id))
      BY <2>1, <2>3, RecordStep DEF Recording, Logging, At, Acting
    <2>5. ASSUME NEW verb, SettledBy(id, verb) PROVE SettledBy(id, verb)'
      <3>1. decisions'[id] = <<verb>>
        BY <2>1, <2>4, <2>5, AppendFirst DEF SettledBy
      <3> QED
        BY <2>3, <2>4, <2>5, <3>1 DEF SettledBy, At, Acting
    <2>6. SpentAfter(id) => SpentAfter(id)'
      <3> SUFFICES ASSUME SpentAfter(id) PROVE SpentAfter(id)'
        OBVIOUS
      <3>1. res[r].verb = "approve"
        BY <2>1 DEF SpentAfter
      <3>2. CASE Logging(id)
        <4>1. decisions'[id] = <<"approve">>
          BY <2>1, <2>4, <3>1, <3>2, AppendFirst DEF SpentAfter
        <4> QED
          BY <2>3, <2>4, <3>2, <4>1 DEF SpentAfter, At, Acting
      <3>3. CASE ~ Logging(id)
        <4>1. decisions'[id] = <<"revoke", "approve">>
          BY <2>1, <2>4, <3>1, <3>3, AppendSecond DEF SpentAfter
        <4> QED
          BY <2>3, <2>4, <3>3, <4>1 DEF SpentAfter, At, Acting
      <3> QED
        BY <3>2, <3>3
    <2>7. Books(id)'
      BY <1>1, <2>4, <2>5, <2>6, RecordStep DEF HonestAt, Books
    <2>8. InPlace(id)' <=> InPlace(id)
      BY <2>1, <2>2, <2>3, RecordStep DEF InPlace, At, Acting
    <2> QED
      BY <1>1, <2>3, <2>7, <2>8, RecordStep DEF HonestAt, Applied, At, Acting
  <1> QED
    BY <1>3, <1>4

\* A sweep lapses a row nobody decides on, or marks it disturbed.
LEMMA SweepHonest ==
    ASSUME TypeOK, InHand, Honest, sweep_expired, UNCHANGED <<kind, exp, effects>>,
           NEW id \in DOMAIN rows \ disturbed', SameCalls(id)
    PROVE  HonestAt(id)'
  <1>1. HonestAt(id) /\ id \in Ids
    BY RowIds DEF Honest, sweep_expired
  <1>2. SameStandUps(id)
    BY DEF SameStandUps
  <1>3. CASE id \notin Overdue
    <2>1. SameRow(id)
      BY <1>1, <1>3, SweepStep, SweepLog DEF SameRow
    <2> QED
      BY <1>1, <1>2, <2>1, StaysHonest
  <1>4. CASE id \in Overdue
    <2>1. /\ rows[id].status = "pending" /\ rows'[id].status = "expired"
          /\ decisions'[id] = Append(decisions[id], "expire")
      BY <1>1, <1>4, SweepStep, SweepLog
    <2>2. Deciding(id) = {}
      BY <1>4 DEF sweep_expired
    <2>3. ~ Recording(id) /\ ~ Logging(id) /\ decisions[id] = <<>>
      BY <1>1, <2>1 DEF HonestAt, Books
    <2>4. \A r \in Resolvers : ~ Acting(r, id)
      BY <2>2, <2>3 DEF Deciding, Acting, Recording, At
    <2>5. \A r \in Resolvers : ~ Acting(r, id)'
      BY <2>4, CallsSame
    <2>6. ~ Recording(id)' /\ ~ Logging(id)'
      BY <1>2, <2>3, CallsSame, StandUpsSame
    <2>7. decisions'[id] = <<"expire">>
      BY <2>1, <2>3, AppendFirst
    <2>8. Books(id)'
      BY <2>1, <2>5, <2>6, <2>7 DEF Books, SettledBy, At, Acting
    <2>9. ~ InPlace(id) /\ ~ InPlace(id)'
      BY <2>1, <2>4, <2>5 DEF InPlace, At, Acting
    <2>10. \A e \in Exposers : ~ (exp[e].id = id /\ exp[e].pc = "spend")
      BY <1>1, <2>1 DEF HonestAt
    <2> QED
      BY <1>1, <2>5, <2>8, <2>9, <2>10 DEF HonestAt, Applied, At, Acting
  <1> QED
    BY <1>3, <1>4

\* An upsert renews the payload of a row nobody decides on, marks the row
\* disturbed, or adds a row nobody knows of yet.
LEMMA UpsertHonest ==
    ASSUME TypeOK, InHand, Honest, asks + 1 \in 1..MaxAsks, UpsertRow(asks + 1),
           UNCHANGED <<kind, res, decisions, effects>>,
           NEW id \in DOMAIN rows' \ disturbed', SameStandUps(id)
    PROVE  HonestAt(id)'
  <1>1. SameCalls(id)
    BY DEF SameCalls
  <1>2. CASE id \in DOMAIN rows /\ rows'[id] = rows[id]
    <2>1. HonestAt(id)
      BY <1>2, UpsertStep DEF Honest
    <2> QED
      BY <1>1, <1>2, <2>1, StaysHonest DEF SameRow
  <1>3. CASE id \in DOMAIN rows /\ rows'[id] # rows[id]
    <2>1. /\ HonestAt(id) /\ Deciding(id) = {}
          /\ rows[id].status = "pending" /\ rows'[id].status = "pending"
      BY <1>3, UpsertStep DEF Honest
    <2>2. ~ Recording(id)
      BY <2>1 DEF HonestAt, Books
    <2>3. \A r \in Resolvers : ~ Acting(r, id) /\ ~ Acting(r, id)'
      BY <2>1, <2>2 DEF Deciding, Acting, Recording, At
    <2>4. Books(id)'
      BY <1>1, <2>1, BooksSame DEF HonestAt
    <2>5. ~ InPlace(id) /\ ~ InPlace(id)'
      BY <2>1, <2>3 DEF InPlace, At, Acting
    <2>6. \A e \in Exposers : ~ (exp[e].id = id /\ exp[e].pc = "spend")
      BY <2>1 DEF HonestAt
    <2> QED
      BY <2>1, <2>3, <2>4, <2>5, <2>6, StandUpsSame DEF HonestAt, Applied, At, Acting
  <1>4. CASE id \notin DOMAIN rows
    <2>1. /\ id \in Ids /\ rows'[id].status = "pending"
          /\ decisions'[id] = <<>> /\ effects'[id] = <<>>
      BY <1>4, UpsertStep DEF InHand
    <2>2. \A r \in Resolvers : ~ Acting(r, id)'
      BY <1>4 DEF InHand, Acting, Working
    <2>3. \A e \in Exposers : ~ Minding(e, id)
      BY <1>4 DEF InHand, Minding, Broking
    <2>4. \A e \in Exposers : ~ Minding(e, id)'
      BY <2>3 DEF SameStandUps, Minding
    <2>5. ~ Recording(id)' /\ ~ Logging(id)'
      BY <2>2, <2>4 DEF Recording, Logging, At, Acting, Minding
    <2>6. Books(id)'
      BY <2>1, <2>5 DEF Books
    <2>7. ~ InPlace(id)'
      BY <2>1, <2>2 DEF InPlace, At, Acting
    <2> QED
      BY <2>1, <2>2, <2>4, <2>6, <2>7 DEF HonestAt, Applied, At, Acting, Minding
  <1> QED
    BY <1>2, <1>3, <1>4

LEMMA StandUpHonest ==
    ASSUME TypeOK, InHand, Honest, NEW e \in Exposers, stand_up(e),
           NEW id \in DOMAIN rows \ disturbed'
    PROVE  HonestAt(id)'
  <1>1. HonestAt(id) /\ OnlyExp(e)
    BY StandUpStep DEF Honest
  <1>2. SameCalls(id)
    BY StandUpStep DEF SameCalls
  <1>3. Logging(id)' <=> Logging(id)
    BY <1>1, StandUpStep DEF Logging, OnlyExp
  <1>4. \A f \in Exposers : exp'[f].id = id /\ exp'[f].pc = "spend" => rows[id].status = "approved"
    BY <1>1, StandUpStep DEF OnlyExp, HonestAt
  <1>5. Recording(id)' <=> Recording(id)
    BY <1>2, CallsSame
  <1>6. Books(id)'
    BY <1>1, <1>3, <1>5, StandUpStep DEF HonestAt, Books, SettledBy, SpentAfter, At
  <1>7. Applied(id)'
    BY <1>1, StandUpStep DEF HonestAt, Applied, InPlace, At
  <1> QED
    BY <1>1, <1>4, <1>6, <1>7, StandUpStep DEF HonestAt, At, Acting

LEMMA GrantHonest ==
    ASSUME TypeOK, InHand, Honest, NEW e \in Exposers, consume_grant(e),
           NEW id \in DOMAIN rows \ disturbed'
    PROVE  HonestAt(id)'
  <1>1. HonestAt(id) /\ OnlyExp(e)
    BY GrantStep DEF Honest
  <1>2. SameCalls(id)
    BY GrantStep DEF SameCalls
  <1>3. CASE id # exp[e].id
    <2>1. SameStandUps(id)
      BY <1>1, <1>3, GrantStep, OtherStandUps DEF Minding
    <2> QED
      BY <1>1, <1>2, <1>3, <2>1, GrantStep, StaysHonest DEF SameRow
  <1>4. CASE id = exp[e].id
    <2>1. rows[id].status = "approved" /\ kind = "grant" /\ SettledBy(id, "approve")
      BY <1>1, <1>4, GrantStep DEF HonestAt, Books, Honest, Branches
    <2>2. \A f \in Exposers \ {e} : ~ Minding(f, id) /\ ~ Minding(f, id)'
      BY <1>1, GrantStep DEF Minding, InHand, OnlyExp
    <2>3. Recording(id)' <=> Recording(id)
      BY <1>2, CallsSame
    <2>4. ~ InPlace(id) /\ ~ InPlace(id)'
      BY <2>1, GrantStep DEF InPlace
    <2>5. Applied(id)'
      BY <1>1, <2>4, GrantStep DEF HonestAt, Applied
    <2>6. CASE exp'[e].pc = "idle" /\ UNCHANGED rows
      <3>1. ~ Logging(id)'
        BY <1>1, <2>1, <2>6 DEF SettledBy, Logging, OnlyExp
      <3>2. Books(id)'
        BY <2>1, <2>3, <2>6, <3>1, GrantStep DEF Books, SettledBy, At
      <3> QED
        BY <1>1, <2>1, <2>2, <2>5, <2>6, <3>2, GrantStep DEF HonestAt, At, Acting, Minding
    <2>7. CASE /\ exp'[e].pc = "log" /\ exp'[e].id = exp[e].id
               /\ rows'[id].status = "revoked" /\ rows'[id].payload = rows[id].payload
      <3>1. Logging(id)'
        BY <1>4, <2>7 DEF Logging
      <3>2. SpentAfter(id)'
        BY <2>1, <2>3, <3>1, GrantStep DEF SettledBy, SpentAfter, At
      <3>3. Books(id)'
        BY <2>7, <3>2 DEF Books
      <3>4. \A f \in Exposers : ~ (exp'[f].id = id /\ exp'[f].pc = "spend")
        BY <2>2, <2>7 DEF Minding
      <3>5. \A r \in Resolvers : ~ (At(r, id, "apply") \/ At(r, id, "update"))
        BY <1>1, <2>1 DEF HonestAt
      <3> QED
        BY <1>1, <2>5, <3>3, <3>4, <3>5, GrantStep DEF HonestAt, At, Acting
    <2> QED
      BY <1>4, <2>6, <2>7, GrantStep
  <1> QED
    BY <1>3, <1>4

LEMMA LoggedHonest ==
    ASSUME TypeOK, InHand, Honest, NEW e \in Exposers, consume_logged(e),
           NEW id \in DOMAIN rows \ disturbed'
    PROVE  HonestAt(id)'
  <1>1. HonestAt(id) /\ OnlyExp(e) /\ id \in Ids
    BY LoggedStep, RowIds DEF Honest
  <1>2. SameCalls(id)
    BY LoggedStep DEF SameCalls
  <1>3. CASE id # exp[e].id
    <2>1. SameStandUps(id)
      BY <1>1, <1>3, LoggedStep, OtherStandUps DEF Minding
    <2> QED
      BY <1>1, <1>2, <1>3, <2>1, LoggedStep, StaysHonest DEF SameRow
  <1>4. CASE id = exp[e].id
    <2>1. Logging(id) /\ decisions'[id] = Append(decisions[id], "revoke")
      BY <1>4, LoggedStep DEF Logging
    <2>2. \A f \in Exposers : ~ Minding(f, id)'
      BY <1>1, LoggedStep DEF Minding, InHand, OnlyExp
    <2>3. ~ Logging(id)'
      BY <2>2 DEF Logging, Minding
    <2>4. Recording(id)' <=> Recording(id)
      BY <1>2, CallsSame
    <2>5. SpentAfter(id) /\ rows[id].status \notin {"pending", "approved", "denied", "expired"}
      <3>1. rows[id].status \in Statuses
        BY RowIds
      <3> QED
        BY <1>1, <2>1, <3>1 DEF HonestAt, Books, SettledBy, Statuses
    <2>6. SpentAfter(id)'
      <3>1. CASE Recording(id)
        <4>1. decisions'[id] = <<"revoke">>
          BY <2>1, <2>5, <3>1, AppendFirst DEF SpentAfter
        <4> QED
          BY <2>3, <2>4, <2>5, <3>1, <4>1, LoggedStep DEF SpentAfter, At
      <3>2. CASE ~ Recording(id)
        <4>1. decisions'[id] = <<"approve", "revoke">>
          BY <2>1, <2>5, <3>2, AppendSecond DEF SpentAfter
        <4> QED
          BY <2>3, <2>4, <2>5, <3>2, <4>1, LoggedStep DEF SpentAfter, At
      <3> QED
        BY <3>1, <3>2
    <2>7. Books(id)'
      BY <2>5, <2>6, LoggedStep DEF Books
    <2>8. Applied(id)'
      BY <1>1, LoggedStep DEF HonestAt, Applied, InPlace, At
    <2> QED
      BY <1>1, <2>2, <2>7, <2>8, LoggedStep DEF HonestAt, At, Acting, Minding
  <1> QED
    BY <1>3, <1>4

\* A restart forgets the calls; the rows they were settling are disturbed.
LEMMA RestartHonest ==
    ASSUME TypeOK, InHand, Honest, restart, NEW id \in DOMAIN rows \ disturbed'
    PROVE  HonestAt(id)'
  <1>1. /\ HonestAt(id) /\ UNCHANGED <<kind, rows, decisions, effects>>
        /\ \A r \in Resolvers : ~ At(r, id, "update") /\ ~ At(r, id, "record")
        /\ \A e \in Exposers : ~ (exp[e].id = id /\ exp[e].pc = "log")
    BY DEF restart, Honest, obs, At
  <1>2. /\ \A r \in Resolvers : res'[r].pc = "idle"
        /\ \A e \in Exposers : exp'[e].pc = "idle"
    BY DEF restart, IdleRes, IdleExp
  <1>3. ~ Recording(id) /\ ~ Logging(id) /\ ~ Recording(id)' /\ ~ Logging(id)'
    BY <1>1, <1>2 DEF Recording, Logging, At
  <1>4. Books(id)'
    BY <1>1, <1>2, <1>3 DEF HonestAt, Books, SettledBy, SpentAfter, At
  <1>5. InPlace(id)' <=> InPlace(id)
    BY <1>1, <1>2 DEF InPlace, At
  <1> QED
    BY <1>1, <1>2, <1>4, <1>5 DEF HonestAt, Applied, At, Acting

LEMMA HonestKept ==
    ASSUME TypeOK, InHand, Honest, Next
    PROVE  Honest'
  <1> DEFINE Goal == \A id \in DOMAIN rows' \ disturbed' : HonestAt(id)'
  <1>1. Branches'
    BY BranchesKept DEF Honest
  <1>2. ASSUME raise_approval PROVE Goal
    <2>1. /\ UpsertRow(asks + 1) /\ asks + 1 \in 1..MaxAsks
          /\ UNCHANGED <<kind, res, exp, decisions, effects>>
      BY <1>2, TypeParts, ApprovalsAssumption DEF raise_approval, TypeBound, broker, obs
    <2>2. \A id : SameStandUps(id)
      BY <2>1 DEF SameStandUps
    <2> QED
      BY <2>1, <2>2, UpsertHonest
  <1>3. ASSUME UNCHANGED <<kind, rows, decisions, effects, res, disturbed>>,
               \A id \in DOMAIN rows : SameStandUps(id)
        PROVE  Goal
    <2>1. \A id \in DOMAIN rows : SameCalls(id)
      BY <1>3 DEF SameCalls
    <2> QED
      BY <1>3, <2>1, StaysHonest DEF SameRow, Honest
  <1>4. ASSUME upsert_select PROVE Goal
    <2>1. \A id : SameStandUps(id)
      BY <1>4, SelectStep DEF SameStandUps, Minding, OnlyExp
    <2> QED
      BY <1>4, <2>1, <1>3, SelectStep
  <1>5. ASSUME lapse PROVE Goal
    <2>1. UNCHANGED <<kind, decisions, effects, res, exp, disturbed>>
      BY <1>5 DEF lapse, broker, obs
    <2>2. \A id : SameCalls(id) /\ SameStandUps(id)
      BY <2>1 DEF SameCalls, SameStandUps
    <2> QED
      BY <1>5, <2>1, <2>2, LapseStep, StaysHonest DEF SameRow, Honest
  <1>6. ASSUME list PROVE Goal
    <2>1. sweep_expired /\ UNCHANGED <<kind, effects, res, exp>>
      BY <1>6 DEF list, broker, obs
    <2>2. \A id : SameCalls(id)
      BY <2>1 DEF SameCalls
    <2> QED
      BY <2>1, <2>2, SweepStep, SweepHonest
  <1>7. ASSUME NEW r \in Resolvers, resolve_begin(r) PROVE Goal
    <2>1. sweep_expired /\ UNCHANGED <<kind, effects, exp>> /\ res[r].pc = "idle"
      BY <1>7 DEF resolve_begin, broker, obs
    <2>2. \A id : SameCalls(id)
      BY <1>7, <2>1, BeginStep DEF SameCalls, OnlyRes, Acting
    <2> QED
      BY <2>1, <2>2, SweepStep, SweepHonest
  <1>8. ASSUME NEW r \in Resolvers, resolve_get(r) PROVE Goal
    BY <1>8, GetHonest DEF resolve_get
  <1>9. ASSUME NEW r \in Resolvers, resolve_apply(r) PROVE Goal
    BY <1>9, ApplyHonest, ApplyStep
  <1>10. ASSUME NEW r \in Resolvers, resolve_update(r) PROVE Goal
    BY <1>10, UpdateHonest, UpdateStep
  <1>11. ASSUME NEW r \in Resolvers, resolve_record(r) PROVE Goal
    BY <1>11, RecordHonest, RecordStep
  <1>12. ASSUME NEW e \in Exposers, expose(e) PROVE Goal
    <2>1. exp[e].pc = "idle" /\ exp'[e].pc = "find" /\ OnlyExp(e)
      BY <1>12, ExpGoes DEF expose
    <2>2. \A id : SameStandUps(id)
      BY <2>1 DEF SameStandUps, Minding, OnlyExp
    <2> QED
      BY <1>3, <1>12, <2>2 DEF expose, obs
  <1>13. ASSUME NEW e \in Exposers, find_approval(e) PROVE Goal
    <2>1. \A id : SameStandUps(id)
      BY <1>13, FindStep DEF SameStandUps, Minding, OnlyExp
    <2>2. CASE UNCHANGED <<rows, disturbed>>
      BY <1>3, <1>13, <2>1, <2>2, FindStep
    <2>3. CASE UpsertRow(asks + 1) /\ asks + 1 \in 1..MaxAsks
      BY <1>13, <2>1, <2>3, FindStep, UpsertHonest
    <2> QED
      BY <1>13, <2>2, <2>3, FindStep
  <1>14. ASSUME NEW e \in Exposers, stand_up(e) PROVE Goal
    BY <1>14, StandUpHonest, StandUpStep
  <1>15. ASSUME NEW e \in Exposers, consume_grant(e) PROVE Goal
    BY <1>15, GrantHonest, GrantStep
  <1>16. ASSUME NEW e \in Exposers, consume_logged(e) PROVE Goal
    BY <1>16, LoggedHonest, LoggedStep
  <1>17. ASSUME NEW e \in Exposers, open(e) PROVE Goal
    <2>1. \A id : SameStandUps(id)
      BY <1>17, OpenStep DEF SameStandUps, Minding, OnlyExp
    <2> QED
      BY <1>3, <1>17, <2>1, OpenStep
  <1>18. ASSUME NEW e \in Exposers, track(e) PROVE Goal
    <2>1. \A id : SameStandUps(id)
      BY <1>18, TrackStep DEF SameStandUps, Minding, OnlyExp
    <2> QED
      BY <1>3, <1>18, <2>1, TrackStep
  <1>19. ASSUME teardown PROVE Goal
    <2>1. UNCHANGED <<kind, rows, decisions, effects, res, exp, disturbed>>
      BY <1>19 DEF teardown, obs
    <2> QED
      BY <1>3, <2>1 DEF SameStandUps
  <1>20. ASSUME restart PROVE Goal
    BY <1>20, RestartHonest DEF restart
  <1>21. Goal
    BY <1>2, <1>4, <1>5, <1>6, <1>7, <1>8, <1>9, <1>10, <1>11, <1>12, <1>13, <1>14, <1>15,
       <1>16, <1>17, <1>18, <1>19, <1>20 DEF Next
  <1> QED
    BY <1>1, <1>21 DEF Honest

LEMMA HonestSettled == TypeOK /\ Honest => SettledHonest
  <1> SUFFICES ASSUME TypeOK, Honest, NEW id \in DOMAIN rows \ disturbed, ~ Settling(id)
               PROVE  /\ decisions[id] \in Logged[rows[id].status]
                      /\ effects[id] = IF kind = "effect" /\ rows[id].status = "approved"
                                       THEN <<rows[id].payload>> ELSE <<>>
    BY DEF SettledHonest
  <1>1. HonestAt(id) /\ rows[id].status \in Statuses
    BY RowIds DEF Honest
  <1>2. ~ Recording(id) /\ ~ Logging(id) /\ \A r \in Resolvers : ~ At(r, id, "update")
    BY DEF Settling, Recording, Logging, At
  <1>3. decisions[id] \in Logged[rows[id].status]
    <2>1. Books(id)
      BY <1>1 DEF HonestAt
    <2>2. CASE rows[id].status = "pending"
      BY <2>1, <2>2 DEF Books, Logged
    <2>3. CASE rows[id].status = "approved"
      <3>1. decisions[id] = <<"approve">>
        BY <1>2, <2>1, <2>3 DEF Books, SettledBy
      <3>2. Logged["approved"] = {<<"approve">>}
        BY DEF Logged
      <3> QED
        BY <2>3, <3>1, <3>2
    <2>4. CASE rows[id].status = "denied"
      <3>1. decisions[id] = <<"deny">>
        BY <1>2, <2>1, <2>4 DEF Books, SettledBy
      <3>2. Logged["denied"] = {<<"deny">>}
        BY DEF Logged
      <3> QED
        BY <2>4, <3>1, <3>2
    <2>5. CASE rows[id].status = "expired"
      <3>1. decisions[id] = <<"expire">>
        BY <1>2, <2>1, <2>5 DEF Books, SettledBy
      <3>2. Logged["expired"] = {<<"expire">>}
        BY DEF Logged
      <3> QED
        BY <2>5, <3>1, <3>2
    <2>6. CASE rows[id].status = "revoked"
      <3>1. decisions[id] \in {<<"revoke">>, <<"approve", "revoke">>, <<"revoke", "approve">>}
        BY <1>2, <2>1, <2>6, Zenon DEF Books, SettledBy, SpentAfter
      <3>2. Logged["revoked"] = {<<"revoke">>, <<"approve", "revoke">>, <<"revoke", "approve">>}
        BY DEF Logged
      <3> QED
        BY <2>6, <3>1, <3>2
    <2> QED
      BY <1>1, <2>2, <2>3, <2>4, <2>5, <2>6 DEF Statuses
  <1>4. InPlace(id) <=> kind = "effect" /\ rows[id].status = "approved"
    BY <1>2 DEF InPlace
  <1> QED
    BY <1>1, <1>3, <1>4 DEF HonestAt, Applied

-----------------------------------------------------------------------------
(* The theorems.                                                           *)

IInv == TypeOK /\ InHand /\ Lapses /\ Backed /\ OneTunnel /\ Honest

LEMMA InitIInv == Init => IInv
  <1> SUFFICES ASSUME Init PROVE IInv
    OBVIOUS
  <1>1. Lapses
    BY EmptyLog DEF Init, Lapses, LateNeverHonoured, IdleRes
  <1>2. Honest
    BY DEF Init, Honest, Branches, IdleRes, IdleExp
  <1> QED
    BY <1>1, <1>2, InitTypes, InitBacked DEF IInv

LEMMA StutterIInv == IInv /\ UNCHANGED vars => IInv'
  <1> SUFFICES ASSUME IInv, UNCHANGED vars PROVE IInv'
    OBVIOUS
  <1>1. TypeOK'
    BY DEF IInv, vars, TypeOK
  <1>2. InHand'
    BY DEF IInv, vars, InHand
  <1>3. Lapses'
    BY DEF IInv, vars, Lapses, LateNeverHonoured
  <1>4. Backed' /\ OneTunnel'
    BY DEF IInv, vars, Backed, BackedAt, Spending, Unspent, OneTunnel
  <1>5. Honest'
    <2>1. \A id : SameCalls(id) /\ SameStandUps(id) /\ SameRow(id)
      BY DEF vars, SameCalls, SameStandUps, SameRow
    <2>2. \A id \in DOMAIN rows \ disturbed : HonestAt(id)'
      BY <2>1, StaysHonest DEF IInv, Honest
    <2> QED
      BY <2>2 DEF IInv, vars, Honest, Branches
  <1> QED
    BY <1>1, <1>2, <1>3, <1>4, <1>5 DEF IInv

\* Every reachable state satisfies the inductive invariant.
THEOREM ApprovalsInvariant == Spec => []IInv
  <1>1. IInv /\ [Next]_vars => IInv'
    BY TypesKept, InHandKept, LapsesKept, BackedKept, OneTunnelKept, HonestKept, StutterIInv
       DEF IInv
  <1> HIDE DEF IInv
  <1> QED
    BY <1>1, InitIInv, PTL DEF Spec

\* No interleaving of raisers, operators, sweeps, stand-ups and restarts leaves
\* a table with two pending rows of one identity, a card without a row, or a
\* local out of its range.
THEOREM ApprovalsTypeCorrect == Spec => []TypeOK
  <1>1. IInv => TypeOK
    BY DEF IInv
  <1> HIDE DEF IInv
  <1> QED
    BY <1>1, ApprovalsInvariant, PTL

\* A request that lapsed before a call about it began is never honoured, and its
\* lapse is logged once, whoever sweeps.
THEOREM LapsesAreFinal == Spec => []LapseIsFinal
  <1>1. IInv => LapseIsFinal
    BY LapsesFinal DEF IInv
  <1> HIDE DEF IInv
  <1> QED
    BY <1>1, ApprovalsInvariant, PTL

\* Every tunnel the broker opened spent an approval of its own, and it tracks
\* one tunnel at a time.
THEOREM GrantsSpentOnce == Spec => []GrantSpentOnce
  <1>1. IInv => GrantSpentOnce
    BY BackedGrants DEF IInv, GrantSpentOnce
  <1> HIDE DEF IInv
  <1> QED
    BY <1>1, ApprovalsInvariant, PTL

\* A row nobody is settling and no two actors worked on at once tells the truth:
\* its decision log names its status, and its payload was applied once exactly
\* when it was approved.
THEOREM RowsHonest == Spec => []SettledHonest
  <1>1. IInv => SettledHonest
    BY HonestSettled DEF IInv
  <1> HIDE DEF IInv
  <1> QED
    BY <1>1, ApprovalsInvariant, PTL

=============================================================================
