--------------------------- MODULE DeliveryProofs ---------------------------
(***************************************************************************)
(* Proofs about Delivery, for any number of loops, rows, parts, attempts,  *)
(* crashes and faults.                                                     *)
(***************************************************************************)
EXTENDS Delivery, FiniteSetTheorems, TLAPS

USE DEF RowIds, NoRow

-----------------------------------------------------------------------------
(* Types of the building blocks                                             *)

LEMMA BlankTypes ==
    /\ BlankRow \in RowRec /\ NoRetry \in RetryRec /\ NoClaim \in ClaimRec
  <1>1. BlankRow \in RowRec
    BY ConstantsAssumption DEF RowRec, BlankRow, Kinds
  <1>2. NoRetry \in RetryRec
    BY ConstantsAssumption DEF RetryRec, NoRetry
  <1>3. NoClaim \in ClaimRec
    BY DEF ClaimRec, NoClaim
  <1> QED
    BY <1>1, <1>2, <1>3

\* Groups of variables a step leaves alone keep their types.
LEMMA Unchanged ==
    ASSUME TypeOK
    PROVE  /\ UNCHANGED outbound => TypeOutbound'
           /\ UNCHANGED records => TypeRecords'
           /\ UNCHANGED central => TypeCentral'
           /\ UNCHANGED retries => TypeRetries'
           /\ UNCHANGED inflight => TypeInflight'
           /\ UNCHANGED pc => TypePc'
           /\ UNCHANGED scope => TypeScope'
           /\ UNCHANGED locals => TypeLocals'
           /\ UNCHANGED <<primed, backlog>> => TypeHost'
           /\ UNCHANGED world => TypeWorld'
           /\ UNCHANGED seen => TypeSeen'
           /\ UNCHANGED trouble => TypeTrouble'
  BY DEF TypeOK, TypeOutbound, TypeRecords, TypeCentral, TypeRetries, TypeInflight, TypePc,
     TypeScope, TypeLocals, TypeHost, TypeWorld, TypeSeen, TypeTrouble,
     outbound, records, central, scope, locals, world, seen, trouble

LEMMA StepType ==
    ASSUME TypeOK, NEW p \in Passes, NEW from, NEW to \in Steps, Step(p, from, to)
    PROVE  TypePc'
  BY DEF TypeOK, TypePc, Step

LEMMA ClearType ==
    ASSUME TypeOK, NEW p \in Passes, Clear(p)
    PROVE  TypeLocals'
  BY ConstantsAssumption DEF TypeOK, TypeLocals, Clear, Outcomes

LEMMA NextRowType ==
    ASSUME TypeOK, NEW p \in Passes, NEW from, NextRow(p, from)
    PROVE  TypePc' /\ TypeScope' /\ TypeLocals'
  BY StepType, ClearType, Unchanged DEF NextRow, Steps

LEMMA EndPassType ==
    ASSUME TypeOK, NEW p \in Passes, EndPass(p)
    PROVE  TypePc' /\ TypeScope' /\ TypeLocals'
  <1>1. TypeLocals'
    BY ClearType DEF EndPass
  <1>2. TypePc'
    BY DEF TypeOK, TypePc, EndPass, Steps
  <1>3. TypeScope'
    BY DEF TypeOK, TypeScope, EndPass
  <1> QED
    BY <1>1, <1>2, <1>3

LEMMA ReturnType ==
    ASSUME TypeOK, NEW p \in Passes, NEW from, NEW o \in Outcomes, Return(p, from, o)
    PROVE  TypePc' /\ TypeScope' /\ TypeLocals'
  <1>1. TypePc'
    BY StepType DEF Return, Steps
  <1>2. TypeScope'
    BY Unchanged DEF Return
  <1>3. TypeLocals'
    BY DEF TypeOK, TypeLocals, Return
  <1> QED
    BY <1>1, <1>2, <1>3

LEMMA RecordType ==
    ASSUME TypeOK, NEW r \in RowIds, NEW s \in {"ok", "failed"},
           NEW w \in Outcomes \cup {"sent", "exhausted"}, insert_delivered(r, s, w)
    PROVE  TypeRecords'
  BY DEF TypeOK, TypeRecords, insert_delivered

LEMMA InsertType ==
    ASSUME TypeOK, NEW rec \in RowRec, insert_message_out(rec)
    PROVE  TypeOutbound'
  BY ConstantsAssumption DEF TypeOK, TypeOutbound, insert_message_out

LEMMA RemoveRetryType ==
    ASSUME TypeOK, NEW r \in RowIds, retries' = [retries EXCEPT ![r] = NoRetry]
    PROVE  TypeRetries'
  BY BlankTypes DEF TypeOK, TypeRetries

LEMMA RemoveClaimType ==
    ASSUME TypeOK, NEW r \in RowIds, inflight' = [inflight EXCEPT ![r] = NoClaim]
    PROVE  TypeInflight'
  BY BlankTypes DEF TypeOK, TypeInflight

LEMMA EntryType ==
    ASSUME TypeOK, NEW r \in RowIds
    PROVE  Entry(r) \in RetryRec
  BY ConstantsAssumption DEF TypeOK, TypeRetries, Entry, RetryRec, Running

LEMMA DbErrorType == ASSUME TypeOK, DbError PROVE TypeTrouble'
  BY ConstantsAssumption DEF TypeOK, TypeTrouble, DbError

\* The row in hand is a row.
LEMMA CurIsRow ==
    ASSUME TypeOK, InHand, NEW p \in Passes, pc[p] \notin {"idle", "scan"}
    PROVE  cur[p] \in RowIds /\ cur[p] \in 1..nrows
  BY ConstantsAssumption DEF TypeOK, TypeOutbound, InHand

-----------------------------------------------------------------------------
(* TypeOK is inductive (with InHand, which says the row in hand exists)     *)

LEMMA InitType == Init => TypeOK
  <1> SUFFICES ASSUME Init PROVE TypeOK
    OBVIOUS
  <1>1. TypeOutbound /\ TypeRecords /\ TypeCentral
    BY BlankTypes, ConstantsAssumption DEF Init, TypeOutbound, TypeRecords, TypeCentral,
       NoLetter, Targets
  <1>2. TypeRetries /\ TypeInflight
    BY BlankTypes DEF Init, TypeRetries, TypeInflight
  <1>3. TypePc /\ TypeScope
    BY DEF Init, TypePc, TypeScope, Steps
  <1>4. TypeLocals
    BY ConstantsAssumption DEF Init, TypeLocals, Outcomes
  <1>5. TypeHost /\ TypeWorld
    BY DEF Init, TypeHost, TypeWorld
  <1>6. TypeSeen /\ TypeTrouble
    BY ConstantsAssumption DEF Init, TypeSeen, TypeTrouble
  <1> QED
    BY <1>1, <1>2, <1>3, <1>4, <1>5, <1>6 DEF TypeOK

LEMMA TypeBegin ==
    ASSUME TypeOK, NEW p \in Passes, BeginPass(p)
    PROVE  TypeOK'
  <1>1. ASSUME NEW r \in RowIds PROVE Rebase(prime_retry_cache(r), p) \in RetryRec
    <2>1. prime_retry_cache(r) \in RetryRec
      BY ConstantsAssumption
      DEF TypeOK, TypeOutbound, TypeRetries, prime_retry_cache, RetryRec
    <2>2. ASSUME NEW d \in RetryRec PROVE Rebase(d, p) \in RetryRec
      BY DEF Rebase, RetryRec
    <2> QED
      BY <2>1, <2>2
  <1>2. ASSUME NEW d \in ClaimRec PROVE Rebase(d, p) \in ClaimRec
    BY DEF Rebase, ClaimRec
  <1>3. TypeRetries'
    BY <1>1 DEF BeginPass, TypeRetries
  <1>4. TypeInflight'
    BY <1>2 DEF BeginPass, TypeInflight, TypeOK
  <1>5. TypePc'
    BY StepType DEF BeginPass, Steps
  <1>6. TypeScope'
    <2>1. Undelivered \subseteq RowIds
      BY ConstantsAssumption DEF TypeOK, TypeOutbound, Undelivered
    <2> QED
      BY <2>1 DEF TypeOK, TypeScope, TypeWorld, BeginPass
  <1>7. TypeHost'
    BY DEF TypeOK, TypeHost, BeginPass
  <1> QED
    BY <1>3, <1>4, <1>5, <1>6, <1>7, Unchanged DEF TypeOK, BeginPass

LEMMA TypePassStep ==
    ASSUME TypeOK, InHand, NEW p \in Passes, PassStep(p)
    PROVE  TypeOK'
  <1> USE DEF TypeOK
  <1>1. CASE ScanRow(p)
    <2>1. TypePc'
      BY <1>1 DEF ScanRow, TypePc, Steps
    <2>2. TypeScope'
      BY <1>1 DEF ScanRow, TypeScope
    <2>3. TypeLocals'
      BY <1>1, ConstantsAssumption DEF ScanRow, TypeLocals, TypeScope
    <2> QED
      BY <1>1, <2>1, <2>2, <2>3, Unchanged DEF ScanRow, maps
  <1>2. CASE SkipClaimed(p)
    BY <1>2, NextRowType, Unchanged DEF SkipClaimed, maps
  <1>3. CASE ClaimRow(p)
    <2>1. TypePc'
      BY <1>3, StepType DEF ClaimRow, Steps
    <2>2. TypeInflight'
      BY <1>3 DEF ClaimRow, TypeInflight, ClaimRec, Running
    <2> QED
      BY <1>3, <2>1, <2>2, Unchanged DEF ClaimRow
  <1>4. CASE GiveUpSpent(p)
    <2>1. TypePc'
      BY <1>4, StepType DEF GiveUpSpent, Steps
    <2>2. TypeInflight'
      BY <1>4, RemoveClaimType, CurIsRow DEF GiveUpSpent, Step
    <2> QED
      BY <1>4, <2>1, <2>2, Unchanged DEF GiveUpSpent
  <1>5. CASE Proceed(p)
    <2>1. TypePc'
      BY <1>5, StepType DEF Proceed, Steps
    <2> QED
      BY <1>5, <2>1, Unchanged DEF Proceed, maps
  <1>6. CASE Unroutable(p)
    <2>1. "noroute" \in Outcomes
      BY DEF Outcomes
    <2> QED
      BY <1>6, <2>1, ReturnType, Unchanged DEF Unroutable, maps
  <1>7. CASE Adapterless(p)
    <2>1. "noadapter" \in Outcomes
      BY DEF Outcomes
    <2> QED
      BY <1>7, <2>1, ReturnType, Unchanged DEF Adapterless, maps
  <1>8. CASE Resume(p)
    <2>1. cur[p] \in RowIds
      BY <1>8, CurIsRow DEF Resume
    <2>2. TypePc'
      BY <1>8, StepType DEF Resume, Steps
    <2>3. TypeLocals'
      BY <1>8, <2>1, ConstantsAssumption DEF Resume, chunks_sent, TypeLocals, TypeRetries, RetryRec
    <2> QED
      BY <1>8, <2>2, <2>3, Unchanged DEF Resume, maps
  <1>9. CASE SendPart(p)
    <2>1. cur[p] \in RowIds /\ idx[p] + 1 \in 1..MaxParts
      <3>1. cur[p] \in RowIds
        BY <1>9, CurIsRow DEF SendPart
      <3>2. rows[cur[p]].parts \in 0..MaxParts
        BY <3>1 DEF TypeOutbound, RowRec
      <3>3. idx[p] \in 0..MaxParts /\ idx[p] < rows[cur[p]].parts
        BY <1>9 DEF SendPart, InHand, TypeLocals
      <3> QED
        BY <3>1, <3>2, <3>3, ConstantsAssumption
    <2>2. TypePc'
      BY <1>9 DEF SendPart, TypePc, Steps
    <2>3. TypeLocals'
      BY <1>9, <2>1, ConstantsAssumption DEF SendPart, TypeLocals
    <2>4. TypeSeen'
      <3>1. copies[cur[p]] \in [1..MaxParts -> Nat]
        BY <2>1 DEF TypeSeen
      <3>2. ASSUME NEW f \in [1..MaxParts -> Nat], NEW n \in 1..MaxParts
            PROVE  [f EXCEPT ![n] = @ + 1] \in [1..MaxParts -> Nat]
        OBVIOUS
      <3> DEFINE g == [copies[cur[p]] EXCEPT ![idx[p] + 1] = @ + 1]
      <3>3. g \in [1..MaxParts -> Nat]
        BY <2>1, <3>1, <3>2
      <3>4. copies' = [copies EXCEPT ![cur[p]] = g]
        BY <1>9 DEF SendPart
      <3> HIDE DEF g
      <3>5. copies' \in [RowIds -> [1..MaxParts -> Nat]]
        BY <2>1, <3>3, <3>4 DEF TypeSeen
      <3> QED
        BY <1>9, <3>5 DEF SendPart, TypeSeen
    <2>5. TypeRetries'
      BY <1>9, <2>1, EntryType DEF SendPart, note_part, TypeRetries, RetryRec
    <2> QED
      BY <1>9, <2>2, <2>3, <2>4, <2>5, Unchanged DEF SendPart
  <1>10. CASE SendFails(p)
    <2>1. cur[p] \in RowIds
      BY <1>10, CurIsRow DEF SendFails
    <2>2. PICK e \in Outcomes : Return(p, "send", e)
      BY <1>10 DEF SendFails, Outcomes
    <2>3. TypeSeen'
      BY <1>10, <2>1 DEF SendFails, TypeSeen
    <2> QED
      BY <1>10, <2>2, <2>3, ReturnType, Unchanged DEF SendFails, maps
  <1>11. CASE RecordOk(p)
    <2>1. TypePc' /\ TypeScope' /\ TypeLocals'
      BY <1>11, ReturnType DEF RecordOk, Outcomes
    <2>2. TypeRecords'
      BY <1>11, CurIsRow, RecordType DEF RecordOk, Return, Step
    <2> QED
      BY <1>11, <2>1, <2>2, Unchanged DEF RecordOk, maps
  <1>12. CASE Release(p)
    <2>1. TypePc'
      BY <1>12, StepType DEF Release, Steps
    <2>2. TypeInflight'
      BY <1>12, RemoveClaimType, CurIsRow DEF Release, Step
    <2> QED
      BY <1>12, <2>1, <2>2, Unchanged DEF Release
  <1>13. CASE SettleOk(p)
    <2>1. TypeRetries'
      BY <1>13, RemoveRetryType, CurIsRow DEF SettleOk, NextRow, Step
    <2> QED
      BY <1>13, <2>1, NextRowType, Unchanged DEF SettleOk
  <1>14. CASE bump_retry(p)
    <2>1. cur[p] \in RowIds /\ Entry(cur[p]) \in RetryRec
      BY <1>14, CurIsRow, EntryType DEF bump_retry, Step
    <2>2. TypePc'
      BY <1>14, StepType DEF bump_retry, Steps
    <2>3. TypeLocals'
      BY <1>14, <2>1 DEF bump_retry, TypeLocals, RetryRec
    <2>4. TypeRetries'
      <3>1. ASSUME NEW e \in RetryRec, NEW n \in Nat
            PROVE  /\ [on |-> TRUE, tries |-> n, sent |-> e.sent,
                       open |-> e.open, ahead |-> e.ahead] \in RetryRec
                   /\ [on |-> TRUE, tries |-> n, sent |-> e.sent,
                       open |-> TRUE, ahead |-> Running] \in RetryRec
        BY DEF RetryRec, Running
      <3>2. Entry(cur[p]).tries + 1 \in Nat
        BY <2>1 DEF RetryRec
      <3> QED
        BY <1>14, <2>1, <3>1, <3>2 DEF bump_retry, TypeRetries
    <2> QED
      BY <1>14, <2>2, <2>3, <2>4, Unchanged DEF bump_retry
  <1>15. CASE Persist(p)
    <2>1. cur[p] \in RowIds
      BY <1>15, CurIsRow DEF Persist
    <2>2. TypePc' /\ TypeScope' /\ TypeLocals'
      <3>1. CASE NextRow(p, "persist")
        BY <3>1, NextRowType
      <3>2. CASE Step(p, "persist", "exhaust") /\ UNCHANGED <<scope, locals>>
        BY <3>2, StepType, Unchanged DEF Steps
      <3> QED
        BY <1>15, <3>1, <3>2 DEF Persist
    <2>3. TypeOutbound'
      <3> DEFINE new == [tries |-> bumped[p], open |-> bumped[p] < MaxAttempts]
      <3>1. new \in [tries: Nat, open: BOOLEAN]
        BY DEF TypeLocals
      <3>2. disk' = [disk EXCEPT ![cur[p]] = new] \/ disk' = disk
        BY <1>15 DEF Persist
      <3> HIDE DEF new
      <3>3. disk' \in [RowIds -> [tries: Nat, open: BOOLEAN]]
        BY <3>1, <3>2, <2>1 DEF TypeOutbound
      <3> QED
        BY <1>15, <3>3 DEF Persist, TypeOutbound
    <2>4. TypeTrouble'
      BY <1>15, DbErrorType, Unchanged DEF Persist
    <2> QED
      BY <1>15, <2>2, <2>3, <2>4, Unchanged DEF Persist, maps
  <1>16. CASE record_exhausted_row(p)
    <2>1. cur[p] \in RowIds
      BY <1>16, CurIsRow DEF record_exhausted_row, Step
    <2>2. TypePc'
      BY <1>16, StepType DEF record_exhausted_row, Steps
    <2>3. TypeRecords'
      BY <1>16, <2>1, RecordType DEF record_exhausted_row
    <2>4. TypeRetries'
      BY <1>16, <2>1, RemoveRetryType DEF record_exhausted_row
    <2> QED
      BY <1>16, <2>2, <2>3, <2>4, Unchanged DEF record_exhausted_row
  <1>17. CASE emit_delivery_failure_error_card(p)
    <2>1. cur[p] \in RowIds
      BY <1>17, CurIsRow DEF emit_delivery_failure_error_card, NextRow, Step
    <2>2. TypeOutbound'
      <3>1. [kind |-> "ui", parts |-> 1, own |-> TRUE, from |-> NoRow] \in RowRec
        BY ConstantsAssumption DEF RowRec, Kinds
      <3> QED
        BY <1>17, <3>1, InsertType, Unchanged DEF emit_delivery_failure_error_card
    <2>3. TypeSeen'
      BY <1>17, <2>1 DEF emit_delivery_failure_error_card, TypeSeen
    <2> QED
      BY <1>17, <2>2, <2>3, NextRowType, Unchanged DEF emit_delivery_failure_error_card, maps
  <1>18. CASE SettleFailed(p)
    <2>1. cur[p] \in RowIds /\ res[p] \in Outcomes
      BY <1>18, CurIsRow DEF SettleFailed, NextRow, Step, TypeLocals
    <2>2. TypeRecords'
      BY <1>18, <2>1, RecordType DEF SettleFailed
    <2>3. TypeRetries'
      BY <1>18, <2>1, RemoveRetryType DEF SettleFailed
    <2> QED
      BY <1>18, <2>2, <2>3, NextRowType, Unchanged DEF SettleFailed
  <1>19. CASE ParkRow(p)
    <2>1. TypePc'
      BY <1>19, StepType DEF ParkRow, Steps
    <2>2. TypeLocals'
      BY <1>19, ClearType DEF ParkRow
    <2>3. TypeScope'
      BY <1>19 DEF ParkRow, TypeScope
    <2> QED
      BY <1>19, <2>1, <2>2, <2>3, Unchanged DEF ParkRow, maps
  <1>20. CASE WriteLetter(p)
    <2>1. cur[p] \in RowIds
      BY <1>20, CurIsRow DEF WriteLetter, Step
    <2>2. TypePc'
      BY <1>20, StepType DEF WriteLetter, Steps
    <2>3. TypeCentral'
      BY <1>20, <2>1 DEF WriteLetter, insert_dropped, TypeCentral, Targets
    <2> QED
      BY <1>20, <2>2, <2>3, Unchanged DEF WriteLetter, maps
  <1>21. CASE WriteTerminal(p)
    <2>1. cur[p] \in RowIds /\ res[p] \in Outcomes
      BY <1>21, CurIsRow DEF WriteTerminal, NextRow, Step, TypeLocals
    <2>2. TypeRecords'
      BY <1>21, <2>1, RecordType DEF WriteTerminal
    <2>3. TypeRetries'
      BY <1>21, <2>1, RemoveRetryType DEF WriteTerminal
    <2> QED
      BY <1>21, <2>2, <2>3, NextRowType, Unchanged DEF WriteTerminal
  <1>22. CASE FinishPass(p)
    <2>1. TypeHost'
      BY <1>22 DEF FinishPass, gauge, TypeHost, TypeScope
    <2> QED
      BY <1>22, <2>1, EndPassType, Unchanged DEF FinishPass, maps
  <1> QED
    BY <1>1, <1>2, <1>3, <1>4, <1>5, <1>6, <1>7, <1>8, <1>9, <1>10, <1>11, <1>12, <1>13,
       <1>14, <1>15, <1>16, <1>17, <1>18, <1>19, <1>20, <1>21, <1>22 DEF PassStep

LEMMA TypeFault ==
    ASSUME TypeOK, InHand, NEW p \in Passes, Fault(p)
    PROVE  TypeOK'
  <1> USE DEF TypeOK
  <1>1. CASE RecordErr(p)
    <2>1. TypePc' /\ TypeScope' /\ TypeLocals'
      BY <1>1, ReturnType DEF RecordErr, Outcomes
    <2> QED
      BY <1>1, <2>1, DbErrorType, Unchanged DEF RecordErr, maps
  <1>2. CASE AbortPass(p)
    BY <1>2, EndPassType, DbErrorType, Unchanged DEF AbortPass, maps
  <1>3. CASE Panic(p)
    <2>1. TypeTrouble'
      BY <1>3, DbErrorType DEF Panic, DbError
    <2> QED
      BY <1>3, <2>1, EndPassType, Unchanged DEF Panic, maps
  <1> QED
    BY <1>1, <1>2, <1>3 DEF Fault

LEMMA TypeClock ==
    ASSUME TypeOK, NEW r \in RowIds, Clock(r)
    PROVE  TypeOK'
  <1> USE DEF TypeOK
  <1>1. CASE AgeRow(r)
    <2>1. TypeWorld'
      BY <1>1 DEF AgeRow, TypeWorld
    <2> QED
      BY <1>1, <2>1, Unchanged DEF AgeRow, maps
  <1>2. CASE WindowEnds(r)
    <2>1. TypeRetries'
      BY <1>2 DEF WindowEnds, TypeRetries, RetryRec
    <2>2. TypeOutbound'
      BY <1>2 DEF WindowEnds, TypeOutbound
    <2> QED
      BY <1>2, <2>1, <2>2, Unchanged DEF WindowEnds
  <1>3. CASE ClaimAges(r)
    <2>1. TypeInflight'
      BY <1>3 DEF ClaimAges, TypeInflight, ClaimRec
    <2> QED
      BY <1>3, <2>1, Unchanged DEF ClaimAges
  <1> QED
    BY <1>1, <1>2, <1>3 DEF Clock

LEMMA TypeOutside ==
    ASSUME TypeOK,
           \/ \E r \in RowIds : ReplayInsert(r)
           \/ ReplayDelete \/ Emit \/ SetRouting \/ HostRestart
    PROVE  TypeOK'
  <1> USE DEF TypeOK
  <1>1. CASE \E r \in RowIds : ReplayInsert(r)
    <2>1. PICK r \in RowIds : ReplayInsert(r)
      BY <1>1
    <2>a. PICK t \in Targets :
             /\ insert_message_out([kind |-> rows[r].kind, parts |-> rows[r].parts,
                                    own |-> t = "whole", from |-> r])
             /\ replaying' = [row |-> r, target |-> t]
      BY <2>1 DEF ReplayInsert
    <2>2. [kind |-> rows[r].kind, parts |-> rows[r].parts,
           own |-> t = "whole", from |-> r] \in RowRec
      <3>1. rows[r] \in RowRec /\ r \in 0..MaxRows
        BY ConstantsAssumption DEF TypeOutbound
      <3>2. rows[r].kind \in Kinds /\ rows[r].parts \in 0..MaxParts
        BY <3>1 DEF RowRec
      <3>3. (t = "whole") \in BOOLEAN
        OBVIOUS
      <3> QED
        BY <3>1, <3>2, <3>3 DEF RowRec
    <2>3. TypeOutbound'
      BY <2>a, <2>2, InsertType
    <2>4. TypeCentral'
      BY <2>1, <2>a, ConstantsAssumption DEF ReplayInsert, TypeCentral
    <2> QED
      BY <2>1, <2>3, <2>4, Unchanged DEF ReplayInsert, maps
  <1>2. CASE ReplayDelete
    <2>a. replaying' = NoLetter
          /\ letters' = [letters EXCEPT ![replaying.row][replaying.target] = @ - 1]
      BY <1>2 DEF ReplayDelete
    <2>b. NoLetter \in [row: 0..MaxRows, target: Targets]
      BY ConstantsAssumption DEF NoLetter, NoRow, Targets
    <2>c. letters \in [RowIds -> [Targets -> Int]] /\ replaying.target \in Targets
      BY DEF TypeCentral
    <2>d. ASSUME replaying.row \in RowIds
          PROVE  [letters[replaying.row] EXCEPT ![replaying.target] = @ - 1]
                    \in [Targets -> Int]
      <3>1. letters[replaying.row] \in [Targets -> Int]
        BY <2>c, <2>d
      <3> QED
        BY <3>1, <2>c
    <2>e. letters' \in [RowIds -> [Targets -> Int]]
      BY <2>a, <2>c, <2>d
    <2>1. TypeCentral'
      BY <2>a, <2>b, <2>e DEF TypeCentral
    <2> QED
      BY <1>2, <2>1, Unchanged DEF ReplayDelete, maps
  <1>3. CASE Emit
    <2>1. PICK k \in Kinds, n \in 0..MaxParts, own \in BOOLEAN :
             insert_message_out([kind |-> k, parts |-> n, own |-> own, from |-> NoRow])
      BY <1>3 DEF Emit
    <2>2. [kind |-> k, parts |-> n, own |-> own, from |-> NoRow] \in RowRec
      BY ConstantsAssumption DEF RowRec
    <2>3. TypeOutbound'
      BY <2>1, <2>2, InsertType
    <2> QED
      BY <1>3, <2>3, Unchanged DEF Emit, maps
  <1>4. CASE SetRouting
    <2>1. TypeWorld'
      BY <1>4 DEF SetRouting, TypeWorld
    <2> QED
      BY <1>4, <2>1, Unchanged DEF SetRouting, maps
  <1>5. CASE HostRestart
    <2>1. TypeRetries' /\ TypeInflight'
      BY <1>5, BlankTypes DEF HostRestart, TypeRetries, TypeInflight
    <2>2. TypePc' /\ TypeScope'
      BY <1>5 DEF HostRestart, TypePc, TypeScope, Steps
    <2>3. TypeLocals'
      BY <1>5, ConstantsAssumption DEF HostRestart, TypeLocals, Outcomes
    <2>4. TypeHost'
      BY <1>5 DEF HostRestart, TypeHost
    <2>5. TypeWorld'
      BY <1>5 DEF HostRestart, TypeWorld
    <2>6. TypeTrouble'
      BY <1>5, ConstantsAssumption DEF HostRestart, TypeTrouble
    <2>7. TypeCentral'
      BY <1>5, ConstantsAssumption DEF HostRestart, TypeCentral, NoLetter, Targets
    <2> QED
      BY <1>5, <2>1, <2>2, <2>3, <2>4, <2>5, <2>6, <2>7, Unchanged DEF HostRestart
  <1> QED
    BY <1>1, <1>2, <1>3, <1>4, <1>5

LEMMA TypeStep ==
    ASSUME TypeOK, InHand, [Next]_vars
    PROVE  TypeOK'
  <1>1. CASE UNCHANGED vars
    BY <1>1, Unchanged DEF vars, TypeOK, outbound, records, central, scope, locals, world,
       seen, trouble
  <1>2. CASE Next
    BY <1>2, TypeBegin, TypePassStep, TypeFault, TypeClock, TypeOutside DEF Next
  <1> QED
    BY <1>1, <1>2

-----------------------------------------------------------------------------
(* InHand is inductive                                                      *)

\* A step that leaves pc, the snapshot, the row in hand, the index and the rows
\* alone, or only ends or advances a pass, keeps InHand.
LEMMA InHandBegin ==
    ASSUME TypeOK, InHand, NEW p \in Passes, BeginPass(p)
    PROVE  InHand'
  BY ConstantsAssumption DEF InHand, BeginPass, Undelivered, Step, outbound, locals, TypeOK, TypePc, TypeScope,
     TypeOutbound

LEMMA InHandNextRow ==
    ASSUME TypeOK, InHand, NEW p \in Passes, NEW from, NextRow(p, from),
           nrows' \in Nat, nrows <= nrows',
           \A r \in 1..nrows : rows'[r] = rows[r]
    PROVE  InHand'
  <1> USE DEF NextRow, Step, Clear, scope, TypeOK, TypePc, TypeLocals, TypeOutbound
  <1>1. \A q \in Passes : todo'[q] \subseteq 1..nrows'
    BY DEF InHand
  <1>2. \A q \in Passes : pc'[q] \notin {"idle", "scan"} =>
           q # p /\ pc[q] = pc'[q] /\ cur'[q] = cur[q] /\ idx'[q] = idx[q]
    OBVIOUS
  <1>3. \A q \in Passes : pc'[q] \notin {"idle", "scan"} => cur[q] \in 1..nrows
    BY <1>2 DEF InHand
  <1>4. \A q \in Passes : pc'[q] = "send" => idx[q] < rows'[cur[q]].parts
    BY <1>2, <1>3 DEF InHand
  <1> QED
    BY <1>1, <1>2, <1>3, <1>4 DEF InHand

LEMMA InHandEndPass ==
    ASSUME TypeOK, InHand, NEW p \in Passes, EndPass(p), UNCHANGED outbound
    PROVE  InHand'
  BY DEF InHand, EndPass, Clear, outbound, TypeOK, TypePc, TypeScope, TypeLocals

LEMMA InHandReturn ==
    ASSUME TypeOK, InHand, NEW p \in Passes, NEW from, NEW o, Return(p, from, o),
           from \notin {"idle", "scan"}, UNCHANGED outbound
    PROVE  InHand'
  BY DEF InHand, Return, Step, scope, outbound, TypeOK, TypePc

LEMMA InHandAdvance ==
    ASSUME TypeOK, InHand, NEW p \in Passes, NEW from, NEW to,
           Step(p, from, to), from \notin {"idle", "scan"}, to # "send",
           UNCHANGED <<scope, cur, idx, rows, nrows>>
    PROVE  InHand'
  BY DEF InHand, Step, scope, TypeOK, TypePc

LEMMA InHandStill ==
    ASSUME TypeOK, InHand, UNCHANGED <<pc, scope, locals>>,
           nrows' \in Nat, nrows <= nrows',
           \A r \in 1..nrows : rows'[r] = rows[r]
    PROVE  InHand'
  <1> USE DEF scope, locals, TypeOK, TypeOutbound
  <1>1. \A q \in Passes : todo'[q] \subseteq 1..nrows'
    BY DEF InHand
  <1>2. \A q \in Passes : pc[q] \notin {"idle", "scan"} => cur[q] \in 1..nrows
    BY DEF InHand
  <1>3. \A q \in Passes : pc[q] = "send" => idx[q] < rows'[cur[q]].parts
    BY <1>2 DEF InHand
  <1> QED
    BY <1>1, <1>2, <1>3 DEF InHand

LEMMA InsertKeeps ==
    ASSUME TypeOK, NEW rec, insert_message_out(rec)
    PROVE  /\ nrows' \in Nat /\ nrows <= nrows'
           /\ \A r \in 1..nrows : rows'[r] = rows[r]
  BY ConstantsAssumption DEF TypeOK, TypeOutbound, insert_message_out

LEMMA StillKeeps ==
    ASSUME TypeOK, UNCHANGED <<rows, nrows>>
    PROVE  /\ nrows' \in Nat /\ nrows <= nrows'
           /\ \A r \in 1..nrows : rows'[r] = rows[r]
  BY ConstantsAssumption DEF TypeOK, TypeOutbound

LEMMA InHandPassStep ==
    ASSUME TypeOK, InHand, NEW p \in Passes, PassStep(p)
    PROVE  InHand'
  <1> USE DEF outbound, locals
  <1>1. CASE ScanRow(p)
    <2>1. PICK r \in todo[p] :
             /\ todo' = [todo EXCEPT ![p] = @ \ {r}]
             /\ \/ UNCHANGED <<pc, cur>>
                \/ pc' = [pc EXCEPT ![p] = "claim"] /\ cur' = [cur EXCEPT ![p] = r]
      BY <1>1 DEF ScanRow
    <2>2. r \in 1..nrows /\ UNCHANGED <<rows, nrows, idx>>
      BY <1>1, <2>1 DEF ScanRow, InHand
    <2>3. \A q \in Passes : todo'[q] \subseteq 1..nrows'
      BY <2>1, <2>2 DEF InHand, TypeOK, TypeScope
    <2>4. CASE UNCHANGED <<pc, cur>>
      BY <2>2, <2>3, <2>4 DEF InHand
    <2>5. CASE pc' = [pc EXCEPT ![p] = "claim"] /\ cur' = [cur EXCEPT ![p] = r]
      BY <2>2, <2>3, <2>5 DEF InHand, TypeOK, TypePc, TypeLocals
    <2> QED
      BY <2>1, <2>4, <2>5
  <1>2. CASE \/ SkipClaimed(p) \/ SettleOk(p) \/ SettleFailed(p) \/ WriteTerminal(p)
    BY <1>2, InHandNextRow, StillKeeps DEF SkipClaimed, SettleOk, SettleFailed, WriteTerminal
  <1>3. CASE \/ ClaimRow(p) \/ GiveUpSpent(p) \/ Proceed(p) \/ Release(p) \/ bump_retry(p)
             \/ record_exhausted_row(p) \/ WriteLetter(p)
    BY <1>3, InHandAdvance
    DEF ClaimRow, GiveUpSpent, Proceed, Release, bump_retry, record_exhausted_row, WriteLetter
  <1>4. CASE Unroutable(p) \/ Adapterless(p) \/ SendFails(p) \/ RecordOk(p)
    BY <1>4, InHandReturn DEF Unroutable, Adapterless, SendFails, RecordOk
  <1>5. CASE Resume(p)
    <2> USE <1>5 DEF Resume, chunks_sent, Step, scope, InHand, TypeOK, TypePc, TypeLocals
    <2>1. cur[p] \in RowIds
      BY CurIsRow
    <2>2. rows[cur[p]].parts \in Nat /\ retries[cur[p]].sent \in Nat
      BY <2>1 DEF TypeOutbound, RowRec, TypeRetries, RetryRec
    <2>3. pc'[p] = "send" => idx'[p] < rows[cur[p]].parts
      BY <2>2
    <2> QED
      BY <2>3
  <1>6. CASE SendPart(p)
    <2> USE <1>6 DEF SendPart, scope, InHand, TypeOK, TypePc, TypeLocals
    <2>1. cur[p] \in RowIds
      BY CurIsRow
    <2>2. rows[cur[p]].parts \in Nat
      BY <2>1 DEF TypeOutbound, RowRec
    <2>3. pc'[p] = "send" => idx'[p] < rows[cur[p]].parts
      BY <2>2, ConstantsAssumption
    <2> QED
      BY <2>3
  <1>7. CASE Persist(p)
    <2>1. CASE NextRow(p, "persist")
      BY <1>7, <2>1, InHandNextRow, StillKeeps DEF Persist
    <2>2. CASE Step(p, "persist", "exhaust") /\ UNCHANGED <<scope, locals>>
      BY <1>7, <2>2, InHandAdvance DEF Persist
    <2> QED
      BY <1>7, <2>1, <2>2 DEF Persist
  <1>8. CASE emit_delivery_failure_error_card(p)
    BY <1>8, InHandNextRow, InsertKeeps, StillKeeps DEF emit_delivery_failure_error_card
  <1>9. CASE ParkRow(p)
    BY <1>9 DEF ParkRow, Step, Clear, InHand, TypeOK, TypePc, TypeScope, TypeLocals
  <1>10. CASE FinishPass(p)
    BY <1>10, InHandEndPass DEF FinishPass
  <1> QED
    BY <1>1, <1>2, <1>3, <1>4, <1>5, <1>6, <1>7, <1>8, <1>9, <1>10 DEF PassStep

LEMMA InHandStep ==
    ASSUME TypeOK, InHand, [Next]_vars
    PROVE  InHand'
  <1> USE DEF outbound
  <1>1. CASE UNCHANGED vars
    BY <1>1, InHandStill, StillKeeps DEF vars, scope, locals
  <1>2. ASSUME NEW p \in Passes, BeginPass(p) PROVE InHand'
    BY <1>2, InHandBegin
  <1>3. ASSUME NEW p \in Passes, PassStep(p) PROVE InHand'
    BY <1>3, InHandPassStep
  <1>4. ASSUME NEW p \in Passes, Fault(p) PROVE InHand'
    BY <1>4, InHandReturn, InHandEndPass DEF Fault, RecordErr, AbortPass, Panic
  <1>5. ASSUME NEW r \in RowIds, Clock(r) \/ ReplayInsert(r) PROVE InHand'
    BY <1>5, InHandStill, StillKeeps, InsertKeeps
    DEF Clock, AgeRow, WindowEnds, ClaimAges, ReplayInsert
  <1>6. CASE ReplayDelete \/ Emit \/ SetRouting
    BY <1>6, InHandStill, StillKeeps, InsertKeeps DEF ReplayDelete, Emit, SetRouting
  <1>7. CASE HostRestart
    BY <1>7 DEF HostRestart, InHand
  <1> QED
    BY <1>1, <1>2, <1>3, <1>4, <1>5, <1>6, <1>7 DEF Next

\* Every variable of a delivery keeps its type in every state, and a pass only
\* works on rows and parts that exist.
THEOREM TypeSafety == Spec => [](TypeOK /\ InHand)
  <1>1. Init => TypeOK /\ InHand
    BY InitType DEF Init, InHand
  <1>2. TypeOK /\ InHand /\ [Next]_vars => (TypeOK /\ InHand)'
    BY TypeStep, InHandStep
  <1> QED
    BY <1>1, <1>2, PTL DEF Spec

\* Type correctness of Delivery, the property the runs check.
THEOREM TypeCorrect == Spec => []TypeOK
  BY TypeSafety, PTL

-----------------------------------------------------------------------------
(* What a step may do to the rows, their records and the acknowledged parts *)

RowsKept ==
    /\ nrows' \in Nat /\ nrows <= nrows'
    /\ \A r \in 1..nrows : rows'[r] = rows[r]

RecordsKept ==
    \A r \in RowIds : delivered'[r] # delivered[r] =>
        /\ delivered[r] = "none" /\ r \in 1..nrows
        /\ delivered'[r] = "ok" => \E p \in Passes : RecordOk(p) /\ cur[p] = r

LEMMA StepRows ==
    ASSUME TypeOK, [Next]_vars
    PROVE  RowsKept
  <1>1. \/ UNCHANGED <<rows, nrows>>
        \/ \E rec : insert_message_out(rec)
    <2>1. ASSUME NEW p \in Passes, PassStep(p)
          PROVE  UNCHANGED <<rows, nrows>> \/ \E rec : insert_message_out(rec)
      BY <2>1 DEF PassStep, outbound, ScanRow, SkipClaimed, ClaimRow, GiveUpSpent, Proceed,
         Unroutable, Adapterless, Resume, SendPart, SendFails, RecordOk, Release, SettleOk,
         bump_retry, Persist, record_exhausted_row, emit_delivery_failure_error_card,
         SettleFailed, ParkRow, WriteLetter, WriteTerminal, FinishPass
    <2>2. ASSUME NEW p \in Passes, BeginPass(p) \/ Fault(p)
          PROVE  UNCHANGED <<rows, nrows>>
      BY <2>2 DEF Fault, outbound, BeginPass, RecordErr, AbortPass, Panic
    <2>3. ASSUME NEW r \in RowIds, Clock(r) \/ ReplayInsert(r)
          PROVE  UNCHANGED <<rows, nrows>> \/ \E rec : insert_message_out(rec)
      BY <2>3 DEF Clock, outbound, AgeRow, WindowEnds, ClaimAges, ReplayInsert
    <2> QED
      BY <2>1, <2>2, <2>3 DEF Next, vars, outbound, ReplayDelete, Emit, SetRouting, HostRestart
  <1> QED
    BY <1>1, InsertKeeps, StillKeeps DEF RowsKept

LEMMA InsertRecordKept ==
    ASSUME TypeOK, InHand, NEW p \in Passes, pc[p] \notin {"idle", "scan"},
           NEW w, insert_delivered(cur[p], "failed", w)
    PROVE  RecordsKept
  BY CurIsRow DEF RecordsKept, insert_delivered, TypeOK, TypeRecords

LEMMA StepRecords ==
    ASSUME TypeOK, InHand, [Next]_vars
    PROVE  RecordsKept
  <1>1. ASSUME UNCHANGED records PROVE RecordsKept
    BY <1>1 DEF records, RecordsKept
  <1>2. ASSUME NEW p \in Passes, PassStep(p) PROVE RecordsKept
    <2>1. CASE RecordOk(p)
      BY <2>1, CurIsRow DEF RecordOk, Return, Step, RecordsKept, insert_delivered, TypeOK,
         TypeRecords
    <2>2. CASE record_exhausted_row(p) \/ SettleFailed(p) \/ WriteTerminal(p)
      BY <2>2, InsertRecordKept
      DEF record_exhausted_row, SettleFailed, WriteTerminal, NextRow, Step
    <2> QED
      BY <1>1, <1>2, <2>1, <2>2 DEF PassStep, ScanRow, SkipClaimed, ClaimRow, GiveUpSpent,
         Proceed, Unroutable, Adapterless, Resume, SendPart, SendFails, Release, SettleOk,
         bump_retry, Persist, emit_delivery_failure_error_card, ParkRow, WriteLetter, FinishPass
  <1>3. ASSUME NEW p \in Passes, BeginPass(p) \/ Fault(p) PROVE RecordsKept
    BY <1>1, <1>3 DEF Fault, BeginPass, RecordErr, AbortPass, Panic
  <1>4. ASSUME NEW r \in RowIds, Clock(r) \/ ReplayInsert(r) PROVE RecordsKept
    BY <1>1, <1>4 DEF Clock, AgeRow, WindowEnds, ClaimAges, ReplayInsert
  <1>5. CASE ReplayDelete \/ Emit \/ SetRouting \/ HostRestart
    BY <1>1, <1>5 DEF ReplayDelete, Emit, SetRouting, HostRestart
  <1>6. CASE UNCHANGED vars
    BY <1>1, <1>6 DEF vars, records
  <1> QED
    BY <1>2, <1>3, <1>4, <1>5, <1>6 DEF Next

\* A record in the delivered table is never rewritten, whatever the loops,
\* crashes and stale snapshots do.
THEOREM RecordsAreFinal == Spec => RecordIsFinal
  <1>1. TypeOK /\ InHand /\ [Next]_vars =>
          [\A r \in RowIds : delivered[r] # "none" => delivered'[r] = delivered[r]]_vars
    BY StepRecords DEF RecordsKept
  <1> QED
    BY <1>1, TypeSafety, PTL DEF Spec, RecordIsFinal

-----------------------------------------------------------------------------
(* AckedImpliesSent: the inductive invariant is Progress /\ Unwritten with  *)
(* it, over TypeOK /\ InHand                                                *)

\* Entries keep their progress, lose it, or are gone.
SentKept ==
    \A r \in RowIds : retries'[r].on =>
        retries'[r].sent = 0 \/ (retries[r].on /\ retries'[r].sent = retries[r].sent)

\* A pass that sends or records was already doing so, on the same row and part.
PlaceKept ==
    \A q \in Passes : pc'[q] \in {"send", "record"} =>
        pc'[q] = pc[q] /\ cur'[q] = cur[q] /\ idx'[q] = idx[q]

LEMMA ProgressKept ==
    ASSUME TypeOK, InHand, Progress, RowsKept, SentKept, PlaceKept, UNCHANGED copies
    PROVE  Progress'
  <1> USE DEF Reached
  <1>1. \A r \in RowIds : retries'[r].on => \A k \in 1..retries'[r].sent : copies'[r][k] > 0
    <2> SUFFICES ASSUME NEW r \in RowIds, retries'[r].on, NEW k \in 1..retries'[r].sent
                 PROVE  copies[r][k] > 0
      OBVIOUS
    <2>1. retries'[r].sent # 0
      OBVIOUS
    <2> QED
      BY <2>1 DEF Progress, SentKept
  <1>2. \A q \in Passes : pc'[q] = "send" => \A k \in 1..idx'[q] : copies'[cur'[q]][k] > 0
    BY DEF Progress, PlaceKept
  <1>3. \A q \in Passes : pc'[q] = "record" =>
          \A k \in 1..rows'[cur'[q]].parts : copies'[cur'[q]][k] > 0
    <2> SUFFICES ASSUME NEW q \in Passes, pc'[q] = "record"
                 PROVE  \A k \in 1..rows'[cur'[q]].parts : copies'[cur'[q]][k] > 0
      OBVIOUS
    <2>1. pc[q] = "record" /\ cur'[q] = cur[q] /\ cur[q] \in 1..nrows
      BY DEF PlaceKept, InHand
    <2>2. rows'[cur[q]] = rows[cur[q]]
      BY <2>1 DEF RowsKept
    <2> QED
      BY <2>1, <2>2 DEF Progress
  <1> QED
    BY <1>1, <1>2, <1>3 DEF Progress

\* Every step but the two that resume and send a part is of that kind.
LEMMA QuietPassStep ==
    ASSUME TypeOK, InHand, NEW p \in Passes, PassStep(p), ~Resume(p), ~SendPart(p)
    PROVE  SentKept /\ PlaceKept /\ UNCHANGED copies
  <1> USE DEF TypeOK, TypePc, TypeLocals
  <1>0. /\ UNCHANGED retries => SentKept
        /\ \A r \in RowIds : retries' = [retries EXCEPT ![r] = NoRetry] => SentKept
    <2>1. ASSUME NEW r \in RowIds, retries' = [retries EXCEPT ![r] = NoRetry] PROVE SentKept
      <3>1. NoRetry.sent = 0
        BY DEF NoRetry
      <3>2. \A s \in RowIds : retries'[s] = NoRetry \/ retries'[s] = retries[s]
        BY <2>1 DEF TypeRetries
      <3> QED
        BY <3>1, <3>2 DEF SentKept
    <2> QED
      BY <2>1 DEF SentKept
  <1>1. /\ \A from : NextRow(p, from) => PlaceKept
        /\ EndPass(p) => PlaceKept
        /\ \A from, o : Return(p, from, o) => PlaceKept
        /\ \A from, to : Step(p, from, to) /\ UNCHANGED <<cur, idx>> /\ to \notin {"send", "record"}
             => PlaceKept
    BY DEF PlaceKept, NextRow, EndPass, Return, Step, Clear
  <1>2. CASE ScanRow(p)
    BY <1>0, <1>2 DEF ScanRow, PlaceKept, maps, seen
  <1>3. CASE \/ SkipClaimed(p) \/ SettleOk(p) \/ SettleFailed(p) \/ WriteTerminal(p)
             \/ emit_delivery_failure_error_card(p)
    BY <1>0, <1>1, <1>3, CurIsRow DEF SkipClaimed, SettleOk, SettleFailed, WriteTerminal,
       emit_delivery_failure_error_card, NextRow, Step, maps, seen
  <1>4. CASE \/ ClaimRow(p) \/ GiveUpSpent(p) \/ Proceed(p) \/ Release(p) \/ WriteLetter(p)
             \/ record_exhausted_row(p)
    BY <1>0, <1>1, <1>4, CurIsRow DEF ClaimRow, GiveUpSpent, Proceed, Release, WriteLetter,
       record_exhausted_row, Step, locals, maps, seen
  <1>5. CASE Unroutable(p) \/ Adapterless(p) \/ SendFails(p) \/ RecordOk(p)
    BY <1>0, <1>1, <1>5 DEF Unroutable, Adapterless, SendFails, RecordOk, maps, seen
  <1>6. CASE bump_retry(p)
    <2>1. cur[p] \in RowIds
      BY <1>6, CurIsRow DEF bump_retry, Step
    <2>2. PlaceKept /\ UNCHANGED copies
      BY <1>1, <1>6 DEF bump_retry, seen
    <2>3. /\ retries'[cur[p]].sent = Entry(cur[p]).sent
          /\ \A r \in RowIds \ {cur[p]} : retries'[r] = retries[r]
      BY <1>6, <2>1 DEF bump_retry, TypeRetries
    <2>4. Entry(cur[p]).sent = IF retries[cur[p]].on THEN retries[cur[p]].sent ELSE 0
      BY DEF Entry
    <2> QED
      BY <2>1, <2>2, <2>3, <2>4 DEF SentKept
  <1>7. CASE Persist(p)
    BY <1>0, <1>1, <1>7 DEF Persist, locals, maps, seen
  <1>8. CASE ParkRow(p)
    BY <1>0, <1>8 DEF ParkRow, PlaceKept, Step, Clear, maps, seen
  <1>9. CASE FinishPass(p)
    BY <1>0, <1>1, <1>9 DEF FinishPass, maps, seen
  <1> QED
    BY <1>2, <1>3, <1>4, <1>5, <1>6, <1>7, <1>8, <1>9 DEF PassStep

LEMMA QuietOther ==
    ASSUME TypeOK, InHand, [Next]_vars, \A p \in Passes : ~PassStep(p)
    PROVE  SentKept /\ PlaceKept /\ UNCHANGED copies
  <1> USE DEF TypeOK, TypePc, TypeLocals
  <1>1. ASSUME UNCHANGED <<retries, pc, cur, idx, copies>>
        PROVE  SentKept /\ PlaceKept /\ UNCHANGED copies
    BY <1>1 DEF SentKept, PlaceKept
  <1>2. ASSUME NEW p \in Passes, BeginPass(p) PROVE SentKept /\ PlaceKept /\ UNCHANGED copies
    <2>1. PlaceKept /\ UNCHANGED copies
      BY <1>2 DEF BeginPass, Step, PlaceKept, locals, seen
    <2>2. \A d \in RetryRec : Rebase(d, p).on = d.on /\ Rebase(d, p).sent = d.sent
      BY DEF Rebase, RetryRec
    <2>3. ASSUME NEW r \in RowIds
          PROVE  /\ prime_retry_cache(r) \in RetryRec
                 /\ prime_retry_cache(r) = retries[r] \/ prime_retry_cache(r).sent = 0
      BY ConstantsAssumption DEF TypeOutbound, TypeRetries, prime_retry_cache, RetryRec
    <2>4. SentKept
      BY <1>2, <2>2, <2>3 DEF BeginPass, SentKept
    <2> QED
      BY <2>1, <2>4
  <1>3. ASSUME NEW p \in Passes, Fault(p) PROVE SentKept /\ PlaceKept /\ UNCHANGED copies
    BY <1>3 DEF Fault, RecordErr, AbortPass, Panic, Return, EndPass, Step, Clear, SentKept,
       PlaceKept, maps, seen
  <1>4. ASSUME NEW r \in RowIds, Clock(r) \/ ReplayInsert(r)
        PROVE  SentKept /\ PlaceKept /\ UNCHANGED copies
    <2>1. CASE WindowEnds(r)
      BY <2>1 DEF WindowEnds, SentKept, PlaceKept, TypeRetries, RetryRec, locals, seen
    <2> QED
      BY <1>1, <1>4, <2>1 DEF Clock, AgeRow, ClaimAges, ReplayInsert, maps, locals, seen
  <1>5. CASE ReplayDelete \/ Emit \/ SetRouting
    BY <1>1, <1>5 DEF ReplayDelete, Emit, SetRouting, maps, locals, seen
  <1>6. CASE HostRestart
    BY <1>6 DEF HostRestart, SentKept, PlaceKept, NoRetry, seen
  <1>7. CASE UNCHANGED vars
    BY <1>1, <1>7 DEF vars
  <1> QED
    BY <1>2, <1>3, <1>4, <1>5, <1>6, <1>7 DEF Next

LEMMA ProgressResume ==
    ASSUME TypeOK, InHand, Progress, NEW p \in Passes, Resume(p)
    PROVE  Progress'
  <1> USE DEF Reached
  <1> DEFINE r == cur[p]
             start == chunks_sent(r)
  <1>1. r \in RowIds
    BY CurIsRow DEF Resume
  <1>2. start \in Nat /\ rows[r].parts \in Nat
    BY <1>1 DEF chunks_sent, TypeOK, TypeRetries, RetryRec, TypeOutbound, RowRec
  <1>3. \A k \in 1..start : copies[r][k] > 0
    BY <1>1 DEF chunks_sent, Progress
  <1>4. UNCHANGED <<rows, retries, copies, cur>>
    BY DEF Resume, outbound, maps, seen
  <1>5. /\ pc'[p] = IF start >= rows[r].parts THEN "record" ELSE "send"
        /\ idx'[p] = start
        /\ \A q \in Passes \ {p} : pc'[q] = pc[q] /\ idx'[q] = idx[q]
    BY DEF Resume, Step, TypeOK, TypePc, TypeLocals
  <1>6. pc'[p] = "record" => \A k \in 1..rows[r].parts : copies[r][k] > 0
    BY <1>2, <1>3, <1>5
  <1> HIDE DEF start
  <1> QED
    BY <1>3, <1>4, <1>5, <1>6 DEF Progress

\* Sending a part only adds to what the platform took.
LEMMA SendCopies ==
    ASSUME TypeOK, InHand, NEW p \in Passes, SendPart(p)
    PROVE  /\ cur[p] \in RowIds
           /\ idx[p] + 1 \in 1..rows[cur[p]].parts
           /\ rows[cur[p]].parts \in 0..MaxParts
           /\ copies'[cur[p]][idx[p] + 1] > 0
           /\ \A s \in RowIds, k \in 1..MaxParts : copies[s][k] > 0 => copies'[s][k] > 0
  <1> DEFINE r == cur[p]
             n == idx[p] + 1
  <1>1. r \in RowIds
    BY CurIsRow DEF SendPart
  <1>2. rows[r].parts \in 0..MaxParts
    BY <1>1 DEF TypeOK, TypeOutbound, RowRec
  <1>3. idx[p] \in Nat /\ idx[p] < rows[r].parts
    BY DEF SendPart, InHand, TypeOK, TypeLocals
  <1>4. n \in 1..rows[r].parts /\ n \in 1..MaxParts
    BY <1>2, <1>3, ConstantsAssumption
  <1>5. copies' = [copies EXCEPT ![r][n] = @ + 1]
    BY DEF SendPart
  <1>6. copies \in [RowIds -> [1..MaxParts -> Nat]]
    BY DEF TypeOK, TypeSeen
  <1> HIDE DEF n, r
  <1>7. copies'[r] = [copies[r] EXCEPT ![n] = @ + 1]
    BY <1>1, <1>5, <1>6
  <1>8. \A s \in RowIds : s # r => copies'[s] = copies[s]
    BY <1>5, <1>6
  <1>9. copies[r] \in [1..MaxParts -> Nat]
    BY <1>1, <1>6
  <1>10. copies'[r][n] = copies[r][n] + 1 /\ copies[r][n] \in Nat
    BY <1>4, <1>7, <1>9
  <1>11. \A k \in 1..MaxParts : k # n => copies'[r][k] = copies[r][k]
    BY <1>7, <1>9
  <1>12. copies'[r][n] > 0
    BY <1>10
  <1>13. ASSUME NEW s \in RowIds, NEW k \in 1..MaxParts, copies[s][k] > 0
         PROVE  copies'[s][k] > 0
    <2>1. CASE s # r
      BY <1>8, <1>13, <2>1
    <2>2. CASE s = r /\ k # n
      BY <1>11, <1>13, <2>2
    <2>3. CASE s = r /\ k = n
      BY <1>12, <2>3
    <2> QED
      BY <2>1, <2>2, <2>3
  <1> QED
    BY <1>1, <1>2, <1>4, <1>12, <1>13 DEF n, r

LEMMA ProgressSend ==
    ASSUME TypeOK, InHand, Progress, NEW p \in Passes, SendPart(p)
    PROVE  Progress'
  <1> USE DEF Reached
  <1> DEFINE r == cur[p]
             n == idx[p] + 1
  <1>1. r \in RowIds /\ n \in 1..rows[r].parts /\ rows[r].parts \in 0..MaxParts
    BY SendCopies
  <1>2. \A k \in 1..idx[p] : copies[r][k] > 0
    BY DEF Progress, SendPart
  <1>3. ASSUME NEW s \in RowIds, NEW k \in 1..MaxParts, copies[s][k] > 0
        PROVE  copies'[s][k] > 0
    BY <1>3, SendCopies
  <1>4. copies'[r][n] > 0
    BY SendCopies
  <1>5. ASSUME NEW k \in 1..n PROVE copies'[r][k] > 0
    <2>1. idx[p] \in Nat
      BY DEF TypeOK, TypeLocals
    <2>2. CASE k = n
      BY <1>4, <2>2
    <2>3. CASE k # n
      <3>1. k \in 1..idx[p] /\ k \in 1..MaxParts
        BY <1>1, <2>1, <2>3, ConstantsAssumption
      <3> QED
        BY <1>1, <1>2, <1>3, <3>1
    <2> QED
      BY <2>2, <2>3
  <1>6. UNCHANGED <<rows, cur>>
    BY DEF SendPart, outbound
  <1>7. /\ pc'[p] = IF n = rows[r].parts THEN "record" ELSE "send"
        /\ idx'[p] = n
        /\ \A q \in Passes \ {p} : pc'[q] = pc[q] /\ idx'[q] = idx[q]
    BY DEF SendPart, TypeOK, TypePc, TypeLocals
  <1>8. /\ retries'[r] = retries[r] \/ retries'[r].sent = n
        /\ \A s \in RowIds \ {r} : retries'[s] = retries[s]
    BY <1>1 DEF SendPart, note_part, TypeOK, TypeRetries
  <1> HIDE DEF n, r
  <1>9. \A s \in RowIds : retries[s].sent \in 0..MaxParts
    BY DEF TypeOK, TypeRetries, RetryRec
  <1>10. \A s \in RowIds : retries'[s].on => \A k \in 1..retries'[s].sent : copies'[s][k] > 0
    <2> SUFFICES ASSUME NEW s \in RowIds, retries'[s].on, NEW k \in 1..retries'[s].sent
                 PROVE  copies'[s][k] > 0
      OBVIOUS
    <2>1. CASE retries'[s] = retries[s]
      <3>1. copies[s][k] > 0
        BY <2>1 DEF Progress
      <3>2. k \in 1..MaxParts
        BY <2>1, <1>9, ConstantsAssumption
      <3> QED
        BY <1>3, <3>1, <3>2
    <2>2. CASE s = r /\ retries'[s].sent = n
      BY <2>2, <1>5
    <2> QED
      BY <1>8, <2>1, <2>2
  <1>11. \A q \in Passes : pc'[q] = "send" => \A k \in 1..idx'[q] : copies'[cur[q]][k] > 0
    <2> SUFFICES ASSUME NEW q \in Passes, pc'[q] = "send", NEW k \in 1..idx'[q]
                 PROVE  copies'[cur[q]][k] > 0
      OBVIOUS
    <2>1. CASE q = p
      BY <2>1, <1>5, <1>7 DEF r
    <2>2. CASE q # p
      <3>1. cur[q] \in RowIds /\ idx[q] \in 0..MaxParts /\ pc[q] = "send" /\ idx'[q] = idx[q]
        BY <2>2, <1>7, CurIsRow DEF TypeOK, TypeLocals
      <3>2. copies[cur[q]][k] > 0
        BY <3>1 DEF Progress
      <3>3. k \in 1..MaxParts
        BY <3>1, ConstantsAssumption
      <3> QED
        BY <3>1, <3>2, <3>3, <1>3
    <2> QED
      BY <2>1, <2>2
  <1>12. \A q \in Passes : pc'[q] = "record" =>
           \A k \in 1..rows[cur[q]].parts : copies'[cur[q]][k] > 0
    <2> SUFFICES ASSUME NEW q \in Passes, pc'[q] = "record", NEW k \in 1..rows[cur[q]].parts
                 PROVE  copies'[cur[q]][k] > 0
      OBVIOUS
    <2>1. CASE q = p
      BY <2>1, <1>5, <1>7 DEF r
    <2>2. CASE q # p
      <3>1. cur[q] \in RowIds /\ pc[q] = "record"
        BY <2>2, <1>7, CurIsRow
      <3>2. rows[cur[q]].parts \in 0..MaxParts
        BY <3>1 DEF TypeOK, TypeOutbound, RowRec
      <3>3. copies[cur[q]][k] > 0
        BY <3>1 DEF Progress
      <3>4. k \in 1..MaxParts
        BY <3>2, ConstantsAssumption
      <3> QED
        BY <3>1, <3>3, <3>4, <1>3
    <2> QED
      BY <2>1, <2>2
  <1> QED
    BY <1>6, <1>10, <1>11, <1>12 DEF Progress

LEMMA ProgressStep ==
    ASSUME TypeOK, InHand, Progress, [Next]_vars
    PROVE  Progress'
  BY StepRows, ProgressResume, ProgressSend, ProgressKept, QuietPassStep, QuietOther

\* The parts of a row that reached the platform stay there.
LEMMA CopiesGrow ==
    ASSUME TypeOK, InHand, [Next]_vars
    PROVE  \A r \in RowIds, k \in 1..MaxParts : copies[r][k] > 0 => copies'[r][k] > 0
  <1>1. ASSUME NEW p \in Passes, SendPart(p)
        PROVE  \A r \in RowIds, k \in 1..MaxParts : copies[r][k] > 0 => copies'[r][k] > 0
    BY <1>1, SendCopies
  <1>2. ASSUME NEW p \in Passes, Resume(p) PROVE UNCHANGED copies
    BY <1>2 DEF Resume, seen
  <1> QED
    BY <1>1, <1>2, QuietPassStep, QuietOther

AckInv == Progress /\ Unwritten /\ AckedImpliesSent

LEMMA AckStep ==
    ASSUME TypeOK, InHand, AckInv, [Next]_vars
    PROVE  AckInv'
  <1>1. RowsKept /\ RecordsKept
    BY StepRows, StepRecords
  <1>2. Progress'
    BY ProgressStep DEF AckInv
  <1>3. Unwritten'
    <2>1. SUFFICES ASSUME NEW r \in RowIds, r > nrows' PROVE delivered'[r] = "none"
      BY DEF Unwritten
    <2>2. nrows \in Nat /\ nrows' \in Nat /\ nrows <= nrows'
      BY <1>1, ConstantsAssumption DEF RowsKept, TypeOK, TypeOutbound
    <2>3. r > nrows /\ r \in Int
      BY <2>1, <2>2, ConstantsAssumption DEF RowIds
    <2>4. delivered[r] = "none" /\ r \notin 1..nrows
      BY <2>2, <2>3 DEF AckInv, Unwritten
    <2> QED
      BY <1>1, <2>4 DEF RecordsKept
  <1>4. ASSUME NEW r \in RowIds, delivered'[r] = "ok"
        PROVE  \A k \in 1..rows'[r].parts : copies'[r][k] > 0
    <2>1. r \in 1..nrows
      BY <1>1, <1>4, ConstantsAssumption
      DEF RecordsKept, AckInv, Unwritten, TypeOK, TypeOutbound
    <2>2. rows'[r] = rows[r] /\ rows[r].parts \in 0..MaxParts
      BY <1>1, <2>1 DEF RowsKept, TypeOK, TypeOutbound, RowRec
    <2>3. \A k \in 1..rows[r].parts : copies[r][k] > 0
      <3>1. CASE delivered[r] = "ok"
        BY <3>1 DEF AckInv, AckedImpliesSent
      <3>2. CASE delivered[r] # "ok"
        <4>1. PICK p \in Passes : RecordOk(p) /\ cur[p] = r
          BY <1>1, <1>4, <3>2 DEF RecordsKept
        <4> QED
          BY <4>1 DEF AckInv, Progress, Reached, RecordOk, Return, Step
      <3> QED
        BY <3>1, <3>2
    <2>4. ASSUME NEW k \in 1..rows[r].parts PROVE k \in 1..MaxParts
      BY <2>2, ConstantsAssumption
    <2> QED
      BY <2>2, <2>3, <2>4, CopiesGrow
  <1> QED
    BY <1>2, <1>3, <1>4 DEF AckInv, AckedImpliesSent

LEMMA AckInit == Init => AckInv
  BY ConstantsAssumption DEF Init, AckInv, Progress, Unwritten, AckedImpliesSent, NoRetry

\* A row recorded as delivered reached the platform in full, for any split,
\* any interleaving of the loops, and any crashes, panics and lost writes.
THEOREM AckedRowsWereSent == Spec => []AckedImpliesSent
  <1>1. TypeOK /\ InHand /\ AckInv /\ [Next]_vars => AckInv'
    BY AckStep
  <1>2. AckInv => AckedImpliesSent
    BY DEF AckInv
  <1> QED
    BY <1>1, <1>2, AckInit, TypeSafety, PTL DEF Spec
============================================================================
