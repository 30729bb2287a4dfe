------------------------ MODULE DeliveryRefinement ------------------------
(***************************************************************************)
(* Delivery implements Outbox: every step of the loops, the runner, the    *)
(* operator and the host is a write, a take, a verdict or a stutter of the *)
(* abstract outbox.                                                        *)
(***************************************************************************)
EXTENDS DeliveryProofs

\* The platform took the whole of row r, as `taken` reads it off the parts.
Whole(r) == \A k \in 1..rows[r].parts : copies[r][k] > 0

outboxVars == <<verdict, taken>>

\* The four kinds of steps, by what they do to the tables and the platform.
Silent == UNCHANGED <<rows, nrows, delivered, copies>>

Inserted == UNCHANGED <<delivered, copies>> /\ \E rec : insert_message_out(rec)

Recorded ==
    /\ UNCHANGED <<rows, nrows, copies>>
    /\ \E r \in 1..nrows, s \in {"ok", "failed"} :
         /\ delivered' = [delivered EXCEPT ![r] = IF @ = "none" THEN s ELSE @]
         /\ s = "ok" => Whole(r)

Sent == \E p \in Passes : SendPart(p)

\* A record is written for the row in hand.
LEMMA RecordStep ==
    ASSUME TypeOK, InHand, Progress, NEW p \in Passes,
           RecordOk(p) \/ SettleFailed(p) \/ record_exhausted_row(p) \/ WriteTerminal(p)
    PROVE  Recorded
  <1>1. pc[p] \notin {"idle", "scan"}
    BY DEF RecordOk, SettleFailed, record_exhausted_row, WriteTerminal, Return, NextRow, Step
  <1>2. cur[p] \in 1..nrows
    BY <1>1, CurIsRow
  <1>3. UNCHANGED <<rows, nrows, copies>>
    BY DEF RecordOk, SettleFailed, record_exhausted_row, WriteTerminal, outbound, seen
  <1>4. CASE RecordOk(p)
    <2>1. Whole(cur[p])
      BY <1>4 DEF RecordOk, Return, Step, Progress, Reached, Whole
    <2> QED
      BY <1>2, <1>3, <1>4, <2>1 DEF RecordOk, insert_delivered, Recorded
  <1>5. CASE SettleFailed(p) \/ record_exhausted_row(p) \/ WriteTerminal(p)
    BY <1>2, <1>3, <1>5 DEF SettleFailed, record_exhausted_row, WriteTerminal, insert_delivered,
       Recorded
  <1> QED
    BY <1>4, <1>5

LEMMA StepKinds ==
    ASSUME TypeOK, InHand, Progress, [Next]_vars
    PROVE  Silent \/ Inserted \/ Recorded \/ Sent
  <1> USE DEF Silent, outbound, records, seen
  <1>1. ASSUME NEW p \in Passes, PassStep(p) PROVE Silent \/ Inserted \/ Recorded \/ Sent
    <2>1. CASE ScanRow(p) \/ SkipClaimed(p) \/ ClaimRow(p) \/ GiveUpSpent(p) \/ Proceed(p)
      BY <2>1 DEF ScanRow, SkipClaimed, ClaimRow, GiveUpSpent, Proceed
    <2>2. CASE Unroutable(p) \/ Adapterless(p) \/ Resume(p) \/ SendFails(p) \/ Release(p)
      BY <2>2 DEF Unroutable, Adapterless, Resume, SendFails, Release
    <2>3. CASE SettleOk(p) \/ bump_retry(p) \/ Persist(p) \/ ParkRow(p) \/ WriteLetter(p) \/ FinishPass(p)
      BY <2>3 DEF SettleOk, bump_retry, Persist, ParkRow, WriteLetter, FinishPass
    <2>4. CASE RecordOk(p) \/ SettleFailed(p) \/ record_exhausted_row(p) \/ WriteTerminal(p)
      BY <2>4, RecordStep
    <2>5. CASE emit_delivery_failure_error_card(p)
      BY <2>5 DEF emit_delivery_failure_error_card, Inserted
    <2>6. CASE SendPart(p)
      BY <2>6 DEF Sent
    <2> QED
      BY <1>1, <2>1, <2>2, <2>3, <2>4, <2>5, <2>6 DEF PassStep
  <1>2. ASSUME NEW p \in Passes, BeginPass(p) \/ Fault(p) PROVE Silent
    BY <1>2 DEF BeginPass, Fault, RecordErr, AbortPass, Panic
  <1>3. ASSUME NEW r \in RowIds, Clock(r) \/ ReplayInsert(r) PROVE Silent \/ Inserted
    BY <1>3 DEF Clock, AgeRow, WindowEnds, ClaimAges, ReplayInsert, Inserted
  <1>4. CASE ReplayDelete \/ Emit \/ SetRouting \/ HostRestart \/ UNCHANGED vars
    BY <1>4 DEF ReplayDelete, Emit, SetRouting, HostRestart, vars, Inserted
  <1> QED
    BY <1>1, <1>2, <1>3, <1>4 DEF Next

LEMMA SilentIsStutter == ASSUME Silent PROVE UNCHANGED outboxVars
  BY DEF Silent, outboxVars, verdict, taken

\* A fresh row is a message written; one with no parts is taken at once.
LEMMA InsertIsWrite ==
    ASSUME TypeOK, Unwritten, Inserted
    PROVE  Out!Next
  <1>1. nrows \in Nat /\ MaxRows \in Nat
    BY ConstantsAssumption DEF TypeOK, TypeOutbound
  <1>2. PICK rec : insert_message_out(rec)
    BY DEF Inserted
  <1>3. PICK m \in RowIds : m = nrows + 1
    BY <1>1, <1>2 DEF insert_message_out, RowIds
  <1>4. /\ nrows' = m /\ UNCHANGED <<delivered, copies>>
        /\ \A r \in RowIds \ {m} : rows'[r] = rows[r]
    BY <1>2, <1>3 DEF insert_message_out, Inserted, TypeOK, TypeOutbound
  <1>5. \A r \in RowIds : (r > nrows' <=> r > nrows /\ r # m) /\ (r <= nrows' <=> r <= nrows \/ r = m)
    BY <1>1, <1>3, <1>4 DEF RowIds
  <1>6. m > nrows /\ ~ (m <= nrows) /\ delivered[m] = "none"
    BY <1>1, <1>3 DEF Unwritten
  <1>7. verdict[m] = "absent"
    BY <1>6 DEF verdict
  <1>8. verdict' = [verdict EXCEPT ![m] = "pending"]
    BY <1>4, <1>5, <1>6 DEF verdict
  <1>9. \A r \in RowIds \ {m} : r \in taken' <=> r \in taken
    BY <1>4, <1>5 DEF taken
  <1>10. taken' \in {taken, taken \cup {m}}
    <2>1. taken' \subseteq RowIds /\ taken \subseteq RowIds /\ m \notin taken
      BY <1>6 DEF taken
    <2> QED
      BY <1>9, <2>1
  <1>11. Out!Write(m)
    BY <1>7, <1>8, <1>10 DEF Out!Write
  <1> QED
    BY <1>11 DEF Out!Next

\* The first record of a row is its verdict, a later one says nothing.
LEMMA RecordIsVerdict ==
    ASSUME TypeOK, Recorded
    PROVE  [Out!Next]_outboxVars
  <1>1. PICK m \in 1..nrows, s \in {"ok", "failed"} :
          /\ delivered' = [delivered EXCEPT ![m] = IF @ = "none" THEN s ELSE @]
          /\ s = "ok" => Whole(m)
    BY DEF Recorded
  <1>2. UNCHANGED <<rows, nrows, copies>>
    BY DEF Recorded
  <1>3. m \in RowIds /\ m <= nrows /\ ~ (m > nrows)
    BY ConstantsAssumption DEF TypeOK, TypeOutbound, RowIds
  <1>4. UNCHANGED taken
    BY <1>2 DEF taken
  <1>5. CASE delivered[m] # "none"
    <2>1. delivered' = delivered
      BY <1>1, <1>5 DEF TypeOK, TypeRecords
    <2> QED
      BY <1>2, <2>1, SilentIsStutter DEF Silent
  <1>6. CASE delivered[m] = "none"
    <2>1. delivered' = [delivered EXCEPT ![m] = s]
      BY <1>1, <1>6
    <2>2. verdict[m] = "pending"
      BY <1>3, <1>6 DEF verdict
    <2>3. verdict' = [verdict EXCEPT ![m] = s]
      BY <1>2, <1>3, <2>1 DEF verdict, TypeOK, TypeRecords
    <2>4. CASE s = "ok"
      <3>1. m \in taken
        BY <1>1, <1>3, <2>4 DEF taken, Whole
      <3>2. Out!Acknowledge(m)
        BY <1>4, <2>2, <2>3, <2>4, <3>1 DEF Out!Acknowledge
      <3> QED
        BY <1>3, <3>2 DEF Out!Next
    <2>5. CASE s = "failed"
      <3>1. Out!GiveUp(m)
        BY <1>4, <2>2, <2>3, <2>5 DEF Out!GiveUp
      <3> QED
        BY <1>3, <3>1 DEF Out!Next
    <2> QED
      BY <2>4, <2>5
  <1> QED
    BY <1>5, <1>6

\* A part sent may be the last one that was missing of its row.
LEMMA SendIsTake ==
    ASSUME TypeOK, InHand, Sent
    PROVE  [Out!Next]_outboxVars
  <1>1. PICK p \in Passes : SendPart(p)
    BY DEF Sent
  <1>2. PICK m \in RowIds : m = cur[p]
    BY <1>1, SendCopies
  <1>3. UNCHANGED <<rows, nrows, delivered>>
    BY <1>1 DEF SendPart, outbound, records
  <1>4. UNCHANGED verdict
    BY <1>3 DEF verdict
  <1>5. m <= nrows /\ ~ (m > nrows)
    <2>1. m \in 1..nrows /\ nrows \in Nat
      BY <1>1, <1>2, CurIsRow, ConstantsAssumption DEF SendPart, TypeOK, TypeOutbound
    <2> QED
      BY <2>1
  <1>6. verdict[m] # "absent"
    BY <1>5 DEF verdict, TypeOK, TypeRecords
  <1>7. \A r \in RowIds \ {m} : copies'[r] = copies[r]
    BY <1>1, <1>2 DEF SendPart, TypeOK, TypeSeen
  <1>8. \A r \in RowIds \ {m} : r \in taken' <=> r \in taken
    BY <1>3, <1>7 DEF taken
  <1>9. m \in taken => m \in taken'
    <2> SUFFICES ASSUME m \in taken, NEW k \in 1..rows[m].parts PROVE copies'[m][k] > 0
      BY <1>3, <1>5 DEF taken
    <2>1. k \in 1..MaxParts
      BY ConstantsAssumption DEF TypeOK, TypeOutbound, RowRec
    <2>2. copies[m][k] > 0
      BY DEF taken
    <2> QED
      BY <1>1, <2>1, <2>2, SendCopies
  <1>10. taken \subseteq RowIds /\ taken' \subseteq RowIds
    BY DEF taken
  <1>11. CASE m \in taken \/ m \notin taken'
    <2>1. taken' = taken
      BY <1>8, <1>9, <1>10, <1>11
    <2> QED
      BY <1>4, <2>1 DEF outboxVars
  <1>12. CASE m \notin taken /\ m \in taken'
    <2>1. taken' = taken \cup {m}
      BY <1>8, <1>10, <1>12
    <2>2. Out!Take(m)
      BY <1>4, <1>6, <2>1 DEF Out!Take
    <2> QED
      BY <2>2 DEF Out!Next
  <1> QED
    BY <1>11, <1>12

LEMMA OutStep ==
    ASSUME TypeOK, InHand, AckInv, [Next]_vars
    PROVE  [Out!Next]_outboxVars
  BY StepKinds, SilentIsStutter, InsertIsWrite, RecordIsVerdict, SendIsTake DEF AckInv

LEMMA OutInit == ASSUME Init PROVE Out!Init
  <1>1. \A r \in RowIds : r > nrows /\ ~ (r <= nrows)
    BY ConstantsAssumption DEF Init, RowIds
  <1> QED
    BY <1>1 DEF Out!Init, verdict, taken

\* Delivery implements Outbox: with the loops, claims, retries and crashes
\* hidden, a message is written once, gets at most one verdict, keeps it, and is
\* acknowledged only when the platform has taken all of it.
THEOREM DeliveryImplementsOutbox == Spec => ImplementsOutbox
  <1>1. TypeOK /\ InHand /\ AckInv /\ [Next]_vars => AckInv'
    BY AckStep
  <1>2. TypeOK /\ InHand /\ AckInv /\ [Next]_vars => [Out!Next]_outboxVars
    BY OutStep
  <1>3. Init => Out!Init
    BY OutInit
  <1> QED
    BY <1>1, <1>2, <1>3, AckInit, TypeSafety, PTL DEF Spec, ImplementsOutbox, Out!Spec, outboxVars
============================================================================
