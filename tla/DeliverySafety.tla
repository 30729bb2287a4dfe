--------------------------- MODULE DeliverySafety ---------------------------
(***************************************************************************)
(* Further safety properties of Delivery, for any number of rows, parts,   *)
(* attempts, crashes and faults: who may send a row and how often, when it *)
(* may be given up, that a dead letter is not lost and that exhaustion is  *)
(* told once.  Each section states what it asks of the loops.              *)
(***************************************************************************)
EXTENDS DeliveryProofs, FiniteSetTheorems

-----------------------------------------------------------------------------
(* One sender per row.  A claim is only sure to keep a second pass out as   *)
(* long as it is younger than ABSOLUTE_CEILING_MS by that pass's `now`: the *)
(* theorem is about passes that do not outlast the ceiling.                 *)

\* The claim of a row in hand stands, and every running pass still sees it.
Claims ==
    \A p \in Passes : pc[p] \in Owning =>
        /\ inflight[cur[p]].on /\ inflight[cur[p]].open
        /\ Running \subseteq inflight[cur[p]].ahead

ClaimInv == Claims /\ OneSender

\* A step that takes and drops no claim.
ClaimsKept ==
    /\ UNCHANGED inflight
    /\ \A q \in Passes : pc'[q] # "idle" => pc[q] # "idle"
    /\ \A q \in Passes : pc'[q] \in Owning => pc[q] \in Owning /\ cur'[q] = cur[q]

LEMMA KeptClaims == ASSUME ClaimInv, ClaimsKept PROVE ClaimInv'
  BY DEF ClaimInv, Claims, OneSender, ClaimsKept, Running

\* Only these steps touch the in-flight map.
Claiming(p) == ClaimRow(p) \/ GiveUpSpent(p) \/ Release(p)

LEMMA QuietClaims ==
    ASSUME TypeOK, NEW p \in Passes, PassStep(p) \/ Fault(p), ~ Claiming(p)
    PROVE  ClaimsKept
  <1> USE DEF ClaimsKept, Owning, Step, TypeOK, TypePc, TypeLocals, Clear, NextRow, Return, EndPass
  <1>1. CASE ScanRow(p)
    BY <1>1 DEF ScanRow, maps
  <1>2. CASE SkipClaimed(p)
    BY <1>2 DEF SkipClaimed, maps
  <1>3. CASE Proceed(p)
    BY <1>3 DEF Proceed, maps, locals
  <1>4. CASE Unroutable(p) \/ Adapterless(p)
    BY <1>4 DEF Unroutable, Adapterless, maps
  <1>5. CASE Resume(p)
    BY <1>5 DEF Resume, maps
  <1>6. CASE SendPart(p)
    BY <1>6 DEF SendPart
  <1>7. CASE SendFails(p)
    BY <1>7 DEF SendFails, maps
  <1>8. CASE RecordOk(p) \/ RecordErr(p)
    BY <1>8 DEF RecordOk, RecordErr, maps
  <1>9. CASE SettleOk(p) \/ SettleFailed(p) \/ ParkRow(p) \/ WriteTerminal(p)
    BY <1>9 DEF SettleOk, SettleFailed, ParkRow, WriteTerminal, maps
  <1>10. CASE bump_retry(p) \/ Persist(p) \/ WriteLetter(p)
    BY <1>10 DEF bump_retry, Persist, WriteLetter, maps, locals
  <1>11. CASE record_exhausted_row(p) \/ emit_delivery_failure_error_card(p)
    BY <1>11 DEF record_exhausted_row, emit_delivery_failure_error_card, maps, locals
  <1>12. CASE FinishPass(p) \/ AbortPass(p) \/ Panic(p)
    BY <1>12 DEF FinishPass, AbortPass, Panic, maps
  <1> QED
    BY <1>1, <1>2, <1>3, <1>4, <1>5, <1>6, <1>7, <1>8, <1>9, <1>10, <1>11, <1>12
    DEF PassStep, Fault, Claiming

LEMMA ClaimStep ==
    ASSUME TypeOK, InHand, ClaimInv, [Next]_vars, ~ SlowPass
    PROVE  ClaimInv'
  <1> USE DEF TypeOK, TypePc, TypeInflight, TypeLocals
  <1>1. ASSUME NEW p \in Passes, ClaimRow(p) PROVE ClaimInv'
    <2>1. cur[p] \in RowIds /\ p \in Running /\ UNCHANGED cur
      BY <1>1, CurIsRow DEF ClaimRow, Step, Running, locals
    <2>2. Running' = Running
      BY <1>1 DEF ClaimRow, Step, Running
    <2>3. inflight'[cur[p]] = [on |-> TRUE, open |-> TRUE, ahead |-> Running]
          /\ \A r \in RowIds \ {cur[p]} : inflight'[r] = inflight[r]
      BY <1>1, <2>1 DEF ClaimRow
    <2>4. \A q \in Passes : pc'[q] \in Owning => q = p \/ pc[q] \in Owning
      BY <1>1 DEF ClaimRow, Step
    <2>5. \A q \in Passes : pc[q] \in Owning => cur[q] # cur[p]
      BY <1>1, <2>1 DEF ClaimRow, Claimed, ClaimInv, Claims
    <2>6. \A q \in Passes : pc[q] \in Owning => cur[q] \in RowIds
      BY CurIsRow DEF Owning
    <2>7. Claims'
      <3> SUFFICES ASSUME NEW q \in Passes, pc'[q] \in Owning
                   PROVE  /\ inflight'[cur[q]].on /\ inflight'[cur[q]].open
                          /\ Running \subseteq inflight'[cur[q]].ahead
        BY <2>1, <2>2 DEF Claims
      <3>1. CASE q = p
        BY <2>3, <3>1
      <3>2. CASE q # p
        BY <2>3, <2>4, <2>5, <2>6, <3>2 DEF ClaimInv, Claims
      <3> QED
        BY <3>1, <3>2
    <2> QED
      BY <2>1, <2>4, <2>5, <2>7 DEF ClaimInv, OneSender
  <1>2. ASSUME NEW p \in Passes, GiveUpSpent(p) \/ Release(p) PROVE ClaimInv'
    <2>1. /\ cur[p] \in RowIds /\ UNCHANGED cur /\ pc[p] \in Owning /\ pc'[p] \notin Owning
          /\ \A q \in Passes \ {p} : pc'[q] = pc[q]
          /\ inflight' = [inflight EXCEPT ![cur[p]] = NoClaim]
      BY <1>2, CurIsRow DEF GiveUpSpent, Release, Step, Owning, locals
    <2>2. Running' = Running
      BY <1>2 DEF GiveUpSpent, Release, Step, Running
    <2>3. \A q \in Passes : pc'[q] \in Owning =>
             pc[q] \in Owning /\ cur[q] # cur[p] /\ cur[q] \in RowIds
      BY <2>1, CurIsRow DEF Owning, ClaimInv, OneSender
    <2> QED
      BY <2>1, <2>2, <2>3 DEF ClaimInv, Claims, OneSender
  <1>3. ASSUME NEW p \in Passes, PassStep(p) \/ Fault(p), ~ Claiming(p) PROVE ClaimInv'
    BY <1>3, QuietClaims, KeptClaims
  <1>4. ASSUME NEW p \in Passes, BeginPass(p) PROVE ClaimInv'
    <2>1. UNCHANGED cur /\ \A q \in Passes : pc'[q] \in Owning => pc[q] \in Owning
      BY <1>4 DEF BeginPass, Step, locals, Owning
    <2>2. Running' = Running \cup {p}
      BY <1>4 DEF BeginPass, Step, Running
    <2>3. \A r \in RowIds : inflight'[r] = Rebase(inflight[r], p)
      BY <1>4 DEF BeginPass
    <2>4. ASSUME NEW c \in ClaimRec, c.open
          PROVE  Rebase(c, p).on = c.on /\ Rebase(c, p).open /\ Rebase(c, p).ahead = c.ahead \cup {p}
      BY <2>4 DEF Rebase, ClaimRec
    <2>5. ASSUME NEW q \in Passes, pc'[q] \in Owning
          PROVE  /\ inflight'[cur[q]].on /\ inflight'[cur[q]].open
                 /\ Running' \subseteq inflight'[cur[q]].ahead
      <3>1. /\ cur[q] \in RowIds /\ inflight[cur[q]] \in ClaimRec
            /\ inflight[cur[q]].on /\ inflight[cur[q]].open
            /\ Running \subseteq inflight[cur[q]].ahead
        BY <2>1, <2>5, CurIsRow DEF Owning, ClaimInv, Claims
      <3> QED
        BY <2>2, <2>3, <2>4, <3>1
    <2> QED
      BY <2>1, <2>5 DEF ClaimInv, Claims, OneSender
  <1>5. ASSUME NEW r \in RowIds, ClaimAges(r) PROVE ClaimInv'
    <2>1. UNCHANGED <<pc, cur>> /\ inflight' = [inflight EXCEPT ![r].open = FALSE]
          /\ \A q \in Passes : pc[q] \in Owning => cur[q] # r
      BY <1>5 DEF ClaimAges, Owned, locals
    <2>2. \A q \in Passes : pc[q] \in Owning => cur[q] \in RowIds
      BY CurIsRow DEF Owning
    <2> QED
      BY <2>1, <2>2 DEF ClaimInv, Claims, OneSender, Running
  <1>6. CASE UNCHANGED <<inflight, pc, cur>>
    BY <1>6, KeptClaims DEF ClaimsKept
  <1>7. CASE HostRestart
    BY <1>7 DEF HostRestart, ClaimInv, Claims, OneSender, Owning
  <1>8. ASSUME NEW r \in RowIds, AgeRow(r) \/ WindowEnds(r) \/ ReplayInsert(r)
        PROVE  UNCHANGED <<inflight, pc, cur>>
    BY <1>8 DEF AgeRow, WindowEnds, ReplayInsert, maps, locals
  <1>9. CASE ReplayDelete \/ Emit \/ SetRouting \/ UNCHANGED vars
    BY <1>6, <1>9 DEF ReplayDelete, Emit, SetRouting, maps, locals, vars
  <1> QED
    BY <1>1, <1>2, <1>3, <1>4, <1>5, <1>6, <1>7, <1>8, <1>9 DEF Next, Clock, Claiming

LEMMA ClaimInit == Init => ClaimInv
  BY DEF Init, ClaimInv, Claims, OneSender, Owning

\* While no pass outlasts ABSOLUTE_CEILING_MS, the claim taken through the entry
\* API admits one sender per row, over panics, restarts and claims left behind.
THEOREM OneSenderPerRow == ~ SlowPass => (Spec => []OneSender)
  <1> SUFFICES ASSUME ~ SlowPass PROVE Spec => []OneSender
    OBVIOUS
  <1>1. TypeOK /\ InHand /\ ClaimInv /\ [Next]_vars => ClaimInv'
    BY ClaimStep
  <1>2. ClaimInv => OneSender
    BY DEF ClaimInv
  <1> QED
    BY <1>1, <1>2, ClaimInit, TypeSafety, PTL DEF Spec
-----------------------------------------------------------------------------
(* Dead letters.  The invariant says where the letter of a row is between   *)
(* the two writes of the terminal record, and between the two of a replay.  *)

Copied(r) == \E s \in RowIds : rows[s].from = r
Covered(r) == DeadLettered(r) \/ Copied(r)

Lost == {"noroute", "noadapter"}

\* Letters are counted, and the one a replay still has to delete is there, with
\* the copy that replaces it.
Counted ==
    /\ \A r \in RowIds, t \in Targets : letters[r][t] >= 0
    /\ replaying # NoLetter =>
         /\ replaying.row \in RowIds /\ Copied(replaying.row)
         /\ letters[replaying.row][replaying.target] > 0

\* A row that was not written is nobody's copy and has no reason.
Blank == \A r \in RowIds : r > nrows => rows[r].from = 0 /\ why[r] = "none"

\* The letter is written before the terminal record.
LetterFirst ==
    \A p \in Passes : pc[p] = "terminal" /\ Replayable(cur[p]) => Covered(cur[p])

LetterInv == Counted /\ Blank /\ LetterFirst /\ NoLostLetter

\* The rows are as they were, or one was added.
Grown ==
    /\ RowsKept
    /\ \A r \in RowIds : r > nrows' => r > nrows /\ rows'[r] = rows[r]

LEMMA StepGrown ==
    ASSUME TypeOK, [Next]_vars
    PROVE  Grown
  <1>1. RowsKept
    BY StepRows
  <1>2. \/ UNCHANGED <<rows, nrows>>
        \/ \E rec : insert_message_out(rec)
    <2>1. ASSUME NEW p \in Passes, PassStep(p)
          PROVE  UNCHANGED <<rows, nrows>> \/ \E rec : insert_message_out(rec)
      BY <2>1 DEF PassStep, outbound, ScanRow, SkipClaimed, ClaimRow, GiveUpSpent, Proceed,
         Unroutable, Adapterless, Resume, SendPart, SendFails, RecordOk, Release, SettleOk,
         bump_retry, Persist, record_exhausted_row, emit_delivery_failure_error_card,
         SettleFailed, ParkRow, WriteLetter, WriteTerminal, FinishPass
    <2>2. ASSUME NEW p \in Passes, BeginPass(p) \/ Fault(p)
          PROVE  UNCHANGED <<rows, nrows>>
      BY <2>2 DEF Fault, outbound, BeginPass, RecordErr, AbortPass, Panic
    <2>3. ASSUME NEW r \in RowIds, Clock(r) \/ ReplayInsert(r)
          PROVE  UNCHANGED <<rows, nrows>> \/ \E rec : insert_message_out(rec)
      BY <2>3 DEF Clock, outbound, AgeRow, WindowEnds, ClaimAges, ReplayInsert
    <2> QED
      BY <2>1, <2>2, <2>3 DEF Next, vars, outbound, ReplayDelete, Emit, SetRouting, HostRestart
  <1>3. ASSUME NEW rec, insert_message_out(rec)
        PROVE  \A r \in RowIds : r > nrows' => r > nrows /\ rows'[r] = rows[r]
    <2>1. nrows \in Nat /\ rows \in [RowIds -> RowRec]
      BY ConstantsAssumption DEF TypeOK, TypeOutbound
    <2>2. nrows' = nrows + 1 /\ rows' = [rows EXCEPT ![nrows + 1] = rec]
      BY <1>3 DEF insert_message_out
    <2>3. ASSUME NEW r \in RowIds, r > nrows' PROVE r > nrows /\ r # nrows + 1
      BY <2>1, <2>2, <2>3, ConstantsAssumption DEF RowIds
    <2> QED
      BY <2>1, <2>2, <2>3
  <1> QED
    BY <1>1, <1>2, <1>3 DEF Grown

\* A row is written or is not.
LEMMA WrittenOrNot ==
    ASSUME TypeOK, NEW r \in RowIds
    PROVE  r \in 1..nrows \/ r > nrows
  <1>1. nrows \in Nat /\ r \in Nat /\ r >= 1
    BY ConstantsAssumption DEF TypeOK, TypeOutbound, RowIds
  <1> QED
    BY <1>1

LEMMA CopiesKept ==
    ASSUME TypeOK, Blank, Grown, NEW r \in RowIds, Copied(r)
    PROVE  Copied(r)'
  <1>1. PICK s \in RowIds : rows[s].from = r
    BY DEF Copied
  <1>2. r # 0
    BY ConstantsAssumption DEF RowIds
  <1>3. s \in 1..nrows
    BY <1>1, <1>2, WrittenOrNot DEF Blank
  <1> QED
    BY <1>1, <1>3 DEF Grown, RowsKept, Copied

\* A step that neither writes a letter nor deletes one, and records no loss.
LettersKept ==
    /\ UNCHANGED letters
    /\ replaying' = replaying \/ replaying' = NoLetter
    /\ \A q \in Passes : pc'[q] = "terminal" => pc[q] = "terminal" /\ cur'[q] = cur[q]
    /\ \A r \in RowIds : why'[r] = why[r] \/ (r \in 1..nrows /\ why'[r] \notin Lost)

LEMMA KeptLetters ==
    ASSUME TypeOK, InHand, LetterInv, Grown, LettersKept
    PROVE  LetterInv'
  <1>1. nrows \in Nat /\ nrows' \in Nat /\ nrows <= nrows'
    BY ConstantsAssumption DEF Grown, RowsKept, TypeOK, TypeOutbound
  <1>2. \A r \in RowIds : Covered(r) => Covered(r)'
    BY CopiesKept DEF LetterInv, LettersKept, Covered, DeadLettered
  <1>3. \A r \in 1..nrows : Replayable(r)' <=> Replayable(r)
    BY DEF Grown, RowsKept, Replayable
  <1>4. Counted'
    <2>1. CASE replaying' = NoLetter
      BY <2>1 DEF LetterInv, LettersKept, Counted
    <2>2. CASE replaying' = replaying /\ replaying # NoLetter
      <3>1. Copied(replaying.row)'
        <4> DEFINE r == replaying.row
        <4>1. r \in RowIds /\ Copied(r)
          BY <2>2 DEF LetterInv, Counted
        <4>2. \A x \in RowIds : Copied(x) => Copied(x)'
          BY CopiesKept DEF LetterInv
        <4>3. \E s \in RowIds : rows'[s].from = r
          BY <4>1, <4>2 DEF Copied
        <4> QED
          BY <2>2, <4>3 DEF Copied
      <3> QED
        BY <2>2, <3>1 DEF LetterInv, LettersKept, Counted
    <2> QED
      BY <2>1, <2>2 DEF LettersKept
  <1>5. Blank'
    BY <1>1 DEF LetterInv, Grown, LettersKept, Blank
  <1>6. LetterFirst'
    <2> SUFFICES ASSUME NEW q \in Passes, pc'[q] = "terminal", Replayable(cur[q])'
                 PROVE  Covered(cur[q])'
      BY DEF LetterFirst
    <2>1. pc[q] = "terminal" /\ cur'[q] = cur[q] /\ cur[q] \in 1..nrows /\ cur[q] \in RowIds
      BY CurIsRow DEF LettersKept
    <2>2. Replayable(cur[q])
      BY <2>1 DEF Replayable, Grown, RowsKept
    <2>3. Covered(cur[q])
      BY <2>1, <2>2 DEF LetterInv, LetterFirst
    <2>4. PICK r \in RowIds : r = cur[q]
      BY <2>1
    <2>5. Covered(r)'
      BY <1>2, <2>3, <2>4
    <2> QED
      BY <2>1, <2>4, <2>5 DEF Covered, DeadLettered, Copied
  <1>7. NoLostLetter'
    <2> SUFFICES ASSUME NEW r \in RowIds, why'[r] \in Lost, Replayable(r)' PROVE Covered(r)'
      BY DEF NoLostLetter, Lost, Covered, DeadLettered, Copied
    <2>1. why'[r] = why[r] /\ r \in 1..nrows
      BY WrittenOrNot DEF LettersKept, LetterInv, Blank, Lost
    <2>2. Covered(r)
      BY <1>3, <2>1 DEF LetterInv, NoLostLetter, Lost, Covered, Copied
    <2> QED
      BY <1>2, <2>2
  <1> QED
    BY <1>4, <1>5, <1>6, <1>7 DEF LetterInv

LEMMA QuietLetters ==
    ASSUME TypeOK, InHand, NEW p \in Passes, PassStep(p) \/ Fault(p) \/ BeginPass(p),
           ~ WriteLetter(p), ~ WriteTerminal(p)
    PROVE  LettersKept
  <1> USE DEF LettersKept, Step, TypeOK, TypePc, TypeRecords, Clear, NextRow, Return, EndPass,
          central, records
  <1>1. CASE ScanRow(p)
    BY <1>1 DEF ScanRow, TypeLocals
  <1>2. CASE BeginPass(p)
    BY <1>2 DEF BeginPass, locals
  <1>3. CASE SkipClaimed(p)
    BY <1>3 DEF SkipClaimed
  <1>4. CASE ClaimRow(p)
    BY <1>4 DEF ClaimRow, locals
  <1>5. CASE GiveUpSpent(p)
    BY <1>5 DEF GiveUpSpent, locals
  <1>6. CASE Proceed(p)
    BY <1>6 DEF Proceed, locals
  <1>7. CASE Unroutable(p)
    BY <1>7 DEF Unroutable
  <1>8. CASE Adapterless(p)
    BY <1>8 DEF Adapterless
  <1>9. CASE Resume(p)
    BY <1>9 DEF Resume
  <1>10. CASE SendPart(p)
    BY <1>10 DEF SendPart
  <1>11. CASE SendFails(p)
    BY <1>11 DEF SendFails
  <1>12. CASE Release(p)
    BY <1>12 DEF Release, locals
  <1>13. CASE RecordOk(p)
    BY <1>13, CurIsRow DEF RecordOk, insert_delivered, Lost
  <1>14. CASE SettleFailed(p)
    BY <1>14, CurIsRow DEF SettleFailed, insert_delivered, Lost
  <1>15. CASE record_exhausted_row(p)
    BY <1>15, CurIsRow DEF record_exhausted_row, insert_delivered, Lost, locals
  <1>16. CASE SettleOk(p)
    BY <1>16 DEF SettleOk
  <1>17. CASE ParkRow(p)
    BY <1>17 DEF ParkRow
  <1>18. CASE RecordErr(p)
    BY <1>18 DEF RecordErr
  <1>19. CASE bump_retry(p)
    BY <1>19 DEF bump_retry
  <1>20. CASE Persist(p)
    <2>1. CASE NextRow(p, "persist")
      BY <1>20, <2>1 DEF Persist, TypeLocals
    <2>2. CASE Step(p, "persist", "exhaust") /\ UNCHANGED locals
      BY <1>20, <2>2 DEF Persist, locals
    <2> QED
      BY <1>20, <2>1, <2>2 DEF Persist
  <1>21. CASE emit_delivery_failure_error_card(p)
    BY <1>21 DEF emit_delivery_failure_error_card
  <1>22. CASE FinishPass(p)
    BY <1>22 DEF FinishPass
  <1>23. CASE AbortPass(p)
    BY <1>23 DEF AbortPass
  <1>24. CASE Panic(p)
    BY <1>24 DEF Panic
  <1> QED
    BY <1>1, <1>2, <1>3, <1>4, <1>5, <1>6, <1>7, <1>8, <1>9, <1>10, <1>11, <1>12, <1>13, <1>14,
       <1>15, <1>16, <1>17, <1>18, <1>19, <1>20, <1>21, <1>22, <1>23, <1>24 DEF PassStep, Fault

\* record_no_route and record_no_adapter_expired: the letter ...
LEMMA WriteLetterStep ==
    ASSUME TypeOK, InHand, LetterInv, NEW p \in Passes, WriteLetter(p)
    PROVE  LetterInv'
  <1>1. /\ cur[p] \in RowIds /\ pc[p] = "settle" /\ pc' = [pc EXCEPT ![p] = "terminal"]
        /\ UNCHANGED <<rows, nrows, why, replaying, cur>>
    BY CurIsRow DEF WriteLetter, Step, outbound, records, locals
  <1> DEFINE t == IF res[p] = "noadapter" THEN "whole" ELSE "bare"
  <1>2. t \in Targets /\ insert_dropped(cur[p], t)
    BY DEF WriteLetter, Targets
  <1> HIDE DEF t
  <1>3. letters \in [RowIds -> [Targets -> Int]]
    BY DEF TypeOK, TypeCentral
  <1>4. \A r \in RowIds, u \in Targets : letters'[r][u] >= letters[r][u]
    BY <1>1, <1>2, <1>3 DEF insert_dropped
  <1>5. Replayable(cur[p]) => letters'[cur[p]][t] > 0
    BY <1>1, <1>2, <1>3 DEF insert_dropped, LetterInv, Counted
  <1>6. letters' \in [RowIds -> [Targets -> Int]]
    BY <1>1, <1>2, <1>3 DEF insert_dropped
  <1>7. \A r \in RowIds : Covered(r) => Covered(r)'
    BY <1>1, <1>3, <1>4, <1>6 DEF Covered, DeadLettered, Copied
  <1>8. Counted'
    <2>1. \A r \in RowIds, u \in Targets : letters'[r][u] >= 0
      BY <1>3, <1>4, <1>6 DEF LetterInv, Counted
    <2>2. replaying.target \in Targets
      BY DEF TypeOK, TypeCentral
    <2>3. replaying.row \in RowIds /\ letters[replaying.row][replaying.target] > 0
             => letters'[replaying.row][replaying.target] > 0
      BY <1>3, <1>4, <1>6, <2>2
    <2> QED
      BY <1>1, <2>1, <2>3 DEF LetterInv, Counted, Copied
  <1>9. LetterFirst'
    <2> SUFFICES ASSUME NEW q \in Passes, pc'[q] = "terminal", Replayable(cur[q])
                 PROVE  Covered(cur[q])'
      BY <1>1 DEF LetterFirst, Replayable
    <2>1. CASE q = p
      BY <1>1, <1>2, <1>5, <2>1 DEF Covered, DeadLettered
    <2>2. CASE q # p
      <3>1. pc[q] = "terminal" /\ cur[q] \in RowIds
        BY <1>1, <2>2, CurIsRow DEF TypeOK, TypePc
      <3>2. Covered(cur[q])
        BY <3>1 DEF LetterInv, LetterFirst
      <3>3. PICK r \in RowIds : r = cur[q]
        BY <3>1
      <3>4. Covered(r)'
        BY <1>7, <3>2, <3>3
      <3> QED
        BY <1>1, <3>3, <3>4 DEF Covered, DeadLettered, Copied
    <2> QED
      BY <2>1, <2>2
  <1>10. Blank' /\ NoLostLetter'
    BY <1>1, <1>7 DEF LetterInv, Blank, NoLostLetter, Covered, Copied, Replayable
  <1> QED
    BY <1>8, <1>9, <1>10 DEF LetterInv

\* ... then the terminal record, of the row the letter is about.
LEMMA WriteTerminalStep ==
    ASSUME TypeOK, InHand, LetterInv, NEW p \in Passes, WriteTerminal(p)
    PROVE  LetterInv'
  <1>1. /\ cur[p] \in RowIds /\ cur[p] \in 1..nrows /\ pc[p] = "terminal"
        /\ pc' = [pc EXCEPT ![p] = "scan"] /\ cur' = [cur EXCEPT ![p] = NoRow]
        /\ UNCHANGED <<rows, nrows, letters, replaying>>
    BY CurIsRow DEF WriteTerminal, NextRow, Step, Clear, outbound, central
  <1>2. \A r \in RowIds \ {cur[p]} : why'[r] = why[r]
    BY DEF WriteTerminal, insert_delivered, TypeOK, TypeRecords
  <1>3. Counted'
    BY <1>1 DEF LetterInv, Counted, Copied
  <1>4. Blank'
    BY <1>1, <1>2, ConstantsAssumption DEF LetterInv, Blank, TypeOK, TypeOutbound
  <1>5. LetterFirst'
    BY <1>1 DEF LetterInv, LetterFirst, Covered, DeadLettered, Copied, Replayable, TypeOK, TypePc,
       TypeLocals
  <1>6. Replayable(cur[p]) => DeadLettered(cur[p]) \/ Copied(cur[p])
    BY <1>1 DEF LetterInv, LetterFirst, Covered
  <1>7. NoLostLetter'
    BY <1>1, <1>2, <1>6 DEF LetterInv, NoLostLetter, DeadLettered, Copied, Replayable
  <1> QED
    BY <1>3, <1>4, <1>5, <1>7 DEF LetterInv

\* replay_with_data_dir: the copy ...
LEMMA ReplayInsertStep ==
    ASSUME TypeOK, InHand, LetterInv, NEW r \in RowIds, ReplayInsert(r), Grown
    PROVE  LetterInv'
  <1>1. PICK t \in Targets :
          /\ letters[r][t] > 0
          /\ insert_message_out([kind |-> rows[r].kind, parts |-> rows[r].parts,
                                 own |-> t = "whole", from |-> r])
          /\ replaying' = [row |-> r, target |-> t]
    BY DEF ReplayInsert
  <1>2. UNCHANGED <<letters, why, pc, cur>>
    BY DEF ReplayInsert, records, locals
  <1>3. Copied(r)'
    <2>1. nrows \in Nat /\ nrows < MaxRows /\ MaxRows \in Nat
      BY <1>1, ConstantsAssumption DEF insert_message_out, TypeOK, TypeOutbound
    <2>2. nrows + 1 \in RowIds
      BY <2>1 DEF RowIds
    <2>3. rows'[nrows + 1].from = r
      BY <1>1, <2>2 DEF insert_message_out, TypeOK, TypeOutbound
    <2> QED
      BY <2>2, <2>3 DEF Copied
  <1>4. \A x \in RowIds : Covered(x) => Covered(x)'
    BY <1>2, CopiesKept DEF LetterInv, Covered, DeadLettered
  <1>5. nrows \in Nat /\ nrows' \in Nat /\ nrows <= nrows'
    BY ConstantsAssumption DEF Grown, RowsKept, TypeOK, TypeOutbound
  <1>6. Counted'
    <2>1. replaying'.row = r /\ replaying'.target = t
      BY <1>1
    <2>2. Copied(replaying.row)'
      BY <1>3, <2>1 DEF Copied
    <2> QED
      BY <1>1, <1>2, <2>1, <2>2 DEF LetterInv, Counted
  <1>7. Blank'
    BY <1>2, <1>5 DEF LetterInv, Grown, Blank
  <1>8. \A x \in 1..nrows : Replayable(x)' <=> Replayable(x)
    BY DEF Grown, RowsKept, Replayable
  <1>9. LetterFirst'
    <2> SUFFICES ASSUME NEW q \in Passes, pc[q] = "terminal", Replayable(cur[q])'
                 PROVE  Covered(cur[q])'
      BY <1>2 DEF LetterFirst
    <2>1. cur[q] \in 1..nrows /\ cur[q] \in RowIds /\ cur'[q] = cur[q]
      BY <1>2, CurIsRow
    <2>2. PICK x \in RowIds : x = cur[q]
      BY <2>1
    <2>3. Replayable(x)'
      BY <2>1, <2>2 DEF Replayable
    <2>4. Covered(x)
      BY <1>8, <2>1, <2>2, <2>3 DEF LetterInv, LetterFirst
    <2>5. Covered(x)'
      BY <1>4, <2>4
    <2> QED
      BY <2>1, <2>2, <2>5 DEF Covered, DeadLettered, Copied
  <1>10. NoLostLetter'
    <2> SUFFICES ASSUME NEW x \in RowIds, why[x] \in Lost, Replayable(x)' PROVE Covered(x)'
      BY <1>2 DEF NoLostLetter, Lost, Covered, DeadLettered, Copied
    <2>1. x \in 1..nrows
      BY WrittenOrNot DEF LetterInv, Blank, Lost
    <2>2. Covered(x)
      BY <1>8, <2>1 DEF LetterInv, NoLostLetter, Lost, Covered, Copied
    <2> QED
      BY <1>4, <2>2
  <1> QED
    BY <1>6, <1>7, <1>9, <1>10 DEF LetterInv

\* ... then the letter it replaces goes.
LEMMA ReplayDeleteStep ==
    ASSUME TypeOK, InHand, LetterInv, ReplayDelete
    PROVE  LetterInv'
  <1> DEFINE row == replaying.row
             t == replaying.target
  <1>1. /\ row \in RowIds /\ t \in Targets /\ Copied(row) /\ letters[row][t] > 0
        /\ UNCHANGED <<rows, nrows, why, pc, cur>> /\ replaying' = NoLetter
    BY DEF ReplayDelete, LetterInv, Counted, TypeOK, TypeCentral, outbound, records, locals
  <1>2. letters' = [letters EXCEPT ![row][t] = @ - 1]
    BY DEF ReplayDelete
  <1> HIDE DEF row, t
  <1>3. letters \in [RowIds -> [Targets -> Int]]
    BY DEF TypeOK, TypeCentral
  <1>4. \A r \in RowIds, u \in Targets : letters'[r][u] >= 0
    BY <1>1, <1>2, <1>3 DEF LetterInv, Counted
  <1>5. \A r \in RowIds \ {row} : letters'[r] = letters[r]
    BY <1>2, <1>3
  <1>6. \A r \in RowIds : Covered(r) => Covered(r)'
    <2>1. ASSUME NEW r \in RowIds, Covered(r), r # row PROVE Covered(r)'
      BY <1>1, <1>5, <2>1 DEF Covered, DeadLettered, Copied
    <2>2. \E s \in RowIds : rows'[s].from = row
      BY <1>1 DEF Copied
    <2> QED
      BY <2>1, <2>2 DEF Covered, Copied
  <1>7. Counted' /\ Blank'
    BY <1>1, <1>4 DEF LetterInv, Counted, Blank
  <1>8. LetterFirst'
    <2> SUFFICES ASSUME NEW q \in Passes, pc[q] = "terminal", Replayable(cur[q])
                 PROVE  Covered(cur[q])'
      BY <1>1 DEF LetterFirst, Replayable
    <2>1. cur[q] \in RowIds /\ Covered(cur[q])
      BY CurIsRow DEF LetterInv, LetterFirst
    <2>2. PICK r \in RowIds : r = cur[q]
      BY <2>1
    <2>3. Covered(r)'
      BY <1>6, <2>1, <2>2
    <2> QED
      BY <1>1, <2>2, <2>3 DEF Covered, DeadLettered, Copied
  <1>9. NoLostLetter'
    BY <1>1, <1>6 DEF LetterInv, NoLostLetter, Covered, Copied, Replayable
  <1> QED
    BY <1>7, <1>8, <1>9 DEF LetterInv

LEMMA LetterStep ==
    ASSUME TypeOK, InHand, LetterInv, [Next]_vars
    PROVE  LetterInv'
  <1>1. Grown
    BY StepGrown
  <1>2. ASSUME NEW p \in Passes, PassStep(p) \/ Fault(p) \/ BeginPass(p) PROVE LetterInv'
    BY <1>1, <1>2, QuietLetters, KeptLetters, WriteLetterStep, WriteTerminalStep
  <1>3. ASSUME NEW r \in RowIds, Clock(r) PROVE LetterInv'
    <2>1. LettersKept
      BY <1>3 DEF Clock, AgeRow, WindowEnds, ClaimAges, LettersKept, records, central, locals
    <2> QED
      BY <1>1, <2>1, KeptLetters
  <1>4. ASSUME NEW r \in RowIds, ReplayInsert(r) PROVE LetterInv'
    BY <1>1, <1>4, ReplayInsertStep
  <1>5. CASE ReplayDelete
    BY <1>5, ReplayDeleteStep
  <1>6. CASE Emit \/ SetRouting \/ HostRestart \/ UNCHANGED vars
    <2>1. LettersKept
      BY <1>6 DEF Emit, SetRouting, HostRestart, vars, LettersKept, records, central, locals
    <2> QED
      BY <1>1, <2>1, KeptLetters
  <1> QED
    BY <1>2, <1>3, <1>4, <1>5, <1>6 DEF Next

LEMMA LetterInit == ASSUME Init PROVE LetterInv
  <1>1. ASSUME NEW r \in RowIds, NEW t \in Targets PROVE letters[r][t] = 0
    BY DEF Init
  <1>2. Counted
    BY <1>1 DEF Init, Counted
  <1>3. Blank /\ NoLostLetter
    BY DEF Init, Blank, BlankRow, NoRow, NoLostLetter
  <1>4. LetterFirst
    BY DEF Init, LetterFirst
  <1> QED
    BY <1>2, <1>3, <1>4 DEF LetterInv

\* A replayable row failed for want of a route or an adapter is never lost: its
\* letter exists until a replay has put a copy back, over crashes between any
\* two of the four writes.
THEOREM LettersAreNotLost == Spec => []NoLostLetter
  <1>1. TypeOK /\ InHand /\ LetterInv /\ [Next]_vars => LetterInv'
    BY LetterStep
  <1>2. LetterInv => NoLostLetter
    BY DEF LetterInv
  <1> QED
    BY <1>1, <1>2, LetterInit, TypeSafety, PTL DEF Spec

-----------------------------------------------------------------------------
(* The budget of attempts.  The count in the map, with the failed sends no  *)
(* pass has counted yet, never runs ahead of the sends that failed: neither *)
(* does the count on the row, nor the one a pass is about to store.         *)

Tries(r) == IF retries[r].on THEN retries[r].tries ELSE 0

\* Passes that hold a retryable failure of row r which bump_retry has to count.
Owing(p) == pc[p] \in {"release", "settle"} /\ res[p] = "retry"
Owe(r) == {p \in Passes : cur[p] = r /\ Owing(p)}

Charged == \A r \in RowIds : Tries(r) + Cardinality(Owe(r)) <= fails[r]

Stored ==
    /\ \A r \in RowIds : disk[r].tries <= fails[r]
    /\ \A p \in Passes : pc[p] = "persist" => bumped[p] <= fails[cur[p]]

Exhausting == \A p \in Passes : pc[p] = "exhaust" => fails[cur[p]] >= MaxAttempts

\* Before the counts are loaded no pass runs.
Cold == ~ primed => \A p \in Passes : pc[p] = "idle"

BudgetInv == Charged /\ Stored /\ Exhausting /\ Cold /\ NeverGivesUpEarly

LEMMA OweFinite == \A r : IsFiniteSet(Owe(r)) /\ Cardinality(Owe(r)) \in Nat
  <1> TAKE r
  <1>1. Owe(r) \in SUBSET Passes
    BY DEF Owe
  <1> QED
    BY <1>1, ConstantsAssumption, FS_Subset, FS_CardinalityType

LEMMA OweFiniteNext == \A r : IsFiniteSet(Owe(r)') /\ Cardinality(Owe(r)') \in Nat
  <1> TAKE r
  <1>1. Owe(r)' \in SUBSET Passes
    BY DEF Owe
  <1> QED
    BY <1>1, ConstantsAssumption, FS_Subset, FS_CardinalityType

LEMMA TriesType == ASSUME TypeOK PROVE \A r \in RowIds : Tries(r) \in Nat
  BY DEF Tries, TypeOK, TypeRetries, RetryRec

\* A step in which no send fails and none is counted.
BudgetKept ==
    /\ UNCHANGED fails
    /\ \A r \in RowIds : \/ Tries(r)' <= Tries(r)
                         \/ Tries(r)' <= fails[r] /\ \A q \in Passes : ~ Owing(q)
    /\ \A q \in Passes : Owing(q)' => Owing(q) /\ cur'[q] = cur[q]
    /\ \A r \in RowIds : disk'[r].tries = disk[r].tries \/ disk'[r].tries <= fails[r]
    /\ \A q \in Passes : pc'[q] = "persist" =>
         pc[q] = "persist" /\ cur'[q] = cur[q] /\ bumped'[q] = bumped[q]
    /\ \A q \in Passes : pc'[q] = "exhaust" =>
         (pc[q] = "exhaust" /\ cur'[q] = cur[q]) \/ fails[cur'[q]] >= MaxAttempts
    /\ \A r \in RowIds : why'[r] = "exhausted" => why[r] = "exhausted" \/ fails[r] >= MaxAttempts
    /\ ~ primed' => \A q \in Passes : pc'[q] = "idle"

LEMMA KeptBudget ==
    ASSUME TypeOK, TypeOK', InHand, BudgetInv, BudgetKept
    PROVE  BudgetInv'
  <1>1. Charged'
    <2> SUFFICES ASSUME NEW r \in RowIds PROVE Tries(r)' + Cardinality(Owe(r)') <= fails'[r]
      BY DEF Charged
    <2>1. Owe(r)' \subseteq Owe(r)
      BY DEF Owe, BudgetKept
    <2>2. Cardinality(Owe(r)') <= Cardinality(Owe(r))
      BY <2>1, OweFinite, FS_Subset
    <2>3. /\ Cardinality(Owe(r)') \in Nat /\ Cardinality(Owe(r)) \in Nat
          /\ Tries(r) \in Nat /\ Tries(r)' \in Nat /\ fails[r] \in Nat /\ fails'[r] = fails[r]
      BY OweFinite, OweFiniteNext, TriesType
         DEF TypeOK, TypeSeen, TypeRetries, RetryRec, Tries, BudgetKept
    <2>4. Tries(r) + Cardinality(Owe(r)) <= fails[r]
      BY DEF BudgetInv, Charged
    <2>5. CASE Tries(r)' <= Tries(r)
      BY <2>2, <2>3, <2>4, <2>5
    <2>6. CASE Tries(r)' <= fails[r] /\ \A q \in Passes : ~ Owing(q)
      <3>1. Owe(r) = {}
        BY <2>6 DEF Owe
      <3>2. Cardinality(Owe(r)) = 0
        BY <3>1, FS_EmptySet
      <3> QED
        BY <2>2, <2>3, <2>6, <3>2
    <2> QED
      BY <2>5, <2>6 DEF BudgetKept
  <1>2. Stored'
    <2>1. \A r \in RowIds : disk'[r].tries <= fails'[r]
      BY DEF BudgetInv, Stored, BudgetKept
    <2>2. \A q \in Passes : pc'[q] = "persist" => bumped'[q] <= fails'[cur'[q]]
      BY DEF BudgetInv, Stored, BudgetKept
    <2> QED
      BY <2>1, <2>2 DEF Stored
  <1>3. Exhausting'
    BY DEF BudgetInv, Exhausting, BudgetKept
  <1>4. Cold'
    BY DEF Cold, BudgetKept
  <1>5. NeverGivesUpEarly'
    BY DEF BudgetInv, NeverGivesUpEarly, BudgetKept
  <1> QED
    BY <1>1, <1>2, <1>3, <1>4, <1>5 DEF BudgetInv

\* The count survives the progress closure and falls when the entry is removed.
LEMMA TriesFall ==
    ASSUME TypeOK, NEW r \in RowIds
    PROVE  /\ UNCHANGED retries => \A s \in RowIds : Tries(s)' <= Tries(s)
           /\ retries' = [retries EXCEPT ![r] = NoRetry] => \A s \in RowIds : Tries(s)' <= Tries(s)
           /\ \A n \in 0..MaxParts : note_part(r, n) => \A s \in RowIds : Tries(s)' <= Tries(s)
  <1>0. \A s \in RowIds : Tries(s) \in Nat
    BY TriesType
  <1>1. ASSUME UNCHANGED retries PROVE \A s \in RowIds : Tries(s)' <= Tries(s)
    BY <1>0, <1>1 DEF Tries
  <1>2. ASSUME retries' = [retries EXCEPT ![r] = NoRetry] PROVE \A s \in RowIds : Tries(s)' <= Tries(s)
    <2>1. \A s \in RowIds : Tries(s)' = IF s = r THEN 0 ELSE Tries(s)
      BY <1>2 DEF Tries, NoRetry, TypeOK, TypeRetries
    <2> QED
      BY <1>0, <2>1
  <1>3. ASSUME NEW n \in 0..MaxParts, note_part(r, n) PROVE \A s \in RowIds : Tries(s)' <= Tries(s)
    <2>1. \A s \in RowIds : Tries(s)' = Tries(s)
      BY <1>3 DEF note_part, Entry, Tries, TypeOK, TypeRetries
    <2> QED
      BY <1>0, <2>1
  <1> QED
    BY <1>1, <1>2, <1>3

\* An entry whose budget is spent counts that many failed sends.
LEMMA SpentIsSpent ==
    ASSUME TypeOK, BudgetInv, NEW r \in RowIds, Spent(r)
    PROVE  fails[r] >= MaxAttempts
  <1>1. Tries(r) >= MaxAttempts
    BY DEF Spent, Tries
  <1>2. Tries(r) + Cardinality(Owe(r)) <= fails[r]
    BY DEF BudgetInv, Charged
  <1>3. Tries(r) \in Nat /\ Cardinality(Owe(r)) \in Nat /\ fails[r] \in Nat /\ MaxAttempts \in Nat
    BY OweFinite, TriesType, ConstantsAssumption DEF TypeOK, TypeSeen
  <1> QED
    BY <1>1, <1>2, <1>3

LEMMA QuietBudget ==
    ASSUME TypeOK, InHand, BudgetInv, NEW p \in Passes, PassStep(p) \/ Fault(p),
           ~ SendFails(p), ~ bump_retry(p)
    PROVE  BudgetKept
  <1>0. pc[p] # "idle" => primed
    BY DEF BudgetInv, Cold
  <1> USE <1>0 DEF BudgetKept, Owing, Step, TypeOK, TypePc, TypeRecords, TypeOutbound, TypeLocals, Clear,
          NextRow, Return, EndPass, records, outbound, seen
  <1>1. CASE ScanRow(p)
    <2>1. \A s \in RowIds : Tries(s)' <= Tries(s)
      BY <1>1, <1>0, TriesFall DEF ScanRow, maps
    <2> QED
      BY <1>1, <2>1 DEF ScanRow, maps
  <1>2. CASE SkipClaimed(p)
    <2>1. \A s \in RowIds : Tries(s)' <= Tries(s)
      BY <1>2, <1>0, TriesFall DEF SkipClaimed, maps
    <2> QED
      BY <1>2, <2>1 DEF SkipClaimed, maps
  <1>3. CASE ClaimRow(p)
    <2>1. \A s \in RowIds : Tries(s)' <= Tries(s)
      BY <1>3, <1>0, TriesFall DEF ClaimRow
    <2> QED
      BY <1>3, <2>1 DEF ClaimRow, locals
  <1>4. CASE GiveUpSpent(p)
    <2>1. \A s \in RowIds : Tries(s)' <= Tries(s)
      BY <1>4, <1>0, TriesFall DEF GiveUpSpent
    <2>2. fails[cur[p]] >= MaxAttempts
      BY <1>4, SpentIsSpent, CurIsRow DEF GiveUpSpent, Step
    <2> QED
      BY <1>4, <2>2, <2>1 DEF GiveUpSpent, locals
  <1>5. CASE Proceed(p)
    <2>1. \A s \in RowIds : Tries(s)' <= Tries(s)
      BY <1>5, <1>0, TriesFall DEF Proceed, maps
    <2> QED
      BY <1>5, <2>1 DEF Proceed, locals, maps
  <1>6. CASE Unroutable(p)
    <2>1. \A s \in RowIds : Tries(s)' <= Tries(s)
      BY <1>6, <1>0, TriesFall DEF Unroutable, maps
    <2> QED
      BY <1>6, <2>1 DEF Unroutable, maps
  <1>7. CASE Adapterless(p)
    <2>1. \A s \in RowIds : Tries(s)' <= Tries(s)
      BY <1>7, <1>0, TriesFall DEF Adapterless, maps
    <2> QED
      BY <1>7, <2>1 DEF Adapterless, maps
  <1>8. CASE Resume(p)
    <2>1. \A s \in RowIds : Tries(s)' <= Tries(s)
      BY <1>8, <1>0, TriesFall DEF Resume, maps
    <2> QED
      BY <1>8, <2>1 DEF Resume, maps
  <1>9. CASE SendPart(p)
    <2>1. \A s \in RowIds : Tries(s)' <= Tries(s)
      <3>1. cur[p] \in RowIds /\ idx[p] \in Nat /\ MaxParts \in Nat /\ idx[p] < rows[cur[p]].parts
            /\ rows[cur[p]].parts \in 0..MaxParts
        BY <1>9, CurIsRow, ConstantsAssumption DEF SendPart, InHand, RowRec
      <3>2. idx[p] + 1 \in 0..MaxParts
        BY <3>1
      <3>3. note_part(cur[p], idx[p] + 1)
        BY <1>9 DEF SendPart
      <3> QED
        BY <3>1, <3>2, <3>3, TriesFall
    <2> QED
      BY <1>9, <2>1 DEF SendPart
  <1>10. CASE Release(p)
    <2>1. \A s \in RowIds : Tries(s)' <= Tries(s)
      BY <1>10, <1>0, TriesFall DEF Release
    <2> QED
      BY <1>10, <2>1 DEF Release, locals
  <1>11. CASE RecordOk(p)
    <2>1. \A s \in RowIds : Tries(s)' <= Tries(s)
      BY <1>11, <1>0, TriesFall DEF RecordOk, maps
    <2> QED
      BY <1>11, CurIsRow, <2>1 DEF RecordOk, insert_delivered, maps
  <1>12. CASE SettleFailed(p)
    <2>1. \A s \in RowIds : Tries(s)' <= Tries(s)
      BY <1>12, CurIsRow, TriesFall DEF SettleFailed
    <2> QED
      BY <1>12, CurIsRow, <2>1 DEF SettleFailed, insert_delivered
  <1>13. CASE record_exhausted_row(p)
    <2>1. \A s \in RowIds : Tries(s)' <= Tries(s)
      BY <1>13, CurIsRow, TriesFall DEF record_exhausted_row
    <2>2. fails[cur[p]] >= MaxAttempts
      BY <1>13 DEF BudgetInv, Exhausting, record_exhausted_row, Step
    <2> QED
      BY <1>13, CurIsRow, <2>2, <2>1 DEF record_exhausted_row, insert_delivered, locals
  <1>14. CASE SettleOk(p)
    <2>1. \A s \in RowIds : Tries(s)' <= Tries(s)
      BY <1>14, CurIsRow, TriesFall DEF SettleOk
    <2> QED
      BY <1>14, <2>1 DEF SettleOk
  <1>15. CASE ParkRow(p)
    <2>1. \A s \in RowIds : Tries(s)' <= Tries(s)
      BY <1>15, <1>0, TriesFall DEF ParkRow, maps
    <2> QED
      BY <1>15, <2>1 DEF ParkRow, maps
  <1>16. CASE RecordErr(p)
    <2>1. \A s \in RowIds : Tries(s)' <= Tries(s)
      BY <1>16, <1>0, TriesFall DEF RecordErr, maps
    <2> QED
      BY <1>16, <2>1 DEF RecordErr, maps
  <1>17. CASE WriteLetter(p)
    <2>1. \A s \in RowIds : Tries(s)' <= Tries(s)
      BY <1>17, <1>0, TriesFall DEF WriteLetter, maps
    <2> QED
      BY <1>17, <2>1 DEF WriteLetter, locals, maps
  <1>18. CASE WriteTerminal(p)
    <2>1. \A s \in RowIds : Tries(s)' <= Tries(s)
      BY <1>18, CurIsRow, TriesFall DEF WriteTerminal
    <2> QED
      BY <1>18, CurIsRow, <2>1 DEF WriteTerminal, insert_delivered, Outcomes
  <1>19. CASE Persist(p)
    <2>1. \A s \in RowIds : Tries(s)' <= Tries(s)
      BY <1>19, <1>0, TriesFall DEF Persist, maps
    <2>2. bumped[p] <= fails[cur[p]] /\ cur[p] \in RowIds
      BY <1>19, CurIsRow DEF BudgetInv, Stored, Persist
    <2>3. \A r \in RowIds : disk'[r].tries = disk[r].tries \/ disk'[r].tries <= fails[r]
      BY <1>19, <2>2 DEF Persist
    <2>4. bumped[p] >= MaxAttempts => fails[cur[p]] >= MaxAttempts
      <3>1. bumped[p] \in Nat /\ fails[cur[p]] \in Nat /\ MaxAttempts \in Nat
        BY <2>2, ConstantsAssumption DEF TypeSeen
      <3> QED
        BY <2>2, <3>1
    <2>5. CASE NextRow(p, "persist")
      BY <1>19, <2>1, <2>3, <2>5 DEF Persist
    <2>6. CASE bumped[p] >= MaxAttempts /\ Step(p, "persist", "exhaust") /\ UNCHANGED locals
      BY <1>19, <2>1, <2>3, <2>4, <2>6 DEF Persist, locals
    <2> QED
      BY <1>19, <2>5, <2>6 DEF Persist
  <1>20. CASE emit_delivery_failure_error_card(p)
    <2>1. \A s \in RowIds : Tries(s)' <= Tries(s)
      BY <1>20, CurIsRow, TriesFall DEF emit_delivery_failure_error_card, maps
    <2>2. UNCHANGED <<fails, disk, records, primed>> /\ NextRow(p, "card")
      BY <1>20 DEF emit_delivery_failure_error_card, insert_message_out
    <2> QED
      BY <1>20, <2>1, <2>2
  <1>21. CASE FinishPass(p)
    <2>1. \A s \in RowIds : Tries(s)' <= Tries(s)
      BY <1>21, <1>0, TriesFall DEF FinishPass, maps
    <2> QED
      BY <1>21, <2>1 DEF FinishPass, maps
  <1>22. CASE AbortPass(p)
    <2>1. \A s \in RowIds : Tries(s)' <= Tries(s)
      BY <1>22, <1>0, TriesFall DEF AbortPass, maps
    <2> QED
      BY <1>22, <2>1 DEF AbortPass, maps
  <1>23. CASE Panic(p)
    <2>1. \A s \in RowIds : Tries(s)' <= Tries(s)
      BY <1>23, <1>0, TriesFall DEF Panic, maps
    <2> QED
      BY <1>23, <2>1 DEF Panic, maps
  <1> QED
    BY <1>1, <1>2, <1>3, <1>4, <1>5, <1>6, <1>7, <1>8, <1>9, <1>10, <1>11, <1>12, <1>13, <1>14,
       <1>15, <1>16, <1>17, <1>18, <1>19, <1>20, <1>21, <1>22, <1>23 DEF PassStep, Fault

\* A failed send is one more on the account of its row.
LEMMA SendFailsStep ==
    ASSUME TypeOK, TypeOK', InHand, BudgetInv, NEW p \in Passes, SendFails(p)
    PROVE  BudgetInv'
  <1> DEFINE r == cur[p]
  <1>1. /\ r \in RowIds /\ pc[p] = "send" /\ pc' = [pc EXCEPT ![p] = "release"]
        /\ UNCHANGED <<cur, bumped, retries, disk, why, primed>>
        /\ fails' = [fails EXCEPT ![r] = @ + 1] /\ \A q \in Passes \ {p} : res'[q] = res[q]
    BY CurIsRow DEF SendFails, Return, Step, maps, outbound, records, TypeOK, TypeLocals
  <1> HIDE DEF r
  <1>2. /\ \A s \in RowIds : fails[s] \in Nat /\ fails'[s] \in Nat
        /\ \A s \in RowIds : fails'[s] = IF s = r THEN fails[s] + 1 ELSE fails[s]
    BY <1>1 DEF TypeOK, TypeSeen
  <1>3. \A s \in RowIds : fails[s] <= fails'[s]
    BY <1>2
  <1>4. \A q \in Passes : pc[q] \notin {"idle", "scan"} => cur[q] \in RowIds
    BY CurIsRow
  <1>5. Charged'
    <2> SUFFICES ASSUME NEW s \in RowIds PROVE Tries(s)' + Cardinality(Owe(s)') <= fails'[s]
      BY DEF Charged
    <2>1. Tries(s)' = Tries(s) /\ Tries(s) \in Nat
      BY <1>1, TriesType DEF Tries
    <2>2. Tries(s) + Cardinality(Owe(s)) <= fails[s]
      BY DEF BudgetInv, Charged
    <2>3. CASE s # r
      <3>1. Owe(s)' = Owe(s)
        BY <1>1, <2>3 DEF Owe, Owing, r, TypeOK, TypePc
      <3> QED
        BY <1>2, <2>1, <2>2, <2>3, <3>1
    <2>4. CASE s = r
      <3>1. Owe(s)' \subseteq Owe(s) \cup {p}
        BY <1>1 DEF Owe, Owing, TypeOK, TypePc
      <3>2. /\ IsFiniteSet(Owe(s) \cup {p})
            /\ Cardinality(Owe(s) \cup {p}) <= Cardinality(Owe(s)) + 1
        <4>1. IsFiniteSet(Owe(s)) /\ Cardinality(Owe(s)) \in Nat
          BY OweFinite
        <4>2. /\ IsFiniteSet(Owe(s) \cup {p})
              /\ Cardinality(Owe(s) \cup {p}) =
                   IF p \in Owe(s) THEN Cardinality(Owe(s)) ELSE Cardinality(Owe(s)) + 1
          BY <4>1, FS_AddElement, Zenon
        <4> QED
          BY <4>1, <4>2
      <3>3. Cardinality(Owe(s)') <= Cardinality(Owe(s) \cup {p})
        BY <3>1, <3>2, FS_Subset
      <3>4. /\ Cardinality(Owe(s)') \in Nat /\ Cardinality(Owe(s)) \in Nat
            /\ Cardinality(Owe(s) \cup {p}) \in Nat
        BY <3>2, OweFinite, OweFiniteNext, FS_CardinalityType
      <3> QED
        BY <1>2, <2>1, <2>2, <2>4, <3>2, <3>3, <3>4
    <2> QED
      BY <2>3, <2>4
  <1>6. Stored'
    <2>1. \A s \in RowIds : disk'[s].tries <= fails'[s]
      <3> SUFFICES ASSUME NEW s \in RowIds PROVE disk[s].tries <= fails'[s]
        BY <1>1
      <3>1. disk[s].tries \in Nat /\ disk[s].tries <= fails[s]
        BY DEF TypeOK, TypeOutbound, BudgetInv, Stored
      <3> QED
        BY <1>2, <1>3, <3>1
    <2>2. ASSUME NEW q \in Passes, pc'[q] = "persist" PROVE bumped'[q] <= fails'[cur'[q]]
      <3>1. pc[q] = "persist" /\ cur'[q] = cur[q] /\ bumped'[q] = bumped[q] /\ cur[q] \in RowIds
        BY <1>1, <1>4, <2>2 DEF TypeOK, TypePc
      <3>2. bumped[q] \in Nat /\ bumped[q] <= fails[cur[q]]
        BY <3>1 DEF TypeOK, TypeLocals, BudgetInv, Stored
      <3> QED
        BY <1>2, <1>3, <3>1, <3>2
    <2> QED
      BY <2>1, <2>2 DEF Stored
  <1>7. Exhausting'
    <2> SUFFICES ASSUME NEW q \in Passes, pc'[q] = "exhaust" PROVE fails'[cur[q]] >= MaxAttempts
      BY <1>1 DEF Exhausting
    <2>1. pc[q] = "exhaust" /\ cur[q] \in RowIds
      BY <1>1, <1>4 DEF TypeOK, TypePc
    <2>2. fails[cur[q]] >= MaxAttempts /\ MaxAttempts \in Nat
      BY <2>1, ConstantsAssumption DEF BudgetInv, Exhausting
    <2> QED
      BY <1>2, <1>3, <2>1, <2>2
  <1>8. Cold'
    BY <1>1 DEF BudgetInv, Cold
  <1>9. NeverGivesUpEarly'
    <2> SUFFICES ASSUME NEW s \in RowIds, why[s] = "exhausted" PROVE fails'[s] >= MaxAttempts
      BY <1>1 DEF NeverGivesUpEarly
    <2>1. fails[s] >= MaxAttempts /\ MaxAttempts \in Nat
      BY ConstantsAssumption DEF BudgetInv, NeverGivesUpEarly
    <2> QED
      BY <1>2, <1>3, <2>1
  <1> QED
    BY <1>5, <1>6, <1>7, <1>8, <1>9 DEF BudgetInv

\* bump_retry moves one failed send from the pass to the count.
LEMMA BumpStep ==
    ASSUME TypeOK, TypeOK', InHand, BudgetInv, NEW p \in Passes, bump_retry(p)
    PROVE  BudgetInv'
  <1>0. PICK r \in RowIds : r = cur[p]
    BY CurIsRow DEF bump_retry, Step
  <1>1. /\ r \in RowIds /\ pc[p] = "settle" /\ res[p] = "retry" /\ pc' = [pc EXCEPT ![p] = "persist"]
        /\ UNCHANGED <<cur, res, disk, why, primed, fails>>
    BY <1>0 DEF bump_retry, Step, outbound, records, seen
  <1>2. Entry(r).tries = Tries(r)
    BY DEF Entry, Tries
  <1>3. /\ \A s \in RowIds \ {r} : Tries(s)' = Tries(s)
        /\ Tries(r)' = Tries(r) + 1
        /\ bumped' = [bumped EXCEPT ![p] = Tries(r) + 1]
    BY <1>0, <1>1, <1>2 DEF bump_retry, Tries, TypeOK, TypeRetries
  <1>4. p \in Owe(r) /\ p \notin Owe(r)' /\ Owe(r)' = Owe(r) \ {p}
    BY <1>0, <1>1 DEF Owe, Owing, TypeOK, TypePc
  <1>5. \A s \in RowIds \ {r} : Owe(s)' = Owe(s)
    BY <1>0, <1>1 DEF Owe, Owing, TypeOK, TypePc
  <1>6. /\ \A s \in RowIds : Cardinality(Owe(s)) \in Nat /\ Cardinality(Owe(s)') \in Nat
        /\ \A s \in RowIds : Tries(s) \in Nat /\ fails[s] \in Nat
    BY OweFinite, OweFiniteNext, TriesType DEF TypeOK, TypeSeen
  <1>7. Cardinality(Owe(r)') = Cardinality(Owe(r)) - 1
    BY <1>4, OweFinite, FS_RemoveElement
  <1>8. \A s \in RowIds : Tries(s) + Cardinality(Owe(s)) <= fails[s]
    BY DEF BudgetInv, Charged
  <1>9. Charged'
    <2> SUFFICES ASSUME NEW s \in RowIds PROVE Tries(s)' + Cardinality(Owe(s)') <= fails[s]
      BY <1>1 DEF Charged
    <2>1. CASE s # r
      BY <1>3, <1>5, <1>8, <2>1
    <2>2. CASE s = r
      BY <1>3, <1>6, <1>7, <1>8, <2>2
    <2> QED
      BY <2>1, <2>2
  <1>10. Stored'
    <2>1. Tries(r) + 1 <= fails[r]
      BY <1>1, <1>6, <1>7, <1>8
    <2> QED
      BY <1>0, <1>1, <1>3, <2>1 DEF BudgetInv, Stored, TypeOK, TypePc, TypeLocals
  <1>11. Exhausting' /\ Cold' /\ NeverGivesUpEarly'
    BY <1>1 DEF BudgetInv, Exhausting, Cold, NeverGivesUpEarly, TypeOK, TypePc
  <1> QED
    BY <1>9, <1>10, <1>11 DEF BudgetInv

\* The first pass of a host lifetime loads the counts, before any pass owes one.
LEMMA BeginBudget ==
    ASSUME TypeOK, InHand, BudgetInv, NEW p \in Passes, BeginPass(p)
    PROVE  BudgetKept
  <1>1. /\ UNCHANGED <<fails, disk, why, cur, res, bumped>> /\ primed'
        /\ pc[p] = "idle" /\ pc' = [pc EXCEPT ![p] = "scan"]
    BY DEF BeginPass, Step, seen, outbound, records, locals
  <1>2. ASSUME NEW r \in RowIds
        PROVE  \/ Tries(r)' <= Tries(r)
               \/ Tries(r)' <= fails[r] /\ \A q \in Passes : ~ Owing(q)
    <2>1. retries'[r] = Rebase(prime_retry_cache(r), p)
      BY DEF BeginPass
    <2>2. Tries(r) \in Nat /\ retries[r] \in RetryRec
      BY TriesType DEF TypeOK, TypeRetries
    <2>3. CASE prime_retry_cache(r) = retries[r]
      <3>1. retries'[r].on = retries[r].on /\ retries'[r].tries = retries[r].tries
        BY <2>1, <2>2, <2>3 DEF Rebase, RetryRec
      <3> QED
        BY <2>2, <3>1 DEF Tries
    <2>4. CASE ~ primed /\ prime_retry_cache(r).tries = disk[r].tries /\ prime_retry_cache(r).on
               /\ prime_retry_cache(r) = [on |-> TRUE, tries |-> disk[r].tries, sent |-> 0,
                                          open |-> disk[r].open, ahead |-> {}]
      <3>1. Tries(r)' = disk[r].tries
        BY <2>1, <2>4 DEF Rebase, Tries
      <3> QED
        BY <2>4, <3>1 DEF BudgetInv, Stored, Cold, Owing
    <2> QED
      BY <2>3, <2>4 DEF prime_retry_cache
  <1> QED
    BY <1>1, <1>2 DEF BudgetKept, Owing, TypeOK, TypePc

LEMMA BudgetStep ==
    ASSUME TypeOK, TypeOK', InHand, BudgetInv, [Next]_vars
    PROVE  BudgetInv'
  <1>1. ASSUME NEW p \in Passes, PassStep(p) \/ Fault(p) \/ BeginPass(p) PROVE BudgetInv'
    BY <1>1, QuietBudget, KeptBudget, SendFailsStep, BumpStep, BeginBudget
  <1>2. ASSUME UNCHANGED <<retries, fails, pc, res, cur, bumped, primed, why>>,
               \A r \in RowIds : disk'[r].tries = disk[r].tries
        PROVE  BudgetInv'
    <2>1. \A r \in RowIds : Tries(r)' <= Tries(r)
      BY <1>2, TriesType DEF Tries
    <2>2. BudgetKept
      BY <1>2, <2>1 DEF BudgetKept, Owing, BudgetInv, Cold
    <2> QED
      BY <2>2, KeptBudget
  <1>3. ASSUME NEW r \in RowIds, AgeRow(r) \/ ClaimAges(r) \/ ReplayInsert(r) PROVE BudgetInv'
    BY <1>2, <1>3 DEF AgeRow, ClaimAges, ReplayInsert, insert_message_out, outbound, records, maps,
       locals, seen
  <1>4. ASSUME NEW r \in RowIds, WindowEnds(r) PROVE BudgetInv'
    <2>1. UNCHANGED <<fails, pc, res, cur, bumped, primed, why>>
      BY <1>4 DEF WindowEnds, records, locals, seen
    <2>2. \A s \in RowIds : disk'[s].tries = disk[s].tries
      BY <1>4 DEF WindowEnds, TypeOK, TypeOutbound
    <2>3. \A s \in RowIds : retries'[s].on = retries[s].on /\ retries'[s].tries = retries[s].tries
      BY <1>4 DEF WindowEnds, TypeOK, TypeRetries
    <2>4. \A s \in RowIds : Tries(s)' <= Tries(s)
      BY <2>3, TriesType DEF Tries
    <2>5. BudgetKept
      BY <2>1, <2>2, <2>4 DEF BudgetKept, Owing, BudgetInv, Cold
    <2> QED
      BY <2>5, KeptBudget
  <1>5. CASE ReplayDelete \/ Emit \/ SetRouting \/ UNCHANGED vars
    BY <1>2, <1>5 DEF ReplayDelete, Emit, SetRouting, insert_message_out, outbound, records, maps,
       locals, seen, vars
  <1>6. CASE HostRestart
    <2>1. \A s \in RowIds : Tries(s)' = 0
      BY <1>6 DEF HostRestart, Tries, NoRetry
    <2>2. \A s \in RowIds : Tries(s)' <= Tries(s)
      BY <2>1, TriesType
    <2>3. BudgetKept
      BY <1>6, <2>2 DEF HostRestart, BudgetKept, Owing, outbound, records, seen
    <2> QED
      BY <2>3, KeptBudget
  <1> QED
    BY <1>1, <1>3, <1>4, <1>5, <1>6 DEF Next, Clock

LEMMA BudgetInit == ASSUME Init PROVE BudgetInv
  <1>1. ASSUME NEW r \in RowIds PROVE Tries(r) + Cardinality(Owe(r)) <= fails[r]
    <2>1. Owe(r) = {} /\ Tries(r) = 0 /\ fails[r] = 0
      BY DEF Init, Owe, Owing, Tries, NoRetry
    <2> QED
      BY <2>1, FS_EmptySet
  <1>2. Charged
    BY <1>1 DEF Charged
  <1>3. Stored
    BY DEF Init, Stored
  <1> QED
    BY <1>2, <1>3 DEF Init, BudgetInv, Exhausting, Cold, NeverGivesUpEarly

\* A row is given up as exhausted only after MAX_DELIVERY_ATTEMPTS sends of it
\* failed: no restart, stale pass or double bump counts a send twice.
THEOREM NoRowGivenUpEarly == Spec => []NeverGivesUpEarly
  <1>1. TypeOK /\ TypeOK' /\ InHand /\ BudgetInv /\ [Next]_vars => BudgetInv'
    BY BudgetStep
  <1>2. BudgetInv => NeverGivesUpEarly
    BY DEF BudgetInv
  <1>3. Init => BudgetInv
    BY BudgetInit
  <1> QED
    BY <1>1, <1>2, <1>3, TypeSafety, PTL DEF Spec

-----------------------------------------------------------------------------
(* Exhaustion is reported once, when one loop runs.  With two, the claim is *)
(* gone before the outcome is settled and a pass with an older snapshot may *)
(* find the budget spent: the model has that behaviour.                     *)

SingleLoop == \A p, q \in Passes : p = q

\* The pass has still to settle the row in hand.
Unsettled(p) ==
    \/ pc[p] \in {"claim", "guard", "dispatch", "send", "record", "persist", "exhaust", "terminal"}
    \/ pc[p] \in {"release", "settle"} /\ res[p] # "ok"

\* The snapshot and the row in hand have no record, and a row without one has
\* no card; the card is written once the record is, and the pass moves on.
Snapshot ==
    /\ \A p \in Passes : \A r \in todo[p] : delivered[r] = "none"
    /\ \A p \in Passes : cur[p] \notin todo[p]
    /\ \A p \in Passes : pc[p] \in {"idle", "scan"} => cur[p] = NoRow
    /\ \A p \in Passes : Unsettled(p) => delivered[cur[p]] = "none"
Carded ==
    /\ \A r \in RowIds : delivered[r] = "none" => cards[r] = 0
    /\ \A p \in Passes : pc[p] = "card" => delivered[cur[p]] # "none" /\ cards[cur[p]] = 0

OnceInv == Snapshot /\ Carded /\ ExhaustedOnce

\* A step that writes no record and no card, and takes its row from the snapshot.
OnceKept ==
    /\ UNCHANGED <<delivered, cards>>
    /\ \A q \in Passes : todo'[q] \subseteq todo[q] /\ cur'[q] \notin todo'[q]
    /\ \A q \in Passes : Unsettled(q)' => cur'[q] \in todo[q] \/ (Unsettled(q) /\ cur'[q] = cur[q])
    /\ \A q \in Passes : pc'[q] \in {"idle", "scan"} => cur'[q] = NoRow
    /\ \A q \in Passes : pc'[q] = "card" => pc[q] = "card" /\ cur'[q] = cur[q]

LEMMA KeptOnce == ASSUME OnceInv, OnceKept PROVE OnceInv'
  <1>1. Snapshot'
    BY DEF OnceInv, OnceKept, Snapshot
  <1>2. Carded'
    BY DEF OnceInv, OnceKept, Carded
  <1>3. ExhaustedOnce'
    BY DEF OnceInv, OnceKept, ExhaustedOnce
  <1> QED
    BY <1>1, <1>2, <1>3 DEF OnceInv

\* No row is numbered 0, so clearing the row in hand is safe.
LEMMA NoRowListed == ASSUME TypeOK PROVE \A p \in Passes : NoRow \notin todo[p]
  <1>1. NoRow \notin RowIds
    BY DEF RowIds, NoRow
  <1> QED
    BY <1>1 DEF TypeOK, TypeScope

LEMMA QuietOnce ==
    ASSUME TypeOK, InHand, OnceInv, NEW p \in Passes, PassStep(p) \/ Fault(p),
           ~ RecordOk(p), ~ record_exhausted_row(p), ~ emit_delivery_failure_error_card(p),
           ~ SettleFailed(p), ~ WriteTerminal(p)
    PROVE  OnceKept
  <1>0. /\ \A q \in Passes : cur[q] \notin todo[q]
        /\ \A q \in Passes : NoRow \notin todo[q]
        /\ \A q \in Passes : pc[q] \in {"idle", "scan"} => cur[q] = NoRow
    BY NoRowListed DEF OnceInv, Snapshot
  <1> USE <1>0 DEF OnceKept, Unsettled, Step, TypeOK, TypePc, TypeScope, TypeLocals, Clear,
          NextRow, Return, EndPass, records, seen, scope, locals
  <1>1. CASE ScanRow(p)
    BY <1>1 DEF ScanRow
  <1>2. CASE SkipClaimed(p)
    BY <1>2 DEF SkipClaimed
  <1>3. CASE ClaimRow(p)
    BY <1>3 DEF ClaimRow
  <1>4. CASE GiveUpSpent(p)
    BY <1>4 DEF GiveUpSpent
  <1>5. CASE Proceed(p)
    BY <1>5 DEF Proceed
  <1>6. CASE Unroutable(p)
    BY <1>6 DEF Unroutable
  <1>7. CASE Adapterless(p)
    BY <1>7 DEF Adapterless
  <1>8. CASE Resume(p)
    BY <1>8 DEF Resume
  <1>9. CASE SendPart(p)
    BY <1>9 DEF SendPart
  <1>10. CASE SendFails(p)
    BY <1>10 DEF SendFails
  <1>11. CASE Release(p)
    BY <1>11 DEF Release
  <1>12. CASE SettleOk(p)
    BY <1>12 DEF SettleOk
  <1>13. CASE bump_retry(p)
    BY <1>13 DEF bump_retry
  <1>14. CASE Persist(p)
    <2>1. CASE NextRow(p, "persist")
      BY <1>14, <2>1 DEF Persist
    <2>2. CASE Step(p, "persist", "exhaust") /\ UNCHANGED <<scope, locals>>
      BY <1>14, <2>2 DEF Persist
    <2> QED
      BY <1>14, <2>1, <2>2 DEF Persist
  <1>15. CASE ParkRow(p)
    BY <1>15 DEF ParkRow
  <1>16. CASE WriteLetter(p)
    BY <1>16 DEF WriteLetter
  <1>17. CASE FinishPass(p)
    BY <1>17 DEF FinishPass
  <1>18. CASE RecordErr(p)
    BY <1>18 DEF RecordErr
  <1>19. CASE AbortPass(p)
    BY <1>19 DEF AbortPass
  <1>20. CASE Panic(p)
    BY <1>20 DEF Panic
  <1> QED
    BY <1>1, <1>2, <1>3, <1>4, <1>5, <1>6, <1>7, <1>8, <1>9, <1>10, <1>11, <1>12, <1>13, <1>14,
       <1>15, <1>16, <1>17, <1>18, <1>19, <1>20 DEF PassStep, Fault

\* A record is written for the row in hand, which no other pass has listed.
LEMMA SettledOnce ==
    ASSUME TypeOK, SingleLoop, OnceInv, NEW p \in Passes, NEW r \in RowIds, r = cur[p], Unsettled(p),
           NEW status \in {"ok", "failed"}, NEW reason, insert_delivered(r, status, reason),
           cards' = cards, todo' = todo, cur'[p] \in {r, NoRow}, ~ Unsettled(p)',
           pc'[p] = "card" => cur'[p] = r, pc'[p] \in {"idle", "scan"} => cur'[p] = NoRow
    PROVE  OnceInv'
  <1>1. \A q \in Passes : q = p
    BY DEF SingleLoop
  <1>2. delivered[r] = "none" /\ cards[r] = 0 /\ r \notin todo[p]
    BY DEF OnceInv, Snapshot, Carded
  <1>3. delivered'[r] = status /\ \A s \in RowIds \ {r} : delivered'[s] = delivered[s]
    BY <1>2 DEF insert_delivered, TypeOK, TypeRecords
  <1>4. todo[p] \subseteq RowIds /\ NoRow \notin todo[p]
    BY NoRowListed DEF TypeOK, TypeScope
  <1>5. Snapshot'
    BY <1>1, <1>2, <1>3, <1>4 DEF OnceInv, Snapshot
  <1>6. Carded'
    BY <1>1, <1>2, <1>3 DEF OnceInv, Carded
  <1> QED
    BY <1>5, <1>6 DEF OnceInv, ExhaustedOnce

\* The card follows its record.
LEMMA CardOnce ==
    ASSUME TypeOK, InHand, SingleLoop, OnceInv, NEW p \in Passes, emit_delivery_failure_error_card(p)
    PROVE  OnceInv'
  <1>0. PICK r \in RowIds : r = cur[p]
    BY CurIsRow DEF emit_delivery_failure_error_card, NextRow, Step
  <1>1. \A q \in Passes : q = p
    BY DEF SingleLoop
  <1>2. /\ pc[p] = "card" /\ pc'[p] = "scan" /\ cur'[p] = NoRow /\ todo' = todo
        /\ delivered' = delivered
        /\ cards' = cards \/ cards' = [cards EXCEPT ![r] = @ + 1]
    BY <1>0 DEF emit_delivery_failure_error_card, NextRow, Step, Clear, scope, records, TypeOK,
       TypePc, TypeLocals
  <1>3. delivered[r] # "none" /\ cards[r] = 0
    BY <1>0, <1>2 DEF OnceInv, Carded
  <1>4. cards'[r] \in {0, 1} /\ \A s \in RowIds \ {r} : cards'[s] = cards[s]
    BY <1>2, <1>3 DEF TypeOK, TypeSeen
  <1>5. Snapshot'
    BY <1>1, <1>2, NoRowListed DEF OnceInv, Snapshot, Unsettled
  <1>6. Carded'
    BY <1>1, <1>2, <1>3, <1>4 DEF OnceInv, Carded
  <1>7. ExhaustedOnce'
    BY <1>4 DEF OnceInv, ExhaustedOnce
  <1> QED
    BY <1>5, <1>6, <1>7 DEF OnceInv

LEMMA OnceStep ==
    ASSUME TypeOK, InHand, SingleLoop, OnceInv, [Next]_vars
    PROVE  OnceInv'
  <1> USE DEF Step, TypeOK, TypePc, TypeLocals, Clear, NextRow, Return, seen, scope, locals
  <1>1. ASSUME NEW p \in Passes, RecordOk(p) PROVE OnceInv'
    <2>1. PICK r \in RowIds : r = cur[p]
      BY <1>1, CurIsRow DEF RecordOk
    <2>2. /\ Unsettled(p) /\ insert_delivered(r, "ok", "sent")
          /\ cards' = cards /\ todo' = todo /\ cur'[p] = r
          /\ pc'[p] = "release" /\ res'[p] = "ok"
      BY <1>1, <2>1 DEF RecordOk, Unsettled
    <2>3. ~ Unsettled(p)'
      BY <2>2 DEF Unsettled
    <2> QED
      BY <2>1, <2>2, <2>3, SettledOnce
  <1>2. ASSUME NEW p \in Passes, record_exhausted_row(p) PROVE OnceInv'
    <2>1. PICK r \in RowIds : r = cur[p]
      BY <1>2, CurIsRow DEF record_exhausted_row
    <2>2. /\ Unsettled(p) /\ insert_delivered(r, "failed", "exhausted")
          /\ cards' = cards /\ todo' = todo /\ cur'[p] = r /\ pc'[p] = "card"
      BY <1>2, <2>1 DEF record_exhausted_row, Unsettled
    <2>3. ~ Unsettled(p)'
      BY <2>2 DEF Unsettled
    <2> QED
      BY <2>1, <2>2, <2>3, SettledOnce
  <1>3. ASSUME NEW p \in Passes, SettleFailed(p) \/ WriteTerminal(p) PROVE OnceInv'
    <2>1. PICK r \in RowIds : r = cur[p]
      BY <1>3, CurIsRow DEF SettleFailed, WriteTerminal
    <2>2. /\ Unsettled(p) /\ insert_delivered(r, "failed", res[p])
          /\ cards' = cards /\ todo' = todo /\ cur'[p] = NoRow /\ pc'[p] = "scan"
      BY <1>3, <2>1 DEF SettleFailed, WriteTerminal, Unsettled
    <2>3. ~ Unsettled(p)'
      BY <2>2 DEF Unsettled
    <2> QED
      BY <2>1, <2>2, <2>3, SettledOnce
  <1>4. ASSUME NEW p \in Passes, PassStep(p) \/ Fault(p) PROVE OnceInv'
    BY <1>1, <1>2, <1>3, <1>4, CardOnce, QuietOnce, KeptOnce
  <1>5. ASSUME NEW p \in Passes, BeginPass(p) PROVE OnceInv'
    <2>1. /\ UNCHANGED <<delivered, cards, cur, res>>
          /\ pc[p] = "idle" /\ pc' = [pc EXCEPT ![p] = "scan"]
          /\ todo' = [todo EXCEPT ![p] = Undelivered]
      BY <1>5 DEF BeginPass, records
    <2>2. cur[p] = NoRow /\ \A q \in Passes : q = p
      BY <2>1 DEF OnceInv, Snapshot, SingleLoop
    <2>3. Undelivered \subseteq RowIds /\ \A r \in Undelivered : delivered[r] = "none"
      BY ConstantsAssumption DEF Undelivered, TypeOutbound, RowIds
    <2>4. NoRow \notin RowIds
      BY DEF RowIds, NoRow
    <2>5. todo'[p] = Undelivered /\ pc'[p] = "scan"
      BY <2>1 DEF TypeScope
    <2>6. Snapshot'
      BY <2>1, <2>2, <2>3, <2>4, <2>5 DEF Snapshot, Unsettled
    <2>7. Carded' /\ ExhaustedOnce'
      BY <2>1, <2>2, <2>5 DEF OnceInv, Carded, ExhaustedOnce
    <2> QED
      BY <2>6, <2>7 DEF OnceInv
  <1>6. ASSUME UNCHANGED <<delivered, cards, pc, todo, cur, res>> PROVE OnceInv'
    <2>1. OnceKept
      BY <1>6 DEF OnceKept, OnceInv, Snapshot, Unsettled
    <2> QED
      BY <2>1, KeptOnce
  <1>7. ASSUME NEW r \in RowIds, Clock(r) \/ ReplayInsert(r) PROVE OnceInv'
    BY <1>6, <1>7 DEF Clock, AgeRow, WindowEnds, ClaimAges, ReplayInsert, records
  <1>8. CASE ReplayDelete \/ Emit \/ SetRouting \/ UNCHANGED vars
    BY <1>6, <1>8 DEF ReplayDelete, Emit, SetRouting, records, vars
  <1>9. CASE HostRestart
    <2>1. OnceKept
      BY <1>9 DEF HostRestart, OnceKept, Unsettled, records
    <2> QED
      BY <2>1, KeptOnce
  <1> QED
    BY <1>4, <1>5, <1>7, <1>8, <1>9 DEF Next

LEMMA OnceInit == Init => OnceInv
  BY DEF Init, OnceInv, Snapshot, Carded, ExhaustedOnce, Unsettled

\* A row that exhausts its retries is reported to the user once, over
\* restarts, panics and failed writes, as long as one loop delivers.
THEOREM ExhaustionReportedOnce == SingleLoop => (Spec => []ExhaustedOnce)
  <1> SUFFICES ASSUME SingleLoop PROVE Spec => []ExhaustedOnce
    OBVIOUS
  <1>1. TypeOK /\ InHand /\ OnceInv /\ [Next]_vars => OnceInv'
    BY OnceStep
  <1>2. OnceInv => ExhaustedOnce
    BY DEF OnceInv
  <1> QED
    BY <1>1, <1>2, OnceInit, TypeSafety, PTL DEF Spec
-----------------------------------------------------------------------------
(* The budget survives restarts, when one loop runs.  Of a row without a    *)
(* record every failed send is counted, in the map and on the row, but for  *)
(* the one in hand and for one per crash or fault.  With two loops their    *)
(* counts may be stored out of order, and a restart loads the smaller one.  *)

\* The pass returned a failure that no count holds yet; or only the map does.
Due(p) == pc[p] \in {"release", "settle"} /\ res[p] \in {"retry", "system", "hard"}
Late(p) == Due(p) \/ pc[p] = "persist"

\* The count the next attempt goes by: a pass begins by loading the stored one.
Known(r) == IF primed THEN Tries(r) ELSE disk[r].tries

Ledger ==
    \A r \in RowIds : delivered[r] = "none" =>
        /\ fails[r] <= Known(r) + 1 + crashes + faults
        /\ (\A p \in Passes : Due(p) => cur[p] # r) => fails[r] <= Known(r) + crashes + faults
        /\ fails[r] <= disk[r].tries + 1 + crashes + faults
        /\ (\A p \in Passes : Late(p) => cur[p] # r) => fails[r] <= disk[r].tries + crashes + faults

\* What the steps between two counts rely on: a send starts within the budget,
\* the count to store is the map's, a row returned as ok has its record, and
\* the map is empty until it is loaded.
Below == \A p \in Passes : pc[p] \in {"dispatch", "send"} => Tries(cur[p]) < MaxAttempts
Noted == \A p \in Passes : pc[p] = "persist" => bumped[p] = Tries(cur[p])
Acked ==
    \A p \in Passes : pc[p] \in {"release", "settle"} /\ res[p] = "ok" => delivered[cur[p]] # "none"
Unloaded == ~ primed => \A r \in RowIds : ~ retries[r].on

SpendInv == Ledger /\ Below /\ Noted /\ Acked /\ Unloaded /\ AttemptBudget

\* A step in which no send fails and no count of an open row moves back.  A
\* failure in hand stays in hand, or its row gets a record, or a fault is charged.
SpendKept ==
    /\ UNCHANGED <<fails, primed, crashes>> /\ faults <= faults'
    /\ \A r \in RowIds : delivered'[r] = "none" =>
         delivered[r] = "none" /\ Tries(r)' = Tries(r) /\ disk'[r].tries = disk[r].tries
    /\ \A q \in Passes : Due(q) =>
         \/ Due(q)' /\ cur'[q] = cur[q]
         \/ delivered'[cur[q]] # "none" \/ faults < faults'
    /\ \A q \in Passes : Late(q) =>
         \/ Late(q)' /\ cur'[q] = cur[q]
         \/ delivered'[cur[q]] # "none" \/ faults < faults'
    /\ Below' /\ Noted' /\ Acked' /\ Unloaded'

LEMMA SpendNumbers ==
    ASSUME TypeOK
    PROVE  /\ \A r \in RowIds : fails[r] \in Nat /\ Tries(r) \in Nat /\ disk[r].tries \in Nat
           /\ crashes \in Nat /\ faults \in Nat /\ MaxAttempts \in Nat
           /\ \A r \in RowIds : Known(r) \in Nat
  BY TriesType, ConstantsAssumption DEF TypeOK, TypeSeen, TypeOutbound, TypeTrouble, Known

LEMMA SpendNumbersNext ==
    ASSUME TypeOK'
    PROVE  /\ \A r \in RowIds : fails'[r] \in Nat /\ Tries(r)' \in Nat /\ disk'[r].tries \in Nat
           /\ crashes' \in Nat /\ faults' \in Nat
           /\ \A r \in RowIds : Known(r)' \in Nat
  BY DEF TypeOK, TypeSeen, TypeOutbound, TypeTrouble, Known, Tries, TypeRetries, RetryRec

LEMMA KeptSpend ==
    ASSUME TypeOK, TypeOK', SpendInv, SpendKept
    PROVE  SpendInv'
  <1>0. /\ \A r \in RowIds : fails[r] \in Nat /\ disk[r].tries \in Nat /\ Known(r) \in Nat
        /\ crashes \in Nat /\ faults \in Nat /\ faults' \in Nat /\ MaxAttempts \in Nat
    BY SpendNumbers, SpendNumbersNext
  <1>1. Ledger'
    <2> SUFFICES ASSUME NEW r \in RowIds, delivered'[r] = "none"
                 PROVE  /\ fails'[r] <= Known(r)' + 1 + crashes' + faults'
                        /\ (\A p \in Passes : Due(p)' => cur'[p] # r)
                             => fails'[r] <= Known(r)' + crashes' + faults'
                        /\ fails'[r] <= disk'[r].tries + 1 + crashes' + faults'
                        /\ (\A p \in Passes : Late(p)' => cur'[p] # r)
                             => fails'[r] <= disk'[r].tries + crashes' + faults'
      BY DEF Ledger
    <2>1. /\ delivered[r] = "none" /\ Known(r)' = Known(r) /\ disk'[r].tries = disk[r].tries
          /\ fails' = fails /\ crashes' = crashes /\ faults <= faults'
      BY DEF SpendKept, Known
    <2>2. /\ fails[r] <= Known(r) + 1 + crashes + faults
          /\ (\A p \in Passes : Due(p) => cur[p] # r) => fails[r] <= Known(r) + crashes + faults
          /\ fails[r] <= disk[r].tries + 1 + crashes + faults
          /\ (\A p \in Passes : Late(p) => cur[p] # r)
               => fails[r] <= disk[r].tries + crashes + faults
      BY <2>1 DEF SpendInv, Ledger
    <2>3. ASSUME \A p \in Passes : Due(p)' => cur'[p] # r
          PROVE  (\A p \in Passes : Due(p) => cur[p] # r) \/ faults < faults'
      BY <2>3 DEF SpendKept
    <2>4. ASSUME \A p \in Passes : Late(p)' => cur'[p] # r
          PROVE  (\A p \in Passes : Late(p) => cur[p] # r) \/ faults < faults'
      BY <2>4 DEF SpendKept
    <2> QED
      BY <1>0, <2>1, <2>2, <2>3, <2>4
  <1>2. AttemptBudget'
    BY <1>0 DEF SpendInv, SpendKept, AttemptBudget
  <1> QED
    BY <1>1, <1>2 DEF SpendInv, SpendKept

\* The counts follow the map: the progress closure leaves them alone.
LEMMA TriesSame ==
    ASSUME TypeOK, NEW r \in RowIds
    PROVE  /\ UNCHANGED retries => \A s \in RowIds : Tries(s)' = Tries(s)
           /\ retries' = [retries EXCEPT ![r] = NoRetry]
                => \A s \in RowIds \ {r} : Tries(s)' = Tries(s)
           /\ \A n : note_part(r, n) => \A s \in RowIds : Tries(s)' = Tries(s)
  <1>1. UNCHANGED retries => \A s \in RowIds : Tries(s)' = Tries(s)
    BY DEF Tries
  <1>2. retries' = [retries EXCEPT ![r] = NoRetry] => \A s \in RowIds \ {r} : Tries(s)' = Tries(s)
    BY DEF Tries, TypeOK, TypeRetries
  <1>3. ASSUME NEW n, note_part(r, n) PROVE \A s \in RowIds : Tries(s)' = Tries(s)
    BY <1>3 DEF note_part, Entry, Tries, TypeOK, TypeRetries
  <1> QED
    BY <1>1, <1>2, <1>3

LEMMA QuietSpend ==
    ASSUME TypeOK, InHand, SingleLoop, Cold, SpendInv, NEW p \in Passes, PassStep(p) \/ Fault(p),
           ~ SendFails(p), ~ bump_retry(p), ~ Persist(p)
    PROVE  SpendKept
  <1>0. /\ \A q \in Passes : q = p
        /\ pc[p] # "idle" => primed
        /\ faults \in Nat
        /\ Below /\ Noted /\ Acked
    BY DEF SingleLoop, Cold, SpendInv, TypeOK, TypeTrouble
  <1> USE <1>0 DEF SpendKept, Due, Late, Below, Noted, Acked, Unloaded, Step, TypeOK, TypePc, TypeRecords,
          TypeLocals, Clear, NextRow, Return, EndPass, records, outbound, seen, trouble, locals
  <1>1. CASE ScanRow(p)
    <2>1. UNCHANGED retries
      BY <1>1 DEF ScanRow, maps
    <2>2. \A s \in RowIds : Tries(s)' = Tries(s)
      BY <2>1 DEF Tries
    <2> QED
      BY <1>1, <2>2 DEF ScanRow
  <1>2. CASE SkipClaimed(p)
    <2>1. UNCHANGED retries
      BY <1>2 DEF SkipClaimed, maps
    <2>2. \A s \in RowIds : Tries(s)' = Tries(s)
      BY <2>1 DEF Tries
    <2> QED
      BY <1>2, <2>2, CurIsRow DEF SkipClaimed
  <1>3. CASE ClaimRow(p)
    <2>1. UNCHANGED retries
      BY <1>3 DEF ClaimRow, maps
    <2>2. \A s \in RowIds : Tries(s)' = Tries(s)
      BY <2>1 DEF Tries
    <2> QED
      BY <1>3, <2>2, CurIsRow DEF ClaimRow
  <1>4. CASE GiveUpSpent(p)
    <2>1. UNCHANGED retries
      BY <1>4 DEF GiveUpSpent, maps
    <2>2. \A s \in RowIds : Tries(s)' = Tries(s)
      BY <2>1 DEF Tries
    <2> QED
      BY <1>4, <2>2, CurIsRow DEF GiveUpSpent
  <1>5. CASE Proceed(p)
    <2>1. UNCHANGED retries
      BY <1>5 DEF Proceed, maps
    <2>2. \A s \in RowIds : Tries(s)' = Tries(s)
      BY <2>1 DEF Tries
    <2>3. Tries(cur[p]) < MaxAttempts
      BY <1>5, CurIsRow, SpendNumbers, ConstantsAssumption DEF Proceed, Spent, Tries
    <2> QED
      BY <1>5, <2>2, <2>3, CurIsRow DEF Proceed
  <1>6. CASE Unroutable(p)
    <2>1. UNCHANGED retries
      BY <1>6 DEF Unroutable, maps
    <2>2. \A s \in RowIds : Tries(s)' = Tries(s)
      BY <2>1 DEF Tries
    <2> QED
      BY <1>6, <2>2, CurIsRow DEF Unroutable
  <1>7. CASE Adapterless(p)
    <2>1. UNCHANGED retries
      BY <1>7 DEF Adapterless, maps
    <2>2. \A s \in RowIds : Tries(s)' = Tries(s)
      BY <2>1 DEF Tries
    <2> QED
      BY <1>7, <2>2, CurIsRow DEF Adapterless
  <1>8. CASE Resume(p)
    <2>1. UNCHANGED retries
      BY <1>8 DEF Resume, maps
    <2>2. \A s \in RowIds : Tries(s)' = Tries(s)
      BY <2>1 DEF Tries
    <2> QED
      BY <1>8, <2>2, CurIsRow DEF Resume
  <1>9. CASE RecordOk(p)
    <2>1. UNCHANGED retries
      BY <1>9 DEF RecordOk, maps
    <2>2. \A s \in RowIds : Tries(s)' = Tries(s)
      BY <2>1 DEF Tries
    <2> QED
      BY <1>9, <2>2, CurIsRow DEF RecordOk, insert_delivered
  <1>10. CASE Release(p)
    <2>1. UNCHANGED retries
      BY <1>10 DEF Release, maps
    <2>2. \A s \in RowIds : Tries(s)' = Tries(s)
      BY <2>1 DEF Tries
    <2> QED
      BY <1>10, <2>2, CurIsRow DEF Release
  <1>11. CASE ParkRow(p)
    <2>1. UNCHANGED retries
      BY <1>11 DEF ParkRow, maps
    <2>2. \A s \in RowIds : Tries(s)' = Tries(s)
      BY <2>1 DEF Tries
    <2> QED
      BY <1>11, <2>2, CurIsRow DEF ParkRow
  <1>12. CASE WriteLetter(p)
    <2>1. UNCHANGED retries
      BY <1>12 DEF WriteLetter, maps
    <2>2. \A s \in RowIds : Tries(s)' = Tries(s)
      BY <2>1 DEF Tries
    <2> QED
      BY <1>12, <2>2, CurIsRow DEF WriteLetter
  <1>13. CASE emit_delivery_failure_error_card(p)
    <2>1. UNCHANGED retries
      BY <1>13 DEF emit_delivery_failure_error_card, maps
    <2>2. \A s \in RowIds : Tries(s)' = Tries(s)
      BY <2>1 DEF Tries
    <2>3. UNCHANGED <<fails, disk, delivered, primed, crashes, faults>> /\ NextRow(p, "card")
      BY <1>13 DEF emit_delivery_failure_error_card, insert_message_out
    <2> QED
      BY <2>2, <2>3
  <1>14. CASE FinishPass(p)
    <2>1. UNCHANGED retries
      BY <1>14 DEF FinishPass, maps
    <2>2. \A s \in RowIds : Tries(s)' = Tries(s)
      BY <2>1 DEF Tries
    <2> QED
      BY <1>14, <2>2, CurIsRow DEF FinishPass
  <1>15. CASE RecordErr(p)
    <2>1. UNCHANGED retries
      BY <1>15 DEF RecordErr, maps
    <2>2. \A s \in RowIds : Tries(s)' = Tries(s)
      BY <2>1 DEF Tries
    <2> QED
      BY <1>15, <2>2, CurIsRow DEF RecordErr, DbError
  <1>16. CASE AbortPass(p)
    <2>1. UNCHANGED retries
      BY <1>16 DEF AbortPass, maps
    <2>2. \A s \in RowIds : Tries(s)' = Tries(s)
      BY <2>1 DEF Tries
    <2> QED
      BY <1>16, <2>2, CurIsRow DEF AbortPass, DbError
  <1>17. CASE Panic(p)
    <2>1. UNCHANGED retries
      BY <1>17 DEF Panic, maps
    <2>2. \A s \in RowIds : Tries(s)' = Tries(s)
      BY <2>1 DEF Tries
    <2> QED
      BY <1>17, <2>2, CurIsRow DEF Panic
  <1>18. CASE SendPart(p)
    <2>1. \A s \in RowIds : Tries(s)' = Tries(s)
      BY <1>18, CurIsRow, TriesSame DEF SendPart
    <2> QED
      BY <1>18, <2>1, CurIsRow DEF SendPart
  <1>19. CASE SettleOk(p)
    <2>1. PICK r \in RowIds : r = cur[p]
      BY <1>19, CurIsRow DEF SettleOk
    <2>2. \A s \in RowIds \ {r} : Tries(s)' = Tries(s)
      BY <1>19, <2>1, TriesSame DEF SettleOk
    <2>3. delivered' = delivered /\ delivered[r] # "none"
      BY <1>19, <2>1 DEF SettleOk
    <2> QED
      BY <1>19, <2>1, <2>2, <2>3 DEF SettleOk
  <1>20. CASE SettleFailed(p)
    <2>1. PICK r \in RowIds : r = cur[p]
      BY <1>20, CurIsRow DEF SettleFailed
    <2>2. \A s \in RowIds \ {r} : Tries(s)' = Tries(s)
      BY <1>20, <2>1, TriesSame DEF SettleFailed
    <2>3. delivered'[r] # "none" /\ \A s \in RowIds \ {r} : delivered'[s] = delivered[s]
      BY <1>20, <2>1 DEF SettleFailed, insert_delivered
    <2> QED
      BY <1>20, <2>1, <2>2, <2>3 DEF SettleFailed
  <1>21. CASE WriteTerminal(p)
    <2>1. PICK r \in RowIds : r = cur[p]
      BY <1>21, CurIsRow DEF WriteTerminal
    <2>2. \A s \in RowIds \ {r} : Tries(s)' = Tries(s)
      BY <1>21, <2>1, TriesSame DEF WriteTerminal
    <2>3. delivered'[r] # "none" /\ \A s \in RowIds \ {r} : delivered'[s] = delivered[s]
      BY <1>21, <2>1 DEF WriteTerminal, insert_delivered
    <2> QED
      BY <1>21, <2>1, <2>2, <2>3 DEF WriteTerminal
  <1>22. CASE record_exhausted_row(p)
    <2>1. PICK r \in RowIds : r = cur[p]
      BY <1>22, CurIsRow DEF record_exhausted_row
    <2>2. \A s \in RowIds \ {r} : Tries(s)' = Tries(s)
      BY <1>22, <2>1, TriesSame DEF record_exhausted_row
    <2>3. delivered'[r] # "none" /\ \A s \in RowIds \ {r} : delivered'[s] = delivered[s]
      BY <1>22, <2>1 DEF record_exhausted_row, insert_delivered
    <2> QED
      BY <1>22, <2>1, <2>2, <2>3 DEF record_exhausted_row
  <1> QED
    BY <1>1, <1>2, <1>3, <1>4, <1>5, <1>6, <1>7, <1>8, <1>9, <1>10, <1>11, <1>12, <1>13, <1>14,
       <1>15, <1>16, <1>17, <1>18, <1>19, <1>20, <1>21, <1>22 DEF PassStep, Fault

\* A send that fails started within the budget.
LEMMA FailSpend ==
    ASSUME TypeOK, TypeOK', InHand, SingleLoop, Cold, OnceInv, SpendInv, NEW p \in Passes, SendFails(p)
    PROVE  SpendInv'
  <1>0. PICK r \in RowIds : r = cur[p]
    BY CurIsRow DEF SendFails
  <1>1. /\ \A q \in Passes : q = p
        /\ pc[p] = "send" /\ primed /\ pc'[p] = "release" /\ cur' = cur /\ Due(p)' /\ ~ Late(p)
        /\ res'[p] \in {"retry", "system", "hard"}
        /\ UNCHANGED <<retries, disk, delivered, crashes, faults, primed>>
        /\ fails' = [fails EXCEPT ![r] = @ + 1]
    BY <1>0 DEF SingleLoop, Cold, SendFails, Return, Step, Due, Late, maps, outbound, records, trouble,
       TypeOK, TypePc, TypeLocals
  <1>2. delivered[r] = "none"
    BY <1>0, <1>1 DEF OnceInv, Snapshot, Unsettled
  <1>3. /\ \A s \in RowIds : fails[s] \in Nat /\ Tries(s) \in Nat /\ disk[s].tries \in Nat
        /\ crashes \in Nat /\ faults \in Nat /\ MaxAttempts \in Nat
    BY SpendNumbers
  <1>4. \A s \in RowIds : fails'[s] = IF s = r THEN fails[s] + 1 ELSE fails[s]
    BY <1>1 DEF TypeOK, TypeSeen
  <1>5. \A s \in RowIds : Tries(s)' = Tries(s) /\ Known(s)' = Tries(s) /\ Known(s) = Tries(s)
    BY <1>1 DEF Tries, Known
  <1>6. /\ Tries(r) < MaxAttempts
        /\ fails[r] <= Tries(r) + crashes + faults
        /\ fails[r] <= disk[r].tries + crashes + faults
    <2>1. ~ Due(p)
      BY <1>1 DEF Late
    <2>2. /\ \A q \in Passes : Due(q) => cur[q] # r
          /\ \A q \in Passes : Late(q) => cur[q] # r
      BY <1>1, <2>1
    <2> QED
      BY <1>0, <1>1, <1>2, <1>5, <2>2 DEF SpendInv, Below, Ledger
  <1>7. Ledger'
    <2> SUFFICES ASSUME NEW s \in RowIds, delivered'[s] = "none"
                 PROVE  /\ fails'[s] <= Known(s)' + 1 + crashes' + faults'
                        /\ (\A q \in Passes : Due(q)' => cur'[q] # s)
                             => fails'[s] <= Known(s)' + crashes' + faults'
                        /\ fails'[s] <= disk'[s].tries + 1 + crashes' + faults'
                        /\ (\A q \in Passes : Late(q)' => cur'[q] # s)
                             => fails'[s] <= disk'[s].tries + crashes' + faults'
      BY DEF Ledger
    <2>1. CASE s = r
      <3>1. Due(p)' /\ Late(p)' /\ cur'[p] = s
        BY <1>0, <1>1, <2>1 DEF Late
      <3> QED
        BY <1>1, <1>3, <1>4, <1>5, <1>6, <2>1, <3>1
    <2>2. CASE s # r
      <3>1. \A q \in Passes : Due(q) => cur[q] # s
        BY <1>0, <1>1, <2>2
      <3>2. \A q \in Passes : Late(q) => cur[q] # s
        BY <1>0, <1>1, <2>2
      <3>3. /\ fails[s] <= Known(s) + crashes + faults
            /\ fails[s] <= disk[s].tries + crashes + faults
        BY <1>1, <3>1, <3>2 DEF SpendInv, Ledger
      <3> QED
        BY <1>1, <1>3, <1>4, <1>5, <2>2, <3>3
    <2> QED
      BY <2>1, <2>2
  <1>8. AttemptBudget'
    BY <1>1, <1>3, <1>4, <1>6 DEF SpendInv, AttemptBudget
  <1>9. Below' /\ Noted' /\ Acked' /\ Unloaded'
    BY <1>1 DEF SpendInv, Below, Noted, Acked, Unloaded
  <1> QED
    BY <1>7, <1>8, <1>9 DEF SpendInv

\* bump_retry counts the failure in hand, in the map.
LEMMA BumpSpend ==
    ASSUME TypeOK, TypeOK', InHand, SingleLoop, Cold, SpendInv, NEW p \in Passes, bump_retry(p)
    PROVE  SpendInv'
  <1>0. PICK r \in RowIds : r = cur[p]
    BY CurIsRow DEF bump_retry, Step
  <1>1. /\ \A q \in Passes : q = p
        /\ pc[p] = "settle" /\ primed /\ pc'[p] = "persist" /\ cur' = cur
        /\ UNCHANGED <<disk, delivered, crashes, faults, primed, fails>>
        /\ bumped'[p] = Entry(r).tries + 1
    BY <1>0 DEF SingleLoop, Cold, bump_retry, Step, outbound, records, trouble, seen, TypeOK, TypePc,
       TypeLocals
  <1>2. /\ \A s \in RowIds : fails[s] \in Nat /\ Tries(s) \in Nat /\ disk[s].tries \in Nat
        /\ crashes \in Nat /\ faults \in Nat /\ MaxAttempts \in Nat
    BY SpendNumbers
  <1>3. /\ \A s \in RowIds : Tries(s)' = IF s = r THEN Tries(s) + 1 ELSE Tries(s)
        /\ bumped'[p] = Tries(r)'
    <2>1. Entry(r).tries = Tries(r)
      BY DEF Entry, Tries
    <2>2. retries'[r].on /\ retries'[r].tries = Tries(r) + 1
      BY <1>0, <2>1 DEF bump_retry, TypeOK, TypeRetries
    <2>3. \A s \in RowIds \ {r} : retries'[s] = retries[s]
      BY <1>0 DEF bump_retry, TypeOK, TypeRetries
    <2> QED
      BY <1>1, <2>1, <2>2, <2>3 DEF Tries
  <1>4. \A s \in RowIds : Known(s)' = Tries(s)' /\ Known(s) = Tries(s)
    BY <1>1 DEF Known
  <1>5. Late(p)' /\ ~ Due(p)'
    BY <1>1 DEF Late, Due
  <1>6. Ledger'
    <2> SUFFICES ASSUME NEW s \in RowIds, delivered[s] = "none"
                 PROVE  /\ fails[s] <= Tries(s)' + crashes + faults
                        /\ fails[s] <= disk[s].tries + 1 + crashes + faults
                        /\ cur[p] # s => fails[s] <= disk[s].tries + crashes + faults
      BY <1>1, <1>2, <1>3, <1>4, <1>5 DEF Ledger
    <2>1. /\ fails[s] <= Tries(s) + 1 + crashes + faults
          /\ fails[s] <= disk[s].tries + 1 + crashes + faults
          /\ cur[p] # s => /\ fails[s] <= Tries(s) + crashes + faults
                           /\ fails[s] <= disk[s].tries + crashes + faults
      BY <1>1, <1>4 DEF SpendInv, Ledger
    <2> QED
      BY <1>0, <1>2, <1>3, <2>1
  <1>7. Below' /\ Noted' /\ Acked' /\ Unloaded' /\ AttemptBudget'
    BY <1>0, <1>1, <1>3 DEF SpendInv, Below, Noted, Acked, Unloaded, AttemptBudget
  <1> QED
    BY <1>6, <1>7 DEF SpendInv

\* set_retry_state stores the count; a write that fails is charged as a fault.
LEMMA PersistSpend ==
    ASSUME TypeOK, TypeOK', InHand, SingleLoop, Cold, SpendInv, NEW p \in Passes, Persist(p)
    PROVE  SpendInv'
  <1>0. PICK r \in RowIds : r = cur[p]
    BY CurIsRow DEF Persist
  <1>1. /\ \A q \in Passes : q = p
        /\ pc[p] = "persist" /\ primed /\ pc'[p] \in {"scan", "exhaust"}
        /\ UNCHANGED <<delivered, crashes, primed, fails, retries>>
    BY <1>0 DEF SingleLoop, Cold, Persist, NextRow, Step, records, trouble, seen, maps, DbError, TypeOK,
       TypePc
  <1>2. /\ \A s \in RowIds : fails[s] \in Nat /\ Tries(s) \in Nat /\ disk[s].tries \in Nat
        /\ crashes \in Nat /\ faults \in Nat /\ MaxAttempts \in Nat
    BY SpendNumbers
  <1>3. \A s \in RowIds : Tries(s)' = Tries(s) /\ Known(s)' = Tries(s) /\ Known(s) = Tries(s)
    BY <1>1 DEF Tries, Known
  <1>4. \/ /\ faults' = faults /\ disk'[r].tries = Tries(r)
           /\ \A s \in RowIds \ {r} : disk'[s] = disk[s]
        \/ faults' = faults + 1 /\ disk' = disk
    <2>1. bumped[p] = Tries(r)
      BY <1>0, <1>1 DEF SpendInv, Noted
    <2> QED
      BY <1>0, <2>1 DEF Persist, DbError, trouble, TypeOK, TypeOutbound
  <1>5. ~ Due(p)' /\ ~ Late(p)' /\ ~ Due(p)
    BY <1>1 DEF Late, Due
  <1>6. Ledger'
    <2> SUFFICES ASSUME NEW s \in RowIds, delivered[s] = "none"
                 PROVE  /\ fails[s] <= Tries(s) + crashes + faults'
                        /\ fails[s] <= disk'[s].tries + crashes + faults'
      BY <1>1, <1>2, <1>3, <1>4, <1>5, SpendNumbersNext DEF Ledger
    <2>1. /\ fails[s] <= Tries(s) + crashes + faults
          /\ fails[s] <= disk[s].tries + 1 + crashes + faults
          /\ cur[p] # s => fails[s] <= disk[s].tries + crashes + faults
      BY <1>1, <1>3, <1>5 DEF SpendInv, Ledger
    <2> QED
      BY <1>0, <1>2, <1>4, <2>1
  <1>7. Below' /\ Noted' /\ Acked' /\ Unloaded'
    BY <1>1 DEF SpendInv, Below, Noted, Acked, Unloaded
  <1>8. AttemptBudget'
    BY <1>1, <1>2, <1>4 DEF SpendInv, AttemptBudget
  <1> QED
    BY <1>6, <1>7, <1>8 DEF SpendInv

\* The first pass of a host lifetime goes on from the stored counts.
LEMMA BeginSpend ==
    ASSUME TypeOK, TypeOK', InHand, SingleLoop, Cold, SpendInv, NEW p \in Passes, BeginPass(p)
    PROVE  SpendInv'
  <1>1. /\ \A q \in Passes : q = p
        /\ pc[p] = "idle" /\ pc'[p] = "scan" /\ primed'
        /\ UNCHANGED <<delivered, crashes, faults, fails, disk>>
    BY DEF SingleLoop, BeginPass, Step, outbound, records, trouble, seen, TypeOK, TypePc
  <1>2. /\ \A s \in RowIds : fails[s] \in Nat /\ Tries(s) \in Nat /\ disk[s].tries \in Nat
        /\ crashes \in Nat /\ faults \in Nat /\ MaxAttempts \in Nat
    BY SpendNumbers
  <1>3. ASSUME NEW s \in RowIds, delivered[s] = "none" PROVE Known(s)' = Known(s)
    <2>1. retries'[s] = Rebase(prime_retry_cache(s), p)
      BY DEF BeginPass
    <2>2. retries[s] \in RetryRec /\ disk[s].tries \in Nat /\ Known(s)' = Tries(s)'
      BY <1>1 DEF TypeOK, TypeRetries, TypeOutbound, Known
    <2>3. CASE prime_retry_cache(s) = retries[s]
      <3>1. retries'[s].on = retries[s].on /\ retries'[s].tries = retries[s].tries
        BY <2>1, <2>2, <2>3 DEF Rebase, RetryRec
      <3>2. Tries(s)' = Tries(s)
        BY <3>1 DEF Tries
      <3>3. CASE primed
        BY <2>2, <3>2, <3>3 DEF Known
      <3>4. CASE ~ primed
        <4>1. ~ retries[s].on
          BY <3>4 DEF SpendInv, Unloaded
        <4>2. Tries(s) = 0
          BY <4>1 DEF Tries
        <4>3. disk[s].tries > 0 => prime_retry_cache(s).on
          BY <1>3, <3>4, <4>1 DEF prime_retry_cache
        <4> QED
          BY <2>2, <2>3, <3>2, <3>4, <4>1, <4>2, <4>3 DEF Known
      <3> QED
        BY <3>3, <3>4
    <2>4. CASE ~ primed /\ prime_retry_cache(s) = [on |-> TRUE, tries |-> disk[s].tries, sent |-> 0,
                                                   open |-> disk[s].open, ahead |-> {}]
      <3>1. Tries(s)' = disk[s].tries
        BY <2>1, <2>4 DEF Rebase, Tries
      <3> QED
        BY <2>2, <2>4, <3>1 DEF Known
    <2> QED
      BY <2>3, <2>4 DEF prime_retry_cache
  <1>4. ~ Late(p) /\ ~ Due(p) /\ ~ Late(p)' /\ ~ Due(p)'
    BY <1>1 DEF Late, Due
  <1>5. Ledger'
    BY <1>1, <1>3, <1>4 DEF SpendInv, Ledger
  <1>6. Below' /\ Noted' /\ Acked' /\ Unloaded' /\ AttemptBudget'
    BY <1>1 DEF SpendInv, Below, Noted, Acked, Unloaded, AttemptBudget
  <1> QED
    BY <1>5, <1>6 DEF SpendInv

\* A crash may lose the one count that was not stored.
LEMMA RestartSpend ==
    ASSUME TypeOK, TypeOK', SingleLoop, SpendInv, HostRestart
    PROVE  SpendInv'
  <1>1. /\ UNCHANGED <<delivered, faults, fails, disk>> /\ crashes' = crashes + 1 /\ ~ primed'
        /\ \A q \in Passes : pc'[q] = "idle"
        /\ \A r \in RowIds : ~ retries'[r].on
    BY DEF HostRestart, outbound, records, seen, NoRetry
  <1>2. /\ \A s \in RowIds : fails[s] \in Nat /\ disk[s].tries \in Nat
        /\ crashes \in Nat /\ faults \in Nat /\ MaxAttempts \in Nat
    BY SpendNumbers
  <1>3. \A s \in RowIds : Known(s)' = disk[s].tries
    BY <1>1 DEF Known
  <1>4. \A s \in RowIds : delivered[s] = "none" => fails[s] <= disk[s].tries + 1 + crashes + faults
    BY DEF SpendInv, Ledger
  <1>5. Ledger'
    BY <1>1, <1>2, <1>3, <1>4 DEF Ledger
  <1>6. Below' /\ Noted' /\ Acked' /\ Unloaded'
    BY <1>1 DEF Below, Noted, Acked, Unloaded
  <1>7. AttemptBudget'
    BY <1>1, <1>2 DEF SpendInv, AttemptBudget
  <1> QED
    BY <1>5, <1>6, <1>7 DEF SpendInv

LEMMA SpendStep ==
    ASSUME TypeOK, TypeOK', InHand, SingleLoop, Cold, OnceInv, SpendInv, [Next]_vars
    PROVE  SpendInv'
  <1>1. ASSUME NEW p \in Passes, PassStep(p) \/ Fault(p) \/ BeginPass(p) PROVE SpendInv'
    BY <1>1, QuietSpend, KeptSpend, FailSpend, BumpSpend, PersistSpend, BeginSpend
  <1>2. ASSUME UNCHANGED <<fails, pc, res, cur, bumped, primed, delivered, crashes, faults>>,
               \A r \in RowIds : /\ disk'[r].tries = disk[r].tries
                                 /\ retries'[r].on = retries[r].on
                                 /\ retries'[r].tries = retries[r].tries
        PROVE  SpendInv'
    <2>1. \A r \in RowIds : Tries(r)' = Tries(r) /\ Known(r)' = Known(r)
      BY <1>2 DEF Tries, Known
    <2>2. \A q \in Passes : (Due(q)' <=> Due(q)) /\ (Late(q)' <=> Late(q))
      BY <1>2 DEF Due, Late
    <2>3. Ledger'
      BY <1>2, <2>1, <2>2 DEF SpendInv, Ledger
    <2>4. \A q \in Passes : pc[q] \notin {"idle", "scan"} => cur[q] \in RowIds
      BY CurIsRow
    <2>5. Below' /\ Noted'
      BY <1>2, <2>1, <2>4 DEF SpendInv, Below, Noted
    <2>6. Acked' /\ Unloaded' /\ AttemptBudget'
      BY <1>2 DEF SpendInv, Acked, Unloaded, AttemptBudget
    <2> QED
      BY <2>3, <2>5, <2>6 DEF SpendInv
  <1>3. ASSUME NEW r \in RowIds, AgeRow(r) \/ ClaimAges(r) \/ ReplayInsert(r) PROVE SpendInv'
    BY <1>2, <1>3 DEF AgeRow, ClaimAges, ReplayInsert, insert_message_out, outbound, records, maps,
       locals, seen, trouble
  <1>4. ASSUME NEW r \in RowIds, WindowEnds(r) PROVE SpendInv'
    <2>1. UNCHANGED <<fails, pc, res, cur, bumped, primed, delivered, crashes, faults>>
      BY <1>4 DEF WindowEnds, records, locals, seen, trouble
    <2>2. \A s \in RowIds : disk'[s].tries = disk[s].tries
      BY <1>4 DEF WindowEnds, TypeOK, TypeOutbound
    <2>3. \A s \in RowIds : retries'[s].on = retries[s].on /\ retries'[s].tries = retries[s].tries
      BY <1>4 DEF WindowEnds, TypeOK, TypeRetries
    <2> QED
      BY <1>2, <2>1, <2>2, <2>3
  <1>5. CASE ReplayDelete \/ Emit \/ SetRouting \/ UNCHANGED vars
    BY <1>2, <1>5 DEF ReplayDelete, Emit, SetRouting, insert_message_out, outbound, records, maps,
       locals, seen, trouble, vars
  <1> QED
    BY <1>1, <1>3, <1>4, <1>5, RestartSpend DEF Next, Clock

\* The failed sends of a row exceed MAX_DELIVERY_ATTEMPTS only by those whose
\* count a crash or a failed write lost, however often the host restarts.
THEOREM BudgetSurvivesRestarts == SingleLoop => (Spec => []AttemptBudget)
  <1> SUFFICES ASSUME SingleLoop PROVE Spec => []AttemptBudget
    OBVIOUS
  <1>1. /\ TypeOK /\ InHand /\ OnceInv /\ [Next]_vars => OnceInv'
        /\ TypeOK /\ TypeOK' /\ InHand /\ BudgetInv /\ [Next]_vars => BudgetInv'
    BY OnceStep, BudgetStep
  <1>2. TypeOK /\ TypeOK' /\ InHand /\ OnceInv /\ BudgetInv /\ SpendInv /\ [Next]_vars => SpendInv'
    BY SpendStep DEF BudgetInv
  <1>3. (Init => OnceInv) /\ (Init => BudgetInv)
    BY OnceInit, BudgetInit
  <1>4. Init => SpendInv
    <2> SUFFICES ASSUME Init PROVE SpendInv
      OBVIOUS
    <2>1. /\ \A r \in RowIds : fails[r] = 0 /\ disk[r].tries = 0 /\ ~ retries[r].on
          /\ ~ primed /\ crashes = 0 /\ faults = 0 /\ MaxAttempts \in Nat
          /\ \A p \in Passes : pc[p] = "idle"
      BY ConstantsAssumption DEF Init, NoRetry
    <2>2. \A r \in RowIds : Known(r) = 0
      BY <2>1 DEF Known
    <2> QED
      BY <2>1, <2>2 DEF SpendInv, Ledger, Below, Noted, Acked, Unloaded, AttemptBudget
  <1>5. SpendInv => AttemptBudget
    BY DEF SpendInv
  <1> QED
    BY <1>1, <1>2, <1>3, <1>4, <1>5, TypeSafety, PTL DEF Spec
-----------------------------------------------------------------------------
(* Re-sends.  As long as a row has no record, a part goes out again only    *)
(* when a crash or a fault lost the mark of the last time.  Once it has     *)
(* one, each pass that still works from an older snapshot sends it at most  *)
(* once more, and the pass that wrote the record is none of them.           *)

\* Pass p may still send part k of row r.
May(p, r, k) ==
    \/ r \in todo[p]
    \/ cur[p] = r /\ pc[p] \in {"claim", "guard", "dispatch"}
    \/ cur[p] = r /\ pc[p] = "send" /\ idx[p] < k
MaySend(r, k) == {p \in Passes : May(p, r, k)}

\* That part k of row r was sent is known: from its entry, or to the pass that
\* is about to record the row.
Held(r, k) == chunks_sent(r) >= k \/ \E p \in Passes : cur[p] = r /\ pc[p] = "record"

OpenRows ==
    \A r \in RowIds, k \in 1..MaxParts : delivered[r] = "none" =>
        /\ copies[r][k] <= crashes + faults + 1
        /\ ~ Held(r, k) => copies[r][k] <= crashes + faults
ClosedRows ==
    \A r \in RowIds, k \in 1..MaxParts : delivered[r] # "none" =>
        copies[r][k] + Cardinality(MaySend(r, k)) <= Cardinality(Passes) + crashes + faults

\* A pass sends the part after the last one noted, and has its row off the list.
InStep ==
    \A p \in Passes : pc[p] = "send" /\ delivered[cur[p]] = "none" => idx[p] = chunks_sent(cur[p])
OffList ==
    /\ \A p \in Passes : cur[p] \notin todo[p]
    /\ \A p \in Passes : pc[p] \in {"idle", "scan"} => cur[p] = NoRow

ResendInv == OpenRows /\ ClosedRows /\ InStep /\ OffList /\ Acked

\* A step that sends nothing.
ResendKept ==
    /\ UNCHANGED copies /\ crashes + faults <= crashes' + faults'
    /\ \A r \in RowIds : delivered'[r] = "none" => delivered[r] = "none"
    /\ \/ crashes + faults < crashes' + faults'
       \/ \A r \in RowIds : delivered'[r] = "none" =>
            /\ chunks_sent(r)' = chunks_sent(r)
            /\ \A q \in Passes : cur[q] = r /\ pc[q] = "record" => cur'[q] = r /\ pc'[q] = "record"
    /\ \A r \in RowIds, k \in 1..MaxParts, q \in Passes :
         delivered[r] # "none" /\ May(q, r, k)' => May(q, r, k)
    /\ \A r \in RowIds : delivered[r] = "none" /\ delivered'[r] # "none" =>
         \E q \in Passes : \A k \in 1..MaxParts : ~ May(q, r, k)'
    /\ InStep' /\ OffList' /\ Acked'

LEMMA MaySendFinite ==
    \A r, k : /\ IsFiniteSet(MaySend(r, k)) /\ Cardinality(MaySend(r, k)) \in Nat
              /\ IsFiniteSet(MaySend(r, k)') /\ Cardinality(MaySend(r, k)') \in Nat
  <1> TAKE r, k
  <1>1. MaySend(r, k) \in SUBSET Passes /\ MaySend(r, k)' \in SUBSET Passes
    BY DEF MaySend
  <1> QED
    BY <1>1, ConstantsAssumption, FS_Subset, FS_CardinalityType

LEMMA PassesCount == Cardinality(Passes) \in Nat \ {0}
  <1>1. Cardinality(Passes) \in Nat /\ Passes # {}
    BY ConstantsAssumption, FS_CardinalityType
  <1> QED
    BY <1>1, ConstantsAssumption, FS_EmptySet

LEMMA BoundsAdd ==
    ASSUME NEW a \in Nat, NEW b \in Nat, NEW m \in Nat, NEW n \in Nat, NEW x \in Nat, NEW y \in Nat,
           NEW u \in Nat, NEW v \in Nat, x + y <= u + v, n <= m, a + m <= b + x + y
    PROVE  a + n <= b + u + v
  OBVIOUS

LEMMA KeptResend ==
    ASSUME TypeOK, TypeOK', ResendInv, ResendKept
    PROVE  ResendInv'
  <1>0. /\ crashes \in Nat /\ faults \in Nat /\ crashes' \in Nat /\ faults' \in Nat
        /\ \A r \in RowIds, k \in 1..MaxParts :
             copies[r][k] \in Nat /\ copies'[r][k] = copies[r][k]
    <2>1. crashes \in Nat /\ faults \in Nat /\ crashes' \in Nat /\ faults' \in Nat
      BY SpendNumbers, SpendNumbersNext
    <2>2. copies' = copies /\ copies \in [RowIds -> [1..MaxParts -> Nat]]
      BY DEF TypeOK, TypeSeen, ResendKept
    <2> QED
      BY <2>1, <2>2
  <1>1. ASSUME NEW r \in RowIds, NEW k \in 1..MaxParts, delivered'[r] = "none"
        PROVE  /\ copies'[r][k] <= crashes' + faults' + 1
               /\ ~ Held(r, k)' => copies'[r][k] <= crashes' + faults'
    <2>1. /\ copies[r][k] <= crashes + faults + 1
          /\ ~ Held(r, k) => copies[r][k] <= crashes + faults
      BY <1>1 DEF ResendInv, OpenRows, ResendKept
    <2>2. crashes + faults < crashes' + faults' \/ (Held(r, k) => Held(r, k)')
      BY <1>1 DEF ResendKept, Held
    <2>3. crashes + faults <= crashes' + faults'
      BY DEF ResendKept
    <2> QED
      BY <1>0, <2>1, <2>2, <2>3
  <1>2. ASSUME NEW r \in RowIds, NEW k \in 1..MaxParts, delivered'[r] # "none"
        PROVE  copies'[r][k] + Cardinality(MaySend(r, k)') <= Cardinality(Passes) + crashes' + faults'
    <2>0. /\ Cardinality(MaySend(r, k)) \in Nat /\ Cardinality(MaySend(r, k)') \in Nat
          /\ Cardinality(Passes) \in Nat
          /\ copies[r][k] \in Nat /\ copies'[r][k] = copies[r][k]
      BY <1>0, MaySendFinite, PassesCount
    <2>1. crashes + faults <= crashes' + faults'
      BY DEF ResendKept
    <2>2. CASE delivered[r] # "none"
      <3>1. MaySend(r, k)' \subseteq MaySend(r, k)
        BY <2>2 DEF ResendKept, MaySend
      <3>2. Cardinality(MaySend(r, k)') <= Cardinality(MaySend(r, k))
        BY <3>1, MaySendFinite, FS_Subset
      <3>3. copies[r][k] + Cardinality(MaySend(r, k)) <= Cardinality(Passes) + crashes + faults
        BY <2>2 DEF ResendInv, ClosedRows
      <3> QED
        BY <1>0, <2>0, <2>1, <3>2, <3>3, BoundsAdd
    <2>3. CASE delivered[r] = "none"
      <3>1. PICK q \in Passes : ~ May(q, r, k)'
        BY <1>2, <2>3 DEF ResendKept
      <3>2. MaySend(r, k)' \in SUBSET (Passes \ {q})
        BY <3>1 DEF MaySend
      <3>3. IsFiniteSet(Passes \ {q}) /\ Cardinality(Passes \ {q}) = Cardinality(Passes) - 1
        BY ConstantsAssumption, FS_RemoveElement
      <3>4. Cardinality(MaySend(r, k)') <= Cardinality(Passes) - 1
        BY <3>2, <3>3, FS_Subset
      <3>5. copies[r][k] <= crashes + faults + 1
        BY <2>3 DEF ResendInv, OpenRows
      <3>6. PICK m \in Nat : m = Cardinality(Passes) - 1 /\ Cardinality(MaySend(r, k)') <= m
        BY <3>4, PassesCount
      <3>7. copies[r][k] + m <= Cardinality(Passes) + crashes + faults
        BY <1>0, <2>0, <3>5, <3>6
      <3> QED
        BY <1>0, <2>0, <2>1, <3>6, <3>7, BoundsAdd
    <2> QED
      BY <2>2, <2>3
  <1>3. OpenRows'
    BY <1>1 DEF OpenRows
  <1>4. ClosedRows'
    BY <1>2 DEF ClosedRows
  <1> QED
    BY <1>3, <1>4 DEF ResendInv, ResendKept

\* A part is sent: the first time since the last crash or fault for a row
\* without a record, and by a pass that will not send it again for the others.
LEMMA SendPartResend ==
    ASSUME TypeOK, TypeOK', InHand, OneSender, ResendInv, NEW p \in Passes, SendPart(p)
    PROVE  ResendInv'
  <1>0. PICK r \in RowIds, n \in 1..MaxParts : r = cur[p] /\ n = idx[p] + 1 /\ n <= rows[r].parts
    <2>1. /\ pc[p] = "send" /\ cur[p] \in RowIds /\ idx[p] \in Nat /\ idx[p] < rows[cur[p]].parts
          /\ rows[cur[p]].parts \in 0..MaxParts /\ MaxParts \in Nat
      <3>1. pc[p] = "send" /\ cur[p] \in RowIds
        BY CurIsRow DEF SendPart
      <3>2. idx[p] \in 0..MaxParts /\ MaxParts \in Nat /\ idx[p] < rows[cur[p]].parts
        BY <3>1, ConstantsAssumption DEF TypeOK, TypeLocals, InHand
      <3>3. rows[cur[p]].parts \in 0..MaxParts
        BY <3>1 DEF TypeOK, TypeOutbound, RowRec
      <3> QED
        BY <3>1, <3>2, <3>3
    <2> QED
      BY <2>1
  <1>1. /\ pc[p] = "send" /\ pc'[p] = IF n = rows[r].parts THEN "record" ELSE "send"
        /\ \A q \in Passes \ {p} : pc'[q] = pc[q] /\ idx'[q] = idx[q]
        /\ idx'[p] = n
        /\ UNCHANGED <<delivered, todo, cur, res, crashes, faults>>
        /\ \A s \in RowIds, k \in 1..MaxParts :
             copies'[s][k] = IF s = r /\ k = n THEN copies[s][k] + 1 ELSE copies[s][k]
    BY <1>0 DEF SendPart, scope, records, trouble, TypeOK, TypePc, TypeLocals, TypeSeen
  <1>2. \A s \in RowIds : chunks_sent(s)' = IF s = r /\ rows[r].parts > 1 THEN n ELSE chunks_sent(s)
    BY <1>0 DEF SendPart, note_part, chunks_sent, TypeOK, TypeRetries
  <1>3. /\ crashes \in Nat /\ faults \in Nat /\ n \in Nat /\ rows[r].parts \in Nat
        /\ \A s \in RowIds, k \in 1..MaxParts : copies[s][k] \in Nat
        /\ \A s \in RowIds : chunks_sent(s) \in Nat
        /\ \A q \in Passes : idx[q] \in Nat
    <2>1. crashes \in Nat /\ faults \in Nat /\ n \in Nat /\ rows[r].parts \in Nat
      BY SpendNumbers DEF TypeOK, TypeOutbound, RowRec
    <2>2. \A s \in RowIds, k \in 1..MaxParts : copies[s][k] \in Nat
      BY DEF TypeOK, TypeSeen
    <2>3. \A s \in RowIds : chunks_sent(s) \in Nat
      BY DEF TypeOK, TypeRetries, RetryRec, chunks_sent
    <2> QED
      BY <2>1, <2>2, <2>3 DEF TypeOK, TypeLocals
  <1>4. \A q \in Passes \ {p} : pc[q] \in {"send", "record"} => cur[q] # r
    BY <1>0, <1>1 DEF OneSender, Owning
  <1>5. OpenRows'
    <2> SUFFICES ASSUME NEW s \in RowIds, NEW k \in 1..MaxParts, delivered[s] = "none"
                 PROVE  /\ copies'[s][k] <= crashes + faults + 1
                        /\ ~ Held(s, k)' => copies'[s][k] <= crashes + faults
      BY <1>1 DEF OpenRows
    <2>1. /\ copies[s][k] <= crashes + faults + 1
          /\ ~ Held(s, k) => copies[s][k] <= crashes + faults
      BY DEF ResendInv, OpenRows
    <2>2. CASE s = r /\ k = n
      <3>1. idx[p] = chunks_sent(r)
        BY <1>0, <1>1, <2>2 DEF ResendInv, InStep
      <3>2. ~ Held(r, n)
        BY <1>0, <1>1, <1>3, <1>4, <3>1 DEF Held
      <3>3. Held(r, n)'
        <4>1. CASE rows[r].parts > 1
          <5>1. chunks_sent(r)' = n
            BY <1>2, <4>1
          <5> QED
            BY <1>3, <5>1 DEF Held
        <4>2. CASE ~ rows[r].parts > 1
          <5>1. n = rows[r].parts
            BY <1>0, <1>3, <4>2
          <5> QED
            BY <1>0, <1>1, <5>1 DEF Held
        <4> QED
          BY <4>1, <4>2
      <3> QED
        BY <1>1, <1>3, <2>1, <2>2, <3>2, <3>3
    <2>3. CASE ~ (s = r /\ k = n)
      <3>1. Held(s, k) => Held(s, k)'
        <4>1. s = r => idx[p] = chunks_sent(r)
          BY <1>0, <1>1 DEF ResendInv, InStep
        <4>2. chunks_sent(s) >= k => chunks_sent(s)' >= k
          BY <1>0, <1>2, <1>3, <4>1
        <4>3. \A q \in Passes : cur[q] = s /\ pc[q] = "record" => cur'[q] = s /\ pc'[q] = "record"
          BY <1>1
        <4> QED
          BY <4>2, <4>3 DEF Held
      <3> QED
        BY <1>1, <1>3, <2>1, <2>3, <3>1
    <2> QED
      BY <2>2, <2>3
  <1>6. ClosedRows'
    <2> SUFFICES ASSUME NEW s \in RowIds, NEW k \in 1..MaxParts, delivered[s] # "none"
                 PROVE  copies'[s][k] + Cardinality(MaySend(s, k)')
                          <= Cardinality(Passes) + crashes + faults
      BY <1>1 DEF ClosedRows
    <2>1. copies[s][k] + Cardinality(MaySend(s, k)) <= Cardinality(Passes) + crashes + faults
      BY DEF ResendInv, ClosedRows
    <2>2. MaySend(s, k)' \subseteq MaySend(s, k)
      <3>1. ASSUME NEW q \in Passes, May(q, s, k)' PROVE May(q, s, k)
        BY <1>0, <1>1, <1>3, <3>1 DEF May
      <3> QED
        BY <3>1 DEF MaySend
    <2>3. CASE s = r /\ k = n
      <3>1. p \in MaySend(s, k)
        BY <1>0, <1>1, <1>3, <2>3 DEF MaySend, May
      <3>2. p \notin MaySend(s, k)'
        BY <1>0, <1>1, <1>3, <2>3 DEF MaySend, May, ResendInv, OffList
      <3>3. /\ IsFiniteSet(MaySend(s, k) \ {p})
            /\ Cardinality(MaySend(s, k) \ {p}) = Cardinality(MaySend(s, k)) - 1
        BY <3>1, MaySendFinite, FS_RemoveElement
      <3>4. MaySend(s, k)' \in SUBSET (MaySend(s, k) \ {p})
        BY <2>2, <3>2
      <3>5. Cardinality(MaySend(s, k)') <= Cardinality(MaySend(s, k)) - 1
        BY <3>3, <3>4, FS_Subset
      <3> QED
        BY <1>1, <1>3, <2>1, <2>3, <3>5, MaySendFinite, PassesCount
    <2>4. CASE ~ (s = r /\ k = n)
      <3>1. Cardinality(MaySend(s, k)') <= Cardinality(MaySend(s, k))
        BY <2>2, MaySendFinite, FS_Subset
      <3> QED
        BY <1>1, <1>3, <2>1, <2>4, <3>1, MaySendFinite, PassesCount
    <2> QED
      BY <2>3, <2>4
  <1>7. InStep'
    <2>1. \A q \in Passes : pc'[q] = "send" => pc[q] = "send" /\ cur[q] \in RowIds
      <3>1. \A q \in Passes : pc'[q] = "send" => pc[q] = "send"
        BY <1>1
      <3> QED
        BY <3>1, CurIsRow
    <2> SUFFICES ASSUME NEW q \in Passes, NEW t \in RowIds, t = cur[q], pc'[q] = "send", pc[q] = "send",
                        delivered[t] = "none"
                 PROVE  idx'[q] = chunks_sent(t)'
      BY <1>1, <2>1 DEF InStep
    <2>2. CASE q = p
      <3>1. rows[r].parts > 1
        BY <1>0, <1>1, <1>3, <2>2
      <3> QED
        BY <1>0, <1>1, <1>2, <2>2, <3>1
    <2>3. CASE q # p
      <3>1. t # r /\ idx'[q] = idx[q] /\ idx[q] = chunks_sent(t)
        BY <1>1, <1>4, <2>3 DEF ResendInv, InStep
      <3> QED
        BY <1>2, <3>1
    <2> QED
      BY <2>2, <2>3
  <1>8. OffList' /\ Acked'
    BY <1>0, <1>1 DEF ResendInv, OffList, Acked
  <1> QED
    BY <1>5, <1>6, <1>7, <1>8 DEF ResendInv

LEMMA QuietResend ==
    ASSUME TypeOK, InHand, ResendInv, NEW p \in Passes, PassStep(p) \/ Fault(p), ~ SendPart(p)
    PROVE  ResendKept
  <1>0. /\ crashes \in Nat /\ faults \in Nat
        /\ InStep /\ OffList /\ Acked
        /\ \A q \in Passes : NoRow \notin todo[q]
        /\ \A q \in Passes : pc[q] \notin {"idle", "scan"} => cur[q] \in RowIds
        /\ NoRow \notin RowIds
    BY SpendNumbers, NoRowListed, CurIsRow DEF ResendInv, RowIds, NoRow
  <1> USE <1>0 DEF ResendKept, May, InStep, OffList, Acked, Step, TypeOK, TypePc, TypeRecords, TypeScope,
          TypeLocals, Clear, NextRow, Return, EndPass, records, seen, scope, trouble, locals
  <1>1. CASE ScanRow(p)
    <2>1. UNCHANGED retries
      BY <1>1 DEF ScanRow, maps
    <2>2. \A s : chunks_sent(s)' = chunks_sent(s)
      BY <2>1 DEF chunks_sent
    <2> QED
      BY <1>1, <2>2 DEF ScanRow
  <1>2. CASE SkipClaimed(p)
    <2>1. UNCHANGED retries
      BY <1>2 DEF SkipClaimed, maps
    <2>2. \A s : chunks_sent(s)' = chunks_sent(s)
      BY <2>1 DEF chunks_sent
    <2> QED
      BY <1>2, <2>2 DEF SkipClaimed
  <1>3. CASE ClaimRow(p)
    <2>1. UNCHANGED retries
      BY <1>3 DEF ClaimRow, maps
    <2>2. \A s : chunks_sent(s)' = chunks_sent(s)
      BY <2>1 DEF chunks_sent
    <2> QED
      BY <1>3, <2>2 DEF ClaimRow
  <1>4. CASE GiveUpSpent(p)
    <2>1. UNCHANGED retries
      BY <1>4 DEF GiveUpSpent, maps
    <2>2. \A s : chunks_sent(s)' = chunks_sent(s)
      BY <2>1 DEF chunks_sent
    <2> QED
      BY <1>4, <2>2 DEF GiveUpSpent
  <1>5. CASE Proceed(p)
    <2>1. UNCHANGED retries
      BY <1>5 DEF Proceed, maps
    <2>2. \A s : chunks_sent(s)' = chunks_sent(s)
      BY <2>1 DEF chunks_sent
    <2> QED
      BY <1>5, <2>2 DEF Proceed
  <1>6. CASE Unroutable(p)
    <2>1. UNCHANGED retries
      BY <1>6 DEF Unroutable, maps
    <2>2. \A s : chunks_sent(s)' = chunks_sent(s)
      BY <2>1 DEF chunks_sent
    <2> QED
      BY <1>6, <2>2 DEF Unroutable
  <1>7. CASE Adapterless(p)
    <2>1. UNCHANGED retries
      BY <1>7 DEF Adapterless, maps
    <2>2. \A s : chunks_sent(s)' = chunks_sent(s)
      BY <2>1 DEF chunks_sent
    <2> QED
      BY <1>7, <2>2 DEF Adapterless
  <1>8. CASE Resume(p)
    <2>1. UNCHANGED retries
      BY <1>8 DEF Resume, maps
    <2>2. \A s : chunks_sent(s)' = chunks_sent(s)
      BY <2>1 DEF chunks_sent
    <2> QED
      BY <1>8, <2>2 DEF Resume
  <1>9. CASE SendFails(p)
    <2>1. UNCHANGED retries
      BY <1>9 DEF SendFails, maps
    <2>2. \A s : chunks_sent(s)' = chunks_sent(s)
      BY <2>1 DEF chunks_sent
    <2> QED
      BY <1>9, <2>2 DEF SendFails
  <1>10. CASE RecordOk(p)
    <2>1. UNCHANGED retries
      BY <1>10 DEF RecordOk, maps
    <2>2. \A s : chunks_sent(s)' = chunks_sent(s)
      BY <2>1 DEF chunks_sent
    <2> QED
      BY <1>10, <2>2 DEF RecordOk, insert_delivered
  <1>11. CASE Release(p)
    <2>1. UNCHANGED retries
      BY <1>11 DEF Release, maps
    <2>2. \A s : chunks_sent(s)' = chunks_sent(s)
      BY <2>1 DEF chunks_sent
    <2> QED
      BY <1>11, <2>2 DEF Release
  <1>12. CASE Persist(p)
    <2>1. UNCHANGED retries
      BY <1>12 DEF Persist, maps
    <2>2. \A s : chunks_sent(s)' = chunks_sent(s)
      BY <2>1 DEF chunks_sent
    <2>3. UNCHANGED <<copies, delivered>> /\ crashes + faults <= crashes' + faults'
      BY <1>12 DEF Persist, DbError
    <2>4. CASE NextRow(p, "persist")
      BY <2>2, <2>3, <2>4
    <2>5. CASE Step(p, "persist", "exhaust") /\ UNCHANGED <<scope, locals>>
      BY <2>2, <2>3, <2>5
    <2> QED
      BY <1>12, <2>4, <2>5 DEF Persist
  <1>13. CASE ParkRow(p)
    <2>1. UNCHANGED retries
      BY <1>13 DEF ParkRow, maps
    <2>2. \A s : chunks_sent(s)' = chunks_sent(s)
      BY <2>1 DEF chunks_sent
    <2> QED
      BY <1>13, <2>2 DEF ParkRow
  <1>14. CASE WriteLetter(p)
    <2>1. UNCHANGED retries
      BY <1>14 DEF WriteLetter, maps
    <2>2. \A s : chunks_sent(s)' = chunks_sent(s)
      BY <2>1 DEF chunks_sent
    <2> QED
      BY <1>14, <2>2 DEF WriteLetter
  <1>15. CASE emit_delivery_failure_error_card(p)
    <2>1. UNCHANGED retries
      BY <1>15 DEF emit_delivery_failure_error_card, maps
    <2>2. \A s : chunks_sent(s)' = chunks_sent(s)
      BY <2>1 DEF chunks_sent
    <2>3. UNCHANGED <<copies, delivered, crashes, faults>> /\ NextRow(p, "card")
      BY <1>15 DEF emit_delivery_failure_error_card
    <2> QED
      BY <2>2, <2>3
  <1>16. CASE FinishPass(p)
    <2>1. UNCHANGED retries
      BY <1>16 DEF FinishPass, maps
    <2>2. \A s : chunks_sent(s)' = chunks_sent(s)
      BY <2>1 DEF chunks_sent
    <2> QED
      BY <1>16, <2>2 DEF FinishPass
  <1>17. CASE RecordErr(p)
    <2>1. UNCHANGED retries
      BY <1>17 DEF RecordErr, maps
    <2>2. \A s : chunks_sent(s)' = chunks_sent(s)
      BY <2>1 DEF chunks_sent
    <2> QED
      BY <1>17, <2>2 DEF RecordErr, DbError
  <1>18. CASE AbortPass(p)
    <2>1. UNCHANGED retries
      BY <1>18 DEF AbortPass, maps
    <2>2. \A s : chunks_sent(s)' = chunks_sent(s)
      BY <2>1 DEF chunks_sent
    <2> QED
      BY <1>18, <2>2 DEF AbortPass, DbError
  <1>19. CASE Panic(p)
    <2>1. UNCHANGED retries
      BY <1>19 DEF Panic, maps
    <2>2. \A s : chunks_sent(s)' = chunks_sent(s)
      BY <2>1 DEF chunks_sent
    <2> QED
      BY <1>19, <2>2 DEF Panic
  <1>20. CASE bump_retry(p)
    <2>1. PICK r \in RowIds : r = cur[p]
      BY <1>20 DEF bump_retry
    <2>2. Entry(r).sent = chunks_sent(r)
      BY DEF Entry, chunks_sent
    <2>3. retries'[r].on /\ retries'[r].sent = Entry(r).sent
      BY <1>20, <2>1 DEF bump_retry, TypeRetries
    <2>4. \A s \in RowIds : chunks_sent(s)' = chunks_sent(s)
      BY <1>20, <2>1, <2>2, <2>3 DEF bump_retry, TypeRetries, chunks_sent
    <2> QED
      BY <1>20, <2>4 DEF bump_retry
  <1>21. CASE SettleOk(p)
    <2>1. PICK r \in RowIds : r = cur[p]
      BY <1>21 DEF SettleOk
    <2>2. \A s \in RowIds \ {r} : chunks_sent(s)' = chunks_sent(s)
      BY <1>21, <2>1 DEF SettleOk, TypeRetries, chunks_sent
    <2>3. delivered' = delivered /\ delivered[r] # "none"
      BY <1>21, <2>1 DEF SettleOk
    <2> QED
      BY <1>21, <2>1, <2>2, <2>3 DEF SettleOk
  <1>22. CASE SettleFailed(p)
    <2>1. PICK r \in RowIds : r = cur[p]
      BY <1>22 DEF SettleFailed
    <2>2. \A s \in RowIds \ {r} : chunks_sent(s)' = chunks_sent(s)
      BY <1>22, <2>1 DEF SettleFailed, TypeRetries, chunks_sent
    <2>3. delivered'[r] # "none" /\ \A s \in RowIds \ {r} : delivered'[s] = delivered[s]
      BY <1>22, <2>1 DEF SettleFailed, insert_delivered
    <2> QED
      BY <1>22, <2>1, <2>2, <2>3 DEF SettleFailed
  <1>23. CASE WriteTerminal(p)
    <2>1. PICK r \in RowIds : r = cur[p]
      BY <1>23 DEF WriteTerminal
    <2>2. \A s \in RowIds \ {r} : chunks_sent(s)' = chunks_sent(s)
      BY <1>23, <2>1 DEF WriteTerminal, TypeRetries, chunks_sent
    <2>3. delivered'[r] # "none" /\ \A s \in RowIds \ {r} : delivered'[s] = delivered[s]
      BY <1>23, <2>1 DEF WriteTerminal, insert_delivered
    <2> QED
      BY <1>23, <2>1, <2>2, <2>3 DEF WriteTerminal
  <1>24. CASE record_exhausted_row(p)
    <2>1. PICK r \in RowIds : r = cur[p]
      BY <1>24 DEF record_exhausted_row
    <2>2. \A s \in RowIds \ {r} : chunks_sent(s)' = chunks_sent(s)
      BY <1>24, <2>1 DEF record_exhausted_row, TypeRetries, chunks_sent
    <2>3. delivered'[r] # "none" /\ \A s \in RowIds \ {r} : delivered'[s] = delivered[s]
      BY <1>24, <2>1 DEF record_exhausted_row, insert_delivered
    <2> QED
      BY <1>24, <2>1, <2>2, <2>3 DEF record_exhausted_row
  <1> QED
    BY <1>1, <1>2, <1>3, <1>4, <1>5, <1>6, <1>7, <1>8, <1>9, <1>10, <1>11, <1>12, <1>13, <1>14,
       <1>15, <1>16, <1>17, <1>18, <1>19, <1>20, <1>21, <1>22, <1>23, <1>24 DEF PassStep, Fault

\* A pass begins with the rows that have no record, and loads no progress.
LEMMA BeginResend ==
    ASSUME TypeOK, InHand, Cold, ResendInv, NEW p \in Passes, BeginPass(p)
    PROVE  ResendKept
  <1>1. /\ UNCHANGED <<copies, delivered, crashes, faults, cur, idx, res>>
        /\ pc[p] = "idle" /\ pc' = [pc EXCEPT ![p] = "scan"]
        /\ todo' = [todo EXCEPT ![p] = Undelivered]
    BY DEF BeginPass, Step, records, seen, trouble, locals
  <1>2. /\ Undelivered \subseteq RowIds /\ \A r \in Undelivered : delivered[r] = "none"
        /\ NoRow \notin RowIds /\ crashes \in Nat /\ faults \in Nat
    BY SpendNumbers, ConstantsAssumption DEF Undelivered, TypeOK, TypeOutbound, RowIds, NoRow
  <1>3. ASSUME NEW r \in RowIds PROVE chunks_sent(r)' = chunks_sent(r)
    <2>1. retries'[r] = Rebase(prime_retry_cache(r), p) /\ retries[r] \in RetryRec
      BY DEF BeginPass, TypeOK, TypeRetries
    <2>2. CASE prime_retry_cache(r) = retries[r]
      <3>1. retries'[r].on = retries[r].on /\ retries'[r].sent = retries[r].sent
        BY <2>1, <2>2 DEF Rebase, RetryRec
      <3> QED
        BY <3>1 DEF chunks_sent
    <2>3. CASE ~ retries[r].on /\ prime_retry_cache(r) =
                 [on |-> TRUE, tries |-> disk[r].tries, sent |-> 0, open |-> disk[r].open,
                  ahead |-> {}]
      <3>1. chunks_sent(r)' = 0
        BY <2>1, <2>3 DEF Rebase, chunks_sent
      <3> QED
        BY <2>3, <3>1 DEF chunks_sent
    <2> QED
      BY <2>2, <2>3 DEF prime_retry_cache
  <1>4. /\ \A q \in Passes : pc'[q] = IF q = p THEN "scan" ELSE pc[q]
        /\ \A q \in Passes : todo'[q] = IF q = p THEN Undelivered ELSE todo[q]
    BY <1>1 DEF TypeOK, TypePc, TypeScope
  <1>5. \A q \in Passes : pc[q] \notin {"idle", "scan"} => cur[q] \in RowIds
    BY CurIsRow
  <1>6. InStep' /\ Acked'
    BY <1>1, <1>3, <1>4, <1>5 DEF ResendInv, InStep, Acked
  <1>7. OffList'
    BY <1>1, <1>2, <1>4 DEF ResendInv, OffList
  <1>8. \A r \in RowIds, k \in 1..MaxParts, q \in Passes :
          delivered[r] # "none" /\ May(q, r, k)' => May(q, r, k)
    BY <1>1, <1>2, <1>4 DEF May
  <1> QED
    BY <1>1, <1>2, <1>3, <1>4, <1>6, <1>7, <1>8 DEF ResendKept

LEMMA ResendStep ==
    ASSUME TypeOK, TypeOK', InHand, Cold, OneSender, ResendInv, [Next]_vars
    PROVE  ResendInv'
  <1>1. ASSUME NEW p \in Passes, PassStep(p) \/ Fault(p) \/ BeginPass(p) PROVE ResendInv'
    BY <1>1, QuietResend, BeginResend, KeptResend, SendPartResend
  <1>2. ASSUME UNCHANGED <<copies, delivered, pc, todo, cur, idx, res, crashes, faults>>,
               \A r \in RowIds : /\ retries'[r].on = retries[r].on
                                 /\ retries'[r].sent = retries[r].sent
        PROVE  ResendInv'
    <2>1. \A r \in RowIds : chunks_sent(r)' = chunks_sent(r)
      BY <1>2 DEF chunks_sent
    <2>2. \A q \in Passes : pc[q] \notin {"idle", "scan"} => cur[q] \in RowIds
      BY CurIsRow
    <2>3. InStep' /\ OffList' /\ Acked'
      BY <1>2, <2>1, <2>2 DEF ResendInv, InStep, OffList, Acked
    <2>4. ResendKept
      BY <1>2, <2>1, <2>3, SpendNumbers DEF ResendKept, May
    <2> QED
      BY <2>4, KeptResend
  <1>3. ASSUME NEW r \in RowIds, AgeRow(r) \/ ClaimAges(r) \/ ReplayInsert(r) PROVE ResendInv'
    BY <1>2, <1>3 DEF AgeRow, ClaimAges, ReplayInsert, records, maps, scope, locals, seen, trouble
  <1>4. ASSUME NEW r \in RowIds, WindowEnds(r) PROVE ResendInv'
    <2>1. UNCHANGED <<copies, delivered, pc, todo, cur, idx, res, crashes, faults>>
      BY <1>4 DEF WindowEnds, records, scope, locals, seen, trouble
    <2>2. \A s \in RowIds : retries'[s].on = retries[s].on /\ retries'[s].sent = retries[s].sent
      BY <1>4 DEF WindowEnds, TypeOK, TypeRetries
    <2> QED
      BY <1>2, <2>1, <2>2
  <1>5. CASE ReplayDelete \/ Emit \/ SetRouting \/ UNCHANGED vars
    BY <1>2, <1>5 DEF ReplayDelete, Emit, SetRouting, records, maps, scope, locals, seen, trouble, vars
  <1>6. CASE HostRestart
    <2>1. /\ UNCHANGED <<copies, delivered, faults>> /\ crashes' = crashes + 1
          /\ \A q \in Passes : pc'[q] = "idle" /\ todo'[q] = {} /\ cur'[q] = NoRow
      BY <1>6 DEF HostRestart, records, seen
    <2>2. InStep' /\ OffList' /\ Acked'
      BY <2>1 DEF InStep, OffList, Acked
    <2>3. ResendKept
      BY <2>1, <2>2, SpendNumbers DEF ResendKept, May
    <2> QED
      BY <2>3, KeptResend
  <1> QED
    BY <1>1, <1>3, <1>4, <1>5, <1>6 DEF Next, Clock

LEMMA ResendInit == ASSUME Init PROVE ResendInv
  <1>1. /\ \A r \in RowIds, k \in 1..MaxParts : copies[r][k] = 0
        /\ \A r \in RowIds : delivered[r] = "none"
        /\ \A p \in Passes : pc[p] = "idle" /\ todo[p] = {} /\ cur[p] = NoRow
        /\ crashes = 0 /\ faults = 0
    BY DEF Init
  <1> QED
    BY <1>1 DEF ResendInv, OpenRows, ClosedRows, InStep, OffList, Acked

LEMMA ResendBounded == ASSUME TypeOK, ResendInv PROVE ResendBound
  <1> SUFFICES ASSUME NEW r \in RowIds, NEW k \in 1..MaxParts
               PROVE  copies[r][k] <= Cardinality(Passes) + crashes + faults
    BY DEF ResendBound
  <1>0. /\ copies[r][k] \in Nat /\ crashes \in Nat /\ faults \in Nat
        /\ Cardinality(Passes) \in Nat /\ Cardinality(Passes) # 0
        /\ Cardinality(MaySend(r, k)) \in Nat
    BY SpendNumbers, PassesCount, MaySendFinite DEF TypeOK, TypeSeen
  <1>1. CASE delivered[r] = "none"
    <2>1. copies[r][k] <= crashes + faults + 1
      BY <1>1 DEF ResendInv, OpenRows
    <2> QED
      BY <1>0, <2>1
  <1>2. CASE delivered[r] # "none"
    <2>1. copies[r][k] + Cardinality(MaySend(r, k)) <= Cardinality(Passes) + crashes + faults
      BY <1>2 DEF ResendInv, ClosedRows
    <2> QED
      BY <1>0, <2>1
  <1> QED
    BY <1>1, <1>2

\* While no pass outlasts ABSOLUTE_CEILING_MS, the platform takes a part at most
\* once per loop, and once more per crash, panic or failed record: resuming a
\* split row and the record of a sent one keep every other repetition away.
THEOREM ResendsAreBounded == ~ SlowPass => (Spec => []ResendBound)
  <1> SUFFICES ASSUME ~ SlowPass PROVE Spec => []ResendBound
    OBVIOUS
  <1>1. /\ TypeOK /\ InHand /\ ClaimInv /\ [Next]_vars => ClaimInv'
        /\ TypeOK /\ TypeOK' /\ InHand /\ BudgetInv /\ [Next]_vars => BudgetInv'
    BY ClaimStep, BudgetStep
  <1>2. TypeOK /\ TypeOK' /\ InHand /\ ClaimInv /\ BudgetInv /\ ResendInv /\ [Next]_vars => ResendInv'
    BY ResendStep DEF BudgetInv, ClaimInv
  <1>3. (Init => BudgetInv) /\ (Init => ResendInv)
    BY BudgetInit, ResendInit
  <1>4. TypeOK /\ ResendInv => ResendBound
    BY ResendBounded
  <1> QED
    BY <1>1, <1>2, <1>3, <1>4, ClaimInit, TypeSafety, PTL DEF Spec

============================================================================
