------------------------------ MODULE Delivery ------------------------------
(***************************************************************************)
(* Outbound delivery of one session: the two loops of DeliveryService (the *)
(* active loop and the sweep loop share ONE service) run passes of         *)
(* process_session_once over the rows a runner wrote to outbound.db.       *)
(*                                                                         *)
(* A pass works from a snapshot of the undelivered rows, claims each row   *)
(* in an in-memory map, sends its parts through the channel adapter (an    *)
(* await per part), records the outcome in inbound.db and keeps retry      *)
(* bookkeeping in memory and on the row.  The claim is released BEFORE the *)
(* outcome is settled, so every numbered step below may interleave with    *)
(* the other loop, a panic of the loop's task, a database error or a crash *)
(* of the host.                                                            *)
(***************************************************************************)
EXTENDS Integers, FiniteSets

CONSTANTS
    Passes,       \* the loops that run process_session_once
    SweepPass,    \* the loop that polls every active session, running or not
    MaxRows,      \* BOUND: rows messages_out can hold
    MaxEmit,      \* BOUND: rows present before the runner stops writing
    MaxParts,     \* BOUND: parts one chat row is split into
    MaxAttempts,  \* MAX_DELIVERY_ATTEMPTS
    MaxCrashes,   \* BOUND: host crashes
    MaxFaults,    \* BOUND: panics of a loop and failed database writes
    SlowPass      \* whether a pass may outlast ABSOLUTE_CEILING_MS

ASSUME ConstantsAssumption ==
    /\ SweepPass \in Passes /\ IsFiniteSet(Passes)
    /\ MaxRows \in Nat /\ MaxEmit \in 0..MaxRows
    /\ MaxParts \in Nat \ {0}
    /\ MaxAttempts \in Nat \ {0}
    /\ MaxCrashes \in Nat /\ MaxFaults \in Nat
    /\ SlowPass \in BOOLEAN

RowIds == 1..MaxRows
NoRow == 0

\* What delivery tells apart about a row.  "chat": sent through an adapter and
\* replayable; "agent": handed to a host-local handler; "ui": chrome (error
\* cards, breadcrumbs, ...) that is never dead-lettered.
Kinds == {"chat", "agent", "ui"}
\* `parts` is 0 for a chat row with empty text; `own` says the row carries its
\* own channel and platform; `from` is the row a replay copied it from.
RowRec == [kind: Kinds, parts: 0..MaxParts, own: BOOLEAN, from: 0..MaxRows]
BlankRow == [kind |-> "chat", parts |-> 0, own |-> FALSE, from |-> NoRow]

\* How process_row returned: the arms of the match in process_session_once.
Outcomes == {"ok", "retry", "system", "noadapter", "noroute", "hard"}
\* Where a pass stands; "idle" is between two ticks of its loop.
Steps == {"idle", "scan", "claim", "guard", "dispatch", "send", "record",
          "release", "settle", "persist", "exhaust", "card", "terminal"}

VARIABLES
    \* outbound.db, inbound.db and the central database
    rows,       \* messages_out: RowIds -> RowRec; rows 1..nrows exist
    nrows,      \* number of rows written so far (ids follow seq order)
    delivered,  \* the delivered table: "none", "ok" or "failed" per row
    disk,       \* tries / not_before columns of messages_out
    letters,    \* rows of outbound_dropped_messages per message, by whether
                \*   the letter carries a channel and a platform
    routing,    \* session_routing holds a channel and a platform
    \* memory of the host process
    primed,     \* retries_primed
    retries,    \* the retries map
    inflight,   \* the inflight map
    pc,         \* per loop, where its pass stands and the locals of that pass:
    todo,       \*   rows of the snapshot still to visit
    route,      \*   session_routing as read at the start
    parked,     \*   no_adapter_pending
    cur,        \*   the row in hand
    idx,        \*   parts of it known to be sent
    res,        \*   what process_row returned
    bumped,     \*   the attempt count bump_retry is about to persist
    replaying,  \* the letter a replay re-inserted and still has to delete
    backlog,    \* no_adapter_backlog
    \* the environment
    adapter,    \* a live adapter is registered for the channel
    old,        \* rows past NO_ADAPTER_MAX_AGE_HOURS
    \* observation
    copies,     \* how often the platform (or the handler) took each part of a row
    fails,      \* failed sends of a row
    why,        \* what wrote the row's delivered record
    cards,      \* error cards emitted for a row
    crashes, faults

outbound == <<rows, nrows, disk>>
records == <<delivered, why>>
central == <<letters, replaying>>
maps == <<retries, inflight>>
world == <<routing, adapter, old>>
seen == <<copies, fails, cards>>
trouble == <<crashes, faults>>
scope == <<todo, route, parked>>
locals == <<cur, idx, res, bumped>>
vars == <<rows, nrows, disk, delivered, why, letters, replaying, retries,
          inflight, primed, pc, todo, route, parked, cur, idx, res, bumped,
          backlog, routing, adapter, old, copies, fails, cards, crashes, faults>>

-----------------------------------------------------------------------------
(* Deadlines are compared with the `now` a pass took when it began, not     *)
(* with the current time.  `open`: the deadline is still in the future;     *)
(* `ahead`: the running passes whose `now` lies before it.                  *)

RetryRec == [on: BOOLEAN, tries: Nat, sent: 0..MaxParts,
             open: BOOLEAN, ahead: SUBSET Passes]
NoRetry == [on |-> FALSE, tries |-> 0, sent |-> 0, open |-> FALSE, ahead |-> {}]

ClaimRec == [on: BOOLEAN, open: BOOLEAN, ahead: SUBSET Passes]
NoClaim == [on |-> FALSE, open |-> FALSE, ahead |-> {}]

Running == {p \in Passes : pc[p] # "idle"}

\* Steps at which a pass holds the in-flight claim of its row.
Owning == {"guard", "dispatch", "send", "record", "release"}
Owned(r) == \E p \in Passes : cur[p] = r /\ pc[p] \in Owning

\* A pass that begins now is behind every deadline that is still open.
Rebase(d, p) ==
    [d EXCEPT !.ahead = IF d.open THEN @ \cup {p} ELSE @ \ {p}]

\* retries.entry(key).or_insert: a new entry's not_before is this very instant.
Entry(r) ==
    IF retries[r].on THEN retries[r]
    ELSE [on |-> TRUE, tries |-> 0, sent |-> 0, open |-> FALSE, ahead |-> Running]

Replayable(r) == rows[r].kind # "ui"

\* Whether a letter names a channel and a platform.
Targets == {"whole", "bare"}
NoLetter == [row |-> NoRow, target |-> "bare"]
DeadLettered(r) == \E t \in Targets : letters[r][t] > 0

\* Mutant of insert_delivered: INSERT OR REPLACE, so the last record wins.
InsertOverwrites(r, status, reason) ==
    /\ delivered' = [delivered EXCEPT ![r] = status]
    /\ why' = [why EXCEPT ![r] = reason]

\* delivered::insert is ON CONFLICT DO NOTHING: the first record of a row wins.
insert_delivered(r, status, reason) ==
    /\ delivered' = [delivered EXCEPT ![r] = IF @ = "none" THEN status ELSE @]
    /\ why' = [why EXCEPT ![r] = IF delivered[r] = "none" THEN reason ELSE @]

\* messages_out::insert: a fresh row at the next sequence number.
insert_message_out(rec) ==
    /\ nrows < MaxRows
    /\ nrows' = nrows + 1
    /\ rows' = [rows EXCEPT ![nrows + 1] = rec]
    /\ UNCHANGED disk

DbError ==
    /\ faults < MaxFaults
    /\ faults' = faults + 1
    /\ UNCHANGED crashes

Step(p, from, to) ==
    /\ pc[p] = from
    /\ pc' = [pc EXCEPT ![p] = to]

\* The locals of the loop body go out of scope.
Clear(p) ==
    /\ cur' = [cur EXCEPT ![p] = NoRow]
    /\ idx' = [idx EXCEPT ![p] = 0]
    /\ res' = [res EXCEPT ![p] = "ok"]
    /\ bumped' = [bumped EXCEPT ![p] = 0]

\* The pass is done with its row.
NextRow(p, from) == Step(p, from, "scan") /\ Clear(p) /\ UNCHANGED scope

\* The pass ends, or its task dies.
EndPass(p) ==
    /\ pc' = [pc EXCEPT ![p] = "idle"]
    /\ Clear(p)
    /\ todo' = [todo EXCEPT ![p] = {}]
    /\ route' = [route EXCEPT ![p] = FALSE]
    /\ parked' = [parked EXCEPT ![p] = 0]

-----------------------------------------------------------------------------
(* The start of process_session_once: snapshot, prime_retry_cache, `now`.   *)

\* Mutant of Undelivered: the delivered ids are not subtracted.
EveryRow == 1..nrows

\* list_due less get_delivered_ids: the rows a pass will visit.
Undelivered == {r \in 1..nrows : delivered[r] = "none"}

\* Mutant of prime_retry_cache: the persisted counts are not loaded.
PrimeNothing(r) == retries[r]

\* prime_retry_cache: the first pass of a host lifetime loads the persisted
\* attempt counts and windows of rows that have no record yet.
prime_retry_cache(r) ==
    IF /\ ~primed
       /\ delivered[r] = "none"
       /\ ~retries[r].on
       /\ disk[r].tries > 0 \/ disk[r].open
    THEN [on |-> TRUE, tries |-> disk[r].tries, sent |-> 0, open |-> disk[r].open,
          ahead |-> {}]
    ELSE retries[r]

BeginPass(p) ==
    /\ Step(p, "idle", "scan")
    /\ todo' = [todo EXCEPT ![p] = Undelivered]
    /\ route' = [route EXCEPT ![p] = routing]
    /\ primed' = TRUE
    /\ retries' = [r \in RowIds |-> Rebase(prime_retry_cache(r), p)]
    /\ inflight' = [r \in RowIds |-> Rebase(inflight[r], p)]
    /\ UNCHANGED <<outbound, records, central, parked, locals, backlog, world, seen, trouble>>

\* Rows are visited in seq order; one inside its backoff window is deferred.
ScanRow(p) ==
    /\ pc[p] = "scan"
    /\ \E r \in todo[p] :
         /\ \A s \in todo[p] : r <= s
         /\ todo' = [todo EXCEPT ![p] = @ \ {r}]
         /\ IF retries[r].on /\ p \in retries[r].ahead
            THEN UNCHANGED <<pc, cur>>
            ELSE /\ pc' = [pc EXCEPT ![p] = "claim"]
                 /\ cur' = [cur EXCEPT ![p] = r]
    /\ UNCHANGED <<outbound, records, central, maps, primed, route, parked, idx, res, bumped,
                   backlog, world, seen, trouble>>

\* Mutant of Claimed: the slot is taken without looking whether it is free.
NeverClaimed(p, r) == FALSE

\* The slot holds a claim younger than the ceiling, by the pass's own `now`.
Claimed(p, r) == inflight[r].on /\ p \in inflight[r].ahead

\* The entry-API claim: skip a row another pass claimed less than the ceiling
\* ago, take it otherwise.
SkipClaimed(p) ==
    /\ NextRow(p, "claim")
    /\ Claimed(p, cur[p])
    /\ UNCHANGED <<outbound, records, central, maps, primed, backlog, world, seen, trouble>>

ClaimRow(p) ==
    /\ Step(p, "claim", "guard")
    /\ ~Claimed(p, cur[p])
    /\ inflight' = [inflight EXCEPT ![cur[p]] =
                      [on |-> TRUE, open |-> TRUE, ahead |-> Running]]
    /\ UNCHANGED <<outbound, records, central, retries, primed, scope, locals, backlog, world,
                   seen, trouble>>

\* Mutant of Spent: the budget is compared with an off-by-one.
AlmostSpent(r) == retries[r].on /\ retries[r].tries + 1 >= MaxAttempts

Spent(r) == retries[r].on /\ retries[r].tries >= MaxAttempts

\* Persisted-exhaustion guard: give the row up without another attempt.
GiveUpSpent(p) ==
    /\ Step(p, "guard", "exhaust")
    /\ Spent(cur[p])
    /\ inflight' = [inflight EXCEPT ![cur[p]] = NoClaim]
    /\ UNCHANGED <<outbound, records, central, retries, primed, scope, locals, backlog, world,
                   seen, trouble>>

Proceed(p) ==
    /\ Step(p, "guard", "dispatch")
    /\ ~Spent(cur[p])
    /\ UNCHANGED <<outbound, records, central, maps, primed, scope, locals, backlog, world,
                   seen, trouble>>

-----------------------------------------------------------------------------
(* process_row, resolve_target and dispatch_chat                            *)

\* resolve_target: host-local rows need no route; the others need a channel
\* and platform of their own or the session's.
Routed(p, r) == rows[r].kind = "agent" \/ rows[r].own \/ route[p]

Return(p, from, outcome) ==
    /\ Step(p, from, "release")
    /\ res' = [res EXCEPT ![p] = outcome]
    /\ UNCHANGED <<scope, cur, idx, bumped>>

Unroutable(p) ==
    /\ Return(p, "dispatch", "noroute")
    /\ ~Routed(p, cur[p])
    /\ UNCHANGED <<outbound, records, central, maps, primed, backlog, world, seen, trouble>>

Adapterless(p) ==
    /\ Return(p, "dispatch", "noadapter")
    /\ Routed(p, cur[p]) /\ rows[cur[p]].kind # "agent" /\ ~adapter
    /\ UNCHANGED <<outbound, records, central, maps, primed, backlog, world, seen, trouble>>

\* Mutant of chunks_sent: the attempt count is taken for the progress.
TriesForChunks(r) == IF retries[r].on THEN retries[r].tries ELSE 0

\* The parts an earlier attempt of this host lifetime delivered.
chunks_sent(r) == IF retries[r].on THEN retries[r].sent ELSE 0

\* Resume after the parts an earlier attempt of this host lifetime delivered.
\* A row with no parts left (or empty text) goes straight to its record.
Resume(p) ==
    LET start == chunks_sent(cur[p])
    IN /\ pc[p] = "dispatch"
       /\ Routed(p, cur[p]) /\ (rows[cur[p]].kind = "agent" \/ adapter)
       /\ Step(p, "dispatch", IF start >= rows[cur[p]].parts THEN "record" ELSE "send")
       /\ idx' = [idx EXCEPT ![p] = start]
       /\ UNCHANGED <<outbound, records, central, maps, primed, scope, cur, res, bumped,
                      backlog, world, seen, trouble>>

\* Mutant of note_part: one part too many.
NoteNextPart(r, n) ==
    retries' = [retries EXCEPT ![r] = [Entry(r) EXCEPT !.sent = n + 1]]

\* The progress closure of dispatch_chat: a split row records the parts sent
\* before the next one, in a fresh entry if need be.
note_part(r, n) ==
    LET e == Entry(r)
    IN retries' = IF rows[r].parts > 1
                  THEN [retries EXCEPT ![r] = [on |-> TRUE, tries |-> e.tries, sent |-> n,
                                               open |-> e.open, ahead |-> e.ahead]]
                  ELSE retries

\* The adapter (or the agent_dispatch handler) takes one part.
SendPart(p) ==
    LET r == cur[p]
        n == idx[p] + 1
    IN /\ pc[p] = "send"
       /\ pc' = [pc EXCEPT ![p] = IF n = rows[r].parts THEN "record" ELSE "send"]
       /\ copies' = [copies EXCEPT ![r][n] = @ + 1]
       /\ note_part(r, n)
       /\ idx' = [idx EXCEPT ![p] = n]
       /\ UNCHANGED <<outbound, records, central, inflight, primed, scope, cur, res, bumped,
                      backlog, world, fails, cards, trouble>>

\* The adapter refuses a part: Rate, Transport and Io are retryable, the rest
\* is not; a handler error is a SystemAction error.
SendFails(p) ==
    /\ pc[p] = "send"
    /\ \E e \in IF rows[cur[p]].kind = "agent" THEN {"system"} ELSE {"retry", "hard"} :
         Return(p, "send", e)
    /\ fails' = [fails EXCEPT ![cur[p]] = @ + 1]
    /\ UNCHANGED <<outbound, records, central, maps, primed, backlog, world, copies, cards,
                   trouble>>

\* delivered::insert(.., "ok") at the end of the dispatcher.  When the write
\* fails the error takes the catch-all arm like any non-retryable one.
RecordOk(p) ==
    /\ Return(p, "record", "ok")
    /\ insert_delivered(cur[p], "ok", "sent")
    /\ UNCHANGED <<outbound, central, maps, primed, backlog, world, seen, trouble>>

RecordErr(p) ==
    /\ Return(p, "record", "hard")
    /\ DbError
    /\ UNCHANGED <<outbound, records, central, maps, primed, backlog, world, seen>>

\* inflight.remove: the claim is gone before the outcome is settled.
Release(p) ==
    /\ Step(p, "release", "settle")
    /\ inflight' = [inflight EXCEPT ![cur[p]] = NoClaim]
    /\ UNCHANGED <<outbound, records, central, retries, primed, scope, locals, backlog, world,
                   seen, trouble>>

-----------------------------------------------------------------------------
(* The arms of the match on process_row's result                            *)

SettleOk(p) ==
    /\ res[p] = "ok"
    /\ NextRow(p, "settle")
    /\ retries' = [retries EXCEPT ![cur[p]] = NoRetry]
    /\ UNCHANGED <<outbound, records, central, inflight, primed, backlog, world, seen, trouble>>

\* bump_retry, the in-memory half.  The last bump leaves not_before alone.
bump_retry(p) ==
    LET e == Entry(cur[p])
        n == e.tries + 1
    IN /\ Step(p, "settle", "persist")
       /\ res[p] = "retry"
       /\ bumped' = [bumped EXCEPT ![p] = n]
       /\ retries' = [retries EXCEPT ![cur[p]] =
                        IF n >= MaxAttempts
                        THEN [on |-> TRUE, tries |-> n, sent |-> e.sent,
                              open |-> e.open, ahead |-> e.ahead]
                        ELSE [on |-> TRUE, tries |-> n, sent |-> e.sent,
                              open |-> TRUE, ahead |-> Running]]
       /\ UNCHANGED <<outbound, records, central, inflight, primed, scope, cur, idx, res,
                      backlog, world, seen, trouble>>

\* set_retry_state, then Defer or Fail; a failed write is logged and ignored.
Persist(p) ==
    /\ pc[p] = "persist"
    /\ \/ /\ disk' = [disk EXCEPT ![cur[p]] = [tries |-> bumped[p],
                                               open |-> bumped[p] < MaxAttempts]]
          /\ UNCHANGED trouble
       \/ DbError /\ UNCHANGED disk
    /\ \/ bumped[p] < MaxAttempts /\ NextRow(p, "persist")
       \/ /\ bumped[p] >= MaxAttempts /\ Step(p, "persist", "exhaust")
          /\ UNCHANGED <<scope, locals>>
    /\ UNCHANGED <<rows, nrows, records, central, maps, primed, backlog, world, seen>>

\* Mutant of record_exhausted_row: a failing write of the record is swallowed.
CardWithoutRecord(p) ==
    /\ Step(p, "exhaust", "card")
    /\ UNCHANGED <<outbound, records, central, maps, primed, scope, locals, backlog, world, seen,
                   trouble>>

\* record_exhausted_row: the failed record, then the error card.  No row is
\* written to outbound_dropped_messages.
record_exhausted_row(p) ==
    /\ Step(p, "exhaust", "card")
    /\ insert_delivered(cur[p], "failed", "exhausted")
    /\ retries' = [retries EXCEPT ![cur[p]] = NoRetry]
    /\ UNCHANGED <<outbound, central, inflight, primed, scope, locals, backlog, world, seen,
                   trouble>>

\* emit_delivery_failure_error_card: only for a row with a channel of its own
\* (when MaxRows is reached the card is not modelled as a row of its own).
emit_delivery_failure_error_card(p) ==
    /\ NextRow(p, "card")
    /\ IF rows[cur[p]].own
       THEN /\ cards' = [cards EXCEPT ![cur[p]] = @ + 1]
            /\ \/ insert_message_out([kind |-> "ui", parts |-> 1, own |-> TRUE, from |-> NoRow])
               \/ nrows = MaxRows /\ UNCHANGED outbound
       ELSE UNCHANGED <<cards, outbound>>
    /\ UNCHANGED <<records, central, maps, primed, backlog, world, copies, fails, trouble>>

\* SystemAction and other non-retryable errors: failed at once.
SettleFailed(p) ==
    /\ res[p] \in {"system", "hard"}
    /\ NextRow(p, "settle")
    /\ insert_delivered(cur[p], "failed", res[p])
    /\ retries' = [retries EXCEPT ![cur[p]] = NoRetry]
    /\ UNCHANGED <<outbound, central, inflight, primed, backlog, world, seen, trouble>>

\* NoAdapter below the age ceiling: the row stays pending, counted for the gauge.
ParkRow(p) ==
    /\ res[p] = "noadapter" /\ cur[p] \notin old
    /\ Step(p, "settle", "scan") /\ Clear(p)
    /\ parked' = [parked EXCEPT ![p] = @ + 1]
    /\ UNCHANGED <<outbound, records, central, maps, primed, todo, route, backlog, world, seen,
                   trouble>>

\* Mutant of insert_dropped: only agent rows are kept for a replay.
DropChatSilently(r, target) ==
    letters' = IF rows[r].kind = "agent"
               THEN [letters EXCEPT ![r][target] = @ + 1] ELSE letters

\* outbound_dropped_messages::insert, for the replayable kinds.  The letter
\* keeps the target that was resolved: a whole one when only the adapter was
\* missing, none that a replay could use when there was no route.
insert_dropped(r, target) ==
    letters' = IF Replayable(r) THEN [letters EXCEPT ![r][target] = @ + 1] ELSE letters

\* record_no_route and record_no_adapter_expired: the dead letter first ...
WriteLetter(p) ==
    /\ res[p] = "noroute" \/ (res[p] = "noadapter" /\ cur[p] \in old)
    /\ Step(p, "settle", "terminal")
    /\ insert_dropped(cur[p], IF res[p] = "noadapter" THEN "whole" ELSE "bare")
    /\ UNCHANGED <<outbound, records, replaying, maps, primed, scope, locals, backlog, world,
                   seen, trouble>>

\* ... and the terminal record second.
WriteTerminal(p) ==
    /\ NextRow(p, "terminal")
    /\ insert_delivered(cur[p], "failed", res[p])
    /\ retries' = [retries EXCEPT ![cur[p]] = NoRetry]
    /\ UNCHANGED <<outbound, central, inflight, primed, backlog, world, seen, trouble>>

\* A database error in any of those arms leaves the pass through `?`.
AbortPass(p) ==
    /\ \/ pc[p] \in {"exhaust", "terminal"}
       \/ /\ pc[p] = "settle"
          /\ \/ res[p] \in {"system", "hard", "noroute"}
             \/ res[p] = "noadapter" /\ cur[p] \in old
    /\ EndPass(p)
    /\ DbError
    /\ UNCHANGED <<outbound, records, central, maps, primed, backlog, world, seen>>

\* Mutant of gauge: the slice is only ever set, never cleared.
StickyGauge(n) == backlog' = IF n > 0 THEN n ELSE backlog

\* no_adapter_backlog: inserted while rows wait, removed otherwise.
gauge(n) == backlog' = n

\* End of the pass: this session's slice of the no-adapter gauge.
FinishPass(p) ==
    /\ pc[p] = "scan" /\ todo[p] = {}
    /\ EndPass(p)
    /\ gauge(parked[p])
    /\ UNCHANGED <<outbound, records, central, maps, primed, world, seen, trouble>>

\* The loop's task panics inside a dispatcher; the supervisor restarts the
\* loop, and the claim stays behind.
Panic(p) ==
    /\ pc[p] \in {"dispatch", "send", "record"}
    /\ EndPass(p)
    /\ faults < MaxFaults /\ faults' = faults + 1
    /\ UNCHANGED <<outbound, records, central, maps, primed, backlog, world, seen, crashes>>

-----------------------------------------------------------------------------
(* The runner, the router, the operator, time and the host process          *)

\* The runner writes a row (messages_out::insert in the container).
Emit ==
    /\ nrows < MaxEmit
    /\ \E k \in Kinds, n \in 0..MaxParts, own \in BOOLEAN :
         /\ k # "chat" => n = 1
         /\ k = "agent" => ~own
         /\ insert_message_out([kind |-> k, parts |-> n, own |-> own, from |-> NoRow])
    /\ UNCHANGED <<records, central, maps, primed, pc, scope, locals, backlog, world, seen, trouble>>

\* The router writes session_routing.
SetRouting ==
    /\ ~routing
    /\ routing' = TRUE
    /\ UNCHANGED <<outbound, records, central, maps, primed, pc, scope, locals, backlog, adapter, old,
                   seen, trouble>>

\* A row's timestamp falls behind NO_ADAPTER_MAX_AGE_HOURS, which is only read
\* while the channel has no adapter and the row no record.
AgeRow(r) ==
    /\ r <= nrows /\ r \notin old
    /\ ~adapter /\ delivered[r] = "none"
    /\ old' = old \cup {r}
    /\ UNCHANGED <<outbound, records, central, maps, primed, pc, scope, locals, backlog, routing, adapter,
                   seen, trouble>>

\* A backoff window ends, for the map's entry and for the column alike.
WindowEnds(r) ==
    /\ retries[r].open \/ disk[r].open
    /\ retries' = [retries EXCEPT ![r].open = FALSE]
    /\ disk' = [disk EXCEPT ![r].open = FALSE]
    /\ UNCHANGED <<rows, nrows, records, central, inflight, primed, pc, scope, locals, backlog, world,
                   seen, trouble>>

\* Mutant of ClaimAges: a claim left behind blocks its row for ever.
ClaimIsForever(r) == FALSE /\ UNCHANGED vars

\* A claim reaches ABSOLUTE_CEILING_MS: one a dead pass left behind, or a live
\* pass's own when passes can be that slow.
ClaimAges(r) ==
    /\ inflight[r].on /\ inflight[r].open
    /\ SlowPass \/ ~Owned(r)
    /\ inflight' = [inflight EXCEPT ![r].open = FALSE]
    /\ UNCHANGED <<outbound, records, central, retries, primed, pc, scope, locals, backlog, world,
                   seen, trouble>>

\* Mutant of ReplayInsert: the row is put back under its own id.
ReplayInPlace(r) ==
    /\ replaying = NoLetter /\ DeadLettered(r)
    /\ delivered' = [delivered EXCEPT ![r] = "none"]
    /\ why' = [why EXCEPT ![r] = "none"]
    /\ replaying' = [row |-> r, target |-> "bare"]
    /\ UNCHANGED <<outbound, letters, maps, primed, pc, scope, locals, backlog, world, seen, trouble>>

\* replay_with_data_dir: insert a fresh copy, with the letter's target ...
ReplayInsert(r) ==
    /\ replaying = NoLetter
    /\ \E t \in Targets :
         /\ letters[r][t] > 0
         /\ insert_message_out([kind |-> rows[r].kind, parts |-> rows[r].parts,
                                own |-> t = "whole", from |-> r])
         /\ replaying' = [row |-> r, target |-> t]
    /\ UNCHANGED <<records, letters, maps, primed, pc, scope, locals, backlog, world, seen, trouble>>

\* ... then delete the dead letter.
ReplayDelete ==
    /\ replaying # NoLetter
    /\ letters' = [letters EXCEPT ![replaying.row][replaying.target] = @ - 1]
    /\ replaying' = NoLetter
    /\ UNCHANGED <<outbound, records, maps, primed, pc, scope, locals, backlog, world, seen, trouble>>

\* The host dies and boots again: the maps, the passes and a replay under way
\* are gone, and the channel may be configured differently.
HostRestart ==
    /\ crashes < MaxCrashes
    /\ crashes' = crashes + 1
    /\ retries' = [r \in RowIds |-> NoRetry]
    /\ inflight' = [r \in RowIds |-> NoClaim]
    /\ pc' = [p \in Passes |-> "idle"]
    /\ todo' = [p \in Passes |-> {}] /\ route' = [p \in Passes |-> FALSE]
    /\ parked' = [p \in Passes |-> 0] /\ cur' = [p \in Passes |-> NoRow]
    /\ idx' = [p \in Passes |-> 0] /\ res' = [p \in Passes |-> "ok"]
    /\ bumped' = [p \in Passes |-> 0]
    /\ primed' = FALSE /\ replaying' = NoLetter /\ backlog' = 0
    /\ adapter' \in BOOLEAN
    /\ UNCHANGED <<outbound, records, letters, routing, old, seen, faults>>

-----------------------------------------------------------------------------
Init ==
    /\ rows = [r \in RowIds |-> BlankRow] /\ nrows = 0
    /\ disk = [r \in RowIds |-> [tries |-> 0, open |-> FALSE]]
    /\ delivered = [r \in RowIds |-> "none"] /\ why = [r \in RowIds |-> "none"]
    /\ letters = [r \in RowIds |-> [t \in Targets |-> 0]] /\ replaying = NoLetter
    /\ retries = [r \in RowIds |-> NoRetry]
    /\ inflight = [r \in RowIds |-> NoClaim]
    /\ primed = FALSE
    /\ pc = [p \in Passes |-> "idle"]
    /\ todo = [p \in Passes |-> {}] /\ route = [p \in Passes |-> FALSE]
    /\ parked = [p \in Passes |-> 0] /\ cur = [p \in Passes |-> NoRow]
    /\ idx = [p \in Passes |-> 0] /\ res = [p \in Passes |-> "ok"]
    /\ bumped = [p \in Passes |-> 0]
    /\ backlog = 0
    /\ routing \in BOOLEAN /\ adapter \in BOOLEAN /\ old = {}
    /\ copies = [r \in RowIds |-> [k \in 1..MaxParts |-> 0]]
    /\ fails = [r \in RowIds |-> 0] /\ cards = [r \in RowIds |-> 0]
    /\ crashes = 0 /\ faults = 0

\* The steps of a pass that has begun, other than a fault.
PassStep(p) ==
    \/ ScanRow(p) \/ SkipClaimed(p) \/ ClaimRow(p) \/ GiveUpSpent(p) \/ Proceed(p)
    \/ Unroutable(p) \/ Adapterless(p) \/ Resume(p)
    \/ SendPart(p) \/ SendFails(p) \/ RecordOk(p) \/ Release(p)
    \/ SettleOk(p) \/ bump_retry(p) \/ Persist(p)
    \/ record_exhausted_row(p) \/ emit_delivery_failure_error_card(p)
    \/ SettleFailed(p) \/ ParkRow(p) \/ WriteLetter(p) \/ WriteTerminal(p)
    \/ FinishPass(p)

Fault(p) == RecordErr(p) \/ AbortPass(p) \/ Panic(p)

Clock(r) == AgeRow(r) \/ WindowEnds(r) \/ ClaimAges(r)

Next ==
    \/ \E p \in Passes : BeginPass(p) \/ PassStep(p) \/ Fault(p)
    \/ \E r \in RowIds : Clock(r) \/ ReplayInsert(r)
    \/ ReplayDelete \/ Emit \/ SetRouting \/ HostRestart

Spec == Init /\ [][Next]_vars

\* The runtime polls every task that can run, the supervisor respawns a loop
\* that panicked, the sweep loop ticks forever, and time passes.  Nothing is
\* asked of the active loop's tick, the runner, the router or the operator.
Fairness ==
    /\ \A p \in Passes : WF_vars(PassStep(p))
    /\ WF_vars(BeginPass(SweepPass))
    /\ \A r \in RowIds : WF_vars(AgeRow(r)) /\ WF_vars(WindowEnds(r)) /\ WF_vars(ClaimAges(r))

FairSpec == Spec /\ Fairness

-----------------------------------------------------------------------------
TypeOutbound ==
    /\ rows \in [RowIds -> RowRec] /\ nrows \in 0..MaxRows
    /\ disk \in [RowIds -> [tries: Nat, open: BOOLEAN]]
TypeRecords ==
    /\ delivered \in [RowIds -> {"none", "ok", "failed"}]
    /\ why \in [RowIds -> Outcomes \cup {"none", "sent", "exhausted"}]
TypeCentral ==
    /\ letters \in [RowIds -> [Targets -> Int]]
    /\ replaying \in [row: 0..MaxRows, target: Targets]
TypeRetries == retries \in [RowIds -> RetryRec]
TypeInflight == inflight \in [RowIds -> ClaimRec]
TypePc == pc \in [Passes -> Steps]
TypeScope ==
    /\ todo \in [Passes -> SUBSET RowIds] /\ route \in [Passes -> BOOLEAN]
    /\ parked \in [Passes -> Nat]
TypeLocals ==
    /\ cur \in [Passes -> 0..MaxRows] /\ idx \in [Passes -> 0..MaxParts]
    /\ res \in [Passes -> Outcomes] /\ bumped \in [Passes -> Nat]
TypeHost == primed \in BOOLEAN /\ backlog \in Nat
TypeWorld == routing \in BOOLEAN /\ adapter \in BOOLEAN /\ old \subseteq RowIds
TypeSeen ==
    /\ copies \in [RowIds -> [1..MaxParts -> Nat]]
    /\ fails \in [RowIds -> Nat] /\ cards \in [RowIds -> Nat]
TypeTrouble == crashes \in 0..MaxCrashes /\ faults \in 0..MaxFaults

TypeOK ==
    /\ TypeOutbound /\ TypeRecords /\ TypeCentral /\ TypeRetries /\ TypeInflight
    /\ TypePc /\ TypeScope /\ TypeLocals /\ TypeHost /\ TypeWorld /\ TypeSeen /\ TypeTrouble

\* A pass only handles rows that were written, and every row it has in hand is
\* one; the part it is about to send is a part of the row.
InHand ==
    /\ \A p \in Passes : todo[p] \subseteq 1..nrows
    /\ \A p \in Passes : pc[p] \notin {"idle", "scan"} => cur[p] \in 1..nrows
    /\ \A p \in Passes : pc[p] = "send" => idx[p] < rows[cur[p]].parts

\* The claim taken through the entry API in process_session_once admits one
\* sender per row at a time, over panics, restarts and claims left behind.
OneSender ==
    \A p, q \in Passes :
        p # q /\ pc[p] \in Owning /\ pc[q] \in Owning => cur[p] # cur[q]

\* A row dispatch_chat records as "ok" reached the platform in full: resuming
\* a split row never skips a part that was not sent.
AckedImpliesSent ==
    \A r \in RowIds : delivered[r] = "ok" => \A k \in 1..rows[r].parts : copies[r][k] > 0

\* The first n parts of row r reached the platform.
Reached(r, n) == \A k \in 1..n : copies[r][k] > 0

\* Why AckedImpliesSent holds: the progress kept in the retries map and the
\* index of a pass never run ahead of what the platform acknowledged.
Progress ==
    /\ \A r \in RowIds : retries[r].on => Reached(r, retries[r].sent)
    /\ \A p \in Passes : pc[p] = "send" => Reached(cur[p], idx[p])
    /\ \A p \in Passes : pc[p] = "record" => Reached(cur[p], rows[cur[p]].parts)

\* A row that was not written has no record.
Unwritten == \A r \in RowIds : r > nrows => delivered[r] = "none"

\* record_exhausted_row gives up only on a row whose budget of attempts was
\* really spent: no restart, stale pass or double bump counts an attempt twice.
NeverGivesUpEarly ==
    \A r \in RowIds : why[r] = "exhausted" => fails[r] >= MaxAttempts

\* The budget of bump_retry survives restarts when one loop runs: an attempt
\* beyond it is one whose count a crash or a failed database write lost.
AttemptBudget == \A r \in RowIds : fails[r] <= MaxAttempts + crashes + faults

\* A part the platform acknowledged is sent again only by a loop that works
\* from an older snapshot, or after a crash, a panic or a failed record.
ResendBound ==
    \A r \in RowIds, k \in 1..MaxParts :
        copies[r][k] <= Cardinality(Passes) + crashes + faults

\* Exhaustion is reported once per row, across restarts.
ExhaustedOnce == \A r \in RowIds : cards[r] <= 1

\* A replayable row failed by record_no_route or record_no_adapter_expired is
\* never lost: its dead letter exists until a replay has put a copy back.
NoLostLetter ==
    \A r \in RowIds :
        why[r] \in {"noroute", "noadapter"} /\ Replayable(r)
            => DeadLettered(r) \/ \E s \in RowIds : rows[s].from = r

\* delivered::insert never rewrites a record, so a late or stale pass cannot
\* turn a failure into a success or back.
RecordIsFinal ==
    [][\A r \in RowIds : delivered[r] # "none" => delivered'[r] = delivered[r]]_vars

\* Every row gets its record, whatever the adapter answers: by delivery,
\* exhaustion, or expiry when no adapter ever comes.
EveryRowSettles ==
    \A r \in RowIds : (r <= nrows) ~> (delivered[r] # "none")

\* The no-adapter gauge is a rolling snapshot: once no row is waiting it
\* returns to zero and stays there.
BacklogClears ==
    (<>[](\A r \in 1..nrows : delivered[r] # "none")) => <>[](backlog = 0)

\* Delivery implements Outbox: read a row's verdict off messages_out and
\* delivered, and what the platform took off the acknowledged parts.
verdict == [r \in RowIds |-> IF r > nrows THEN "absent"
                             ELSE IF delivered[r] = "none" THEN "pending" ELSE delivered[r]]
taken == {r \in RowIds : r <= nrows /\ \A k \in 1..rows[r].parts : copies[r][k] > 0}
Out == INSTANCE Outbox WITH Ids <- RowIds
ImplementsOutbox == Out!Spec
============================================================================
