----------------------------- MODULE Approvals -----------------------------
(***************************************************************************)
(* The approvals of one request identity, the (request_id, action) pair    *)
(* pending_approvals is keyed on.  The delivery service or the tunnel      *)
(* broker raises a row; operators settle it from the command line or by    *)
(* tapping the card; a deadline lets it lapse; and, when the action is a   *)
(* credentialed external one, the tunnel broker spends the approved row as *)
(* a single-use grant.                                                     *)
(*                                                                         *)
(* The central database is a pool of connections: every statement is       *)
(* atomic, sweep_expired is one transaction, and nothing else spans two    *)
(* statements.  The only lock is the broker's active list.                 *)
(***************************************************************************)
EXTENDS Naturals, Sequences, FiniteSets

CONSTANTS
    Clis,        \* command line calls that may be served at the same time
    Taps,        \* button taps that may be handled at the same time
    Exposers,    \* relay tasks that may call TunnelBroker::expose
    MaxRows,     \* bound: rows of the identity
    MaxAsks,     \* bound: times the agent asks
    MaxCalls,    \* bound: calls of the operators
    MaxFaults    \* bound: database errors, failed applications, tunnels
                 \* that do not open, restarts of the host

ASSUME ApprovalsAssumption ==
    /\ IsFiniteSet(Clis) /\ IsFiniteSet(Taps) /\ IsFiniteSet(Exposers)
    /\ Clis \cap Taps = {}
    /\ "free" \notin Exposers
    /\ {MaxRows, MaxAsks, MaxCalls, MaxFaults} \subseteq Nat

Resolvers == Clis \cup Taps
Ids == 1..MaxRows
Statuses == {"pending", "approved", "denied", "expired", "revoked"}
Verbs == {"approve", "deny", "revoke"}
Decision == [approve |-> "approved", deny |-> "denied", revoke |-> "revoked"]

VARIABLES
    kind,        \* "effect": approving changes the central database or disk;
                 \* "grant": the approved row itself is the authorisation
    rows,        \* the identity's rows, oldest first; a row's id is its index
    decisions,   \* approval_decisions: each row's outcomes, oldest first
    raiser,      \* the delivery service's upsert: "idle" or "select"
    carded,      \* rows an approve/deny card was posted for
    res,         \* the locals of each resolve_approve, resolve_deny, revoke
    exp,         \* the locals of each expose
    lock,        \* holder of the broker's active mutex, or "free"
    active,      \* the tunnels the broker tracks, by the grant they spent
    asks, calls, faults,
    effects,     \* observation: the payloads applied for each row
    approvals,   \* observation: how often each row was set to approved
    opened,      \* observation: tunnels opened on each row
    disturbed    \* observation: rows two actors worked on at once, or whose
                 \* settling was cut short

obs == <<effects, approvals, opened>>
broker == <<exp, lock, active>>
vars == <<kind, rows, decisions, raiser, carded, res, exp, lock, active,
          asks, calls, faults, effects, approvals, opened, disturbed>>

IdleRes == [pc |-> "idle", verb |-> "approve", id |-> 0, payload |-> 0,
            late |-> FALSE]
IdleExp == [pc |-> "idle", id |-> 0]

TypeOK ==
    /\ kind \in {"effect", "grant"}
    /\ rows \in Seq([status : Statuses, overdue : BOOLEAN, payload : 1..MaxAsks])
    /\ Len(rows) <= MaxRows
    /\ \A i, j \in DOMAIN rows :
           rows[i].status = "pending" /\ rows[j].status = "pending" => i = j
    /\ decisions \in [Ids -> Seq(Verbs \cup {"expire"})]
    /\ raiser \in {"idle", "select"}
    /\ carded \subseteq DOMAIN rows
    /\ res \in [Resolvers ->
           [pc : {"idle", "get", "apply", "update", "record"}, verb : Verbs,
            id : 0..MaxRows, payload : 0..MaxAsks, late : BOOLEAN]]
    /\ exp \in [Exposers ->
           [pc : {"idle", "find", "select", "lock", "spend", "log", "open",
                  "track"}, id : 0..MaxRows]]
    /\ lock \in {"free"} \cup Exposers
    /\ active \in Seq(DOMAIN rows)
    /\ asks \in 0..MaxAsks /\ calls \in 0..MaxCalls /\ faults \in 0..MaxFaults
    /\ effects \in [Ids -> Seq(1..MaxAsks)]
    /\ approvals \in [Ids -> Nat] /\ opened \in [Ids -> Nat]
    /\ disturbed \subseteq Ids

Init ==
    /\ kind \in {"effect", "grant"}
    /\ rows = <<>> /\ carded = {}
    /\ decisions = [id \in Ids |-> <<>>]
    /\ raiser = "idle"
    /\ res = [r \in Resolvers |-> IdleRes]
    /\ exp = [e \in Exposers |-> IdleExp]
    /\ lock = "free" /\ active = <<>>
    /\ asks = 0 /\ calls = 0 /\ faults = 0
    /\ effects = [id \in Ids |-> <<>>]
    /\ approvals = [id \in Ids |-> 0]
    /\ opened = [id \in Ids |-> 0]
    /\ disturbed = {}

\* The calls that have read the row as pending and not yet written to it.
Deciding(id) == {r \in Resolvers : res[r].id = id /\ res[r].pc \in {"apply", "update"}}

PendingIds == {id \in DOMAIN rows : rows[id].status = "pending"}

Newest == Len(rows)

Fault == faults < MaxFaults /\ faults' = faults + 1

----------------------------------------------------------------------------
(* Raising a row.                                                          *)

\* Mutant of UpsertRow: the INSERT has no ON CONFLICT clause.
UpsertAppends(p) ==
    /\ Len(rows) < MaxRows
    /\ rows' = Append(rows, [status |-> "pending", overdue |-> FALSE, payload |-> p])
    /\ UNCHANGED disturbed

\* The INSERT ... ON CONFLICT DO UPDATE of upsert: a pending row takes the new
\* payload and a fresh deadline, otherwise a new pending row is added.
UpsertRow(p) ==
    LET fresh == [status |-> "pending", overdue |-> FALSE, payload |-> p]
    IN \/ /\ PendingIds # {}
          /\ rows' = [id \in DOMAIN rows |->
                         IF id \in PendingIds THEN fresh ELSE rows[id]]
          /\ disturbed' = disturbed \cup {id \in PendingIds : Deciding(id) # {}}
       \/ /\ PendingIds = {} /\ Len(rows) < MaxRows
          /\ rows' = Append(rows, fresh)
          /\ UNCHANGED disturbed

\* The delivery service handles a row that asks for approval (save_skill,
\* task_grant, taint_approval_request) or the preview manager asks.
raise_approval ==
    /\ kind = "effect" /\ raiser = "idle"
    /\ asks < MaxAsks
    /\ asks' = asks + 1
    /\ UpsertRow(asks + 1)
    /\ raiser' = "select"
    /\ UNCHANGED <<kind, decisions, carded, res, broker, calls, faults, obs>>

\* The SELECT that ends upsert finds the pending row and the card is posted for
\* it; when an operator settled the row in between, upsert fails and no card is.
upsert_select ==
    /\ \/ /\ raiser = "select"
          /\ raiser' = "idle"
          /\ UNCHANGED exp
       \/ \E e \in Exposers :
             /\ exp[e].pc = "select"
             /\ exp' = [exp EXCEPT ![e] = IdleExp]
             /\ UNCHANGED raiser
    /\ carded' = carded \cup PendingIds
    /\ UNCHANGED <<kind, rows, decisions, res, lock, active, asks, calls,
                   faults, obs, disturbed>>

\* The row's deadline passes.
lapse ==
    /\ \E id \in PendingIds :
          /\ ~rows[id].overdue
          /\ rows' = [rows EXCEPT ![id].overdue = TRUE]
    /\ UNCHANGED <<kind, decisions, raiser, carded, res, broker, asks, calls,
                   faults, obs, disturbed>>

----------------------------------------------------------------------------
(* Settling a row.                                                         *)

Overdue == {id \in PendingIds : rows[id].overdue}

\* Mutant of sweep_expired: lapsing is left to some other pass.
NoSweep == UNCHANGED <<rows, decisions, disturbed>>

\* sweep_expired: one transaction lapses what is overdue and logs it.
sweep_expired ==
    /\ rows' = [id \in DOMAIN rows |->
                   IF id \in Overdue THEN [rows[id] EXCEPT !.status = "expired"]
                   ELSE rows[id]]
    /\ decisions' = [id \in Ids |->
                        IF id \in Overdue THEN Append(decisions[id], "expire")
                        ELSE decisions[id]]
    /\ disturbed' = disturbed \cup {id \in Overdue : Deciding(id) # {}}

\* `approvals list`, and a tap that is not authorised, only sweep.
list ==
    /\ Overdue # {}
    /\ sweep_expired
    /\ UNCHANGED <<kind, raiser, carded, res, broker, asks, calls, faults, obs>>

\* resolve_approve, resolve_deny and revoke begin with a sweep.  A tap names a
\* row that has a card and never revokes; a command names any row.
resolve_begin(r) ==
    /\ res[r].pc = "idle"
    /\ calls < MaxCalls
    /\ calls' = calls + 1
    /\ \E id \in IF r \in Taps THEN carded ELSE DOMAIN rows :
       \E verb \in IF r \in Taps THEN Verbs \ {"revoke"} ELSE Verbs :
          res' = [res EXCEPT ![r] =
                     [IdleRes EXCEPT !.pc = "get", !.verb = verb, !.id = id,
                                     !.late = id \in Overdue]]
    /\ sweep_expired
    /\ UNCHANGED <<kind, raiser, carded, broker, asks, faults, obs>>

\* Mutant of Proceeds: only the row's own decision is looked for.
UnlessApproved(id) == rows[id].status # "approved"

\* The status check.  A row already settled ends the call: the same decision is
\* reported as not applied, a different one as a conflict.
Proceeds(id) == rows[id].status = "pending"

resolve_get(r) ==
    LET id == res[r].id
    IN /\ res[r].pc = "get"
       /\ IF Proceeds(id)
          THEN /\ res' = [res EXCEPT
                     ![r].pc = IF res[r].verb = "approve" /\ kind = "effect"
                               THEN "apply" ELSE "update",
                     ![r].payload = rows[id].payload]
               /\ disturbed' = disturbed \cup
                      (IF Deciding(id) # {} THEN {id} ELSE {})
          ELSE /\ res' = [res EXCEPT ![r] = IdleRes]
               /\ UNCHANGED disturbed
       /\ UNCHANGED <<kind, rows, decisions, raiser, carded, broker, asks,
                      calls, faults, obs>>

\* The apply_* arm of the row's action, with the payload read above.  A failed
\* application leaves the row pending.
resolve_apply(r) ==
    /\ res[r].pc = "apply"
    /\ \/ /\ effects' = [effects EXCEPT ![res[r].id] =
                            Append(@, res[r].payload)]
          /\ res' = [res EXCEPT ![r].pc = "update"]
          /\ UNCHANGED faults
       \/ /\ Fault
          /\ res' = [res EXCEPT ![r] = IdleRes]
          /\ UNCHANGED effects
    /\ UNCHANGED <<kind, rows, decisions, raiser, carded, broker, asks, calls,
                   approvals, opened, disturbed>>

\* update_status: an UPDATE by id that does not look at the current status.
update_status(id, status) ==
    rows' = [rows EXCEPT ![id].status = status]

resolve_update(r) ==
    LET id == res[r].id
        status == Decision[res[r].verb]
    IN /\ res[r].pc = "update"
       /\ \/ /\ update_status(id, status)
             /\ approvals' = [approvals EXCEPT ![id] =
                                 @ + (IF status = "approved" THEN 1 ELSE 0)]
             /\ res' = [res EXCEPT ![r].pc = "record"]
             /\ UNCHANGED <<faults, disturbed>>
          \/ /\ Fault
             /\ res' = [res EXCEPT ![r] = IdleRes]
             /\ disturbed' = disturbed \cup {id}
             /\ UNCHANGED <<rows, approvals>>
       /\ UNCHANGED <<kind, decisions, raiser, carded, broker, asks, calls,
                      effects, opened>>

resolve_record(r) ==
    /\ res[r].pc = "record"
    /\ res' = [res EXCEPT ![r] = IdleRes]
    /\ \/ /\ decisions' = [decisions EXCEPT ![res[r].id] =
                              Append(@, res[r].verb)]
          /\ UNCHANGED <<faults, disturbed>>
       \/ /\ Fault
          /\ disturbed' = disturbed \cup {res[r].id}
          /\ UNCHANGED decisions
    /\ UNCHANGED <<kind, rows, raiser, carded, broker, asks, calls, obs>>

----------------------------------------------------------------------------
(* The tunnel broker spends approved rows.                                 *)

Exposed == active # <<>>

\* expose: a live tunnel is returned as it is; otherwise the binary is checked.
expose(e) ==
    /\ kind = "grant"
    /\ exp[e].pc = "idle" /\ lock = "free" /\ ~Exposed
    /\ exp' = [exp EXCEPT ![e].pc = "find"]
    /\ UNCHANGED <<kind, rows, decisions, raiser, carded, res, lock, active,
                   asks, calls, faults, obs, disturbed>>

\* find_approval: the newest row decides.  An approved one is stood up, a denied
\* or a live pending one ends the call, anything else raises a fresh approval.
NewestStatus ==
    IF rows = <<>> THEN "none"
    ELSE IF Newest \in Overdue THEN "lapsed" ELSE rows[Newest].status

find_approval(e) ==
    /\ exp[e].pc = "find"
    /\ \/ /\ NewestStatus = "approved"
          /\ exp' = [exp EXCEPT ![e] = [pc |-> "lock", id |-> Newest]]
          /\ UNCHANGED <<rows, asks, disturbed>>
       \/ /\ NewestStatus \in {"denied", "pending"}
          /\ exp' = [exp EXCEPT ![e] = IdleExp]
          /\ UNCHANGED <<rows, asks, disturbed>>
       \/ /\ NewestStatus \in {"none", "lapsed", "expired", "revoked"}
          /\ asks < MaxAsks
          /\ asks' = asks + 1
          /\ UpsertRow(asks + 1)
          /\ exp' = [exp EXCEPT ![e].pc = "select"]
    /\ UNCHANGED <<kind, decisions, raiser, carded, res, lock, active, calls,
                   faults, obs>>

\* Mutant of Spendable: the row found before the lock is trusted.
SpendableAsFound(id) == id \in DOMAIN rows

\* stand_up takes the lock, returns a tunnel that came up meanwhile, and reads
\* the row again; a row that is not approved any more ends the call.
Spendable(id) == rows[id].status = "approved"

stand_up(e) ==
    /\ exp[e].pc = "lock" /\ lock = "free"
    /\ IF ~Exposed /\ Spendable(exp[e].id)
       THEN lock' = e /\ exp' = [exp EXCEPT ![e].pc = "spend"]
       ELSE UNCHANGED lock /\ exp' = [exp EXCEPT ![e] = IdleExp]
    /\ UNCHANGED <<kind, rows, decisions, raiser, carded, res, active, asks,
                   calls, faults, obs, disturbed>>

\* consume_grant revokes the row; when it cannot, nothing is opened.
consume_grant(e) ==
    /\ exp[e].pc = "spend"
    /\ \/ /\ update_status(exp[e].id, "revoked")
          /\ exp' = [exp EXCEPT ![e].pc = "log"]
          /\ UNCHANGED <<lock, faults>>
       \/ /\ Fault
          /\ exp' = [exp EXCEPT ![e] = IdleExp]
          /\ lock' = "free"
          /\ UNCHANGED rows
    /\ disturbed' = disturbed \cup
           (IF Deciding(exp[e].id) # {} THEN {exp[e].id} ELSE {})
    /\ UNCHANGED <<kind, decisions, raiser, carded, res, active, asks, calls, obs>>

\* The decision is logged, best effort, and the lock released.
consume_logged(e) ==
    /\ exp[e].pc = "log"
    /\ exp' = [exp EXCEPT ![e].pc = "open"]
    /\ lock' = "free"
    /\ \/ /\ decisions' = [decisions EXCEPT ![exp[e].id] =
                              Append(@, "revoke")]
          /\ UNCHANGED <<faults, disturbed>>
       \/ /\ Fault
          /\ disturbed' = disturbed \cup {exp[e].id}
          /\ UNCHANGED decisions
    /\ UNCHANGED <<kind, rows, raiser, carded, res, active, asks, calls, obs>>

\* The tunnel binary opens a public address, or does not: the grant is spent.
open(e) ==
    /\ exp[e].pc = "open"
    /\ \/ /\ opened' = [opened EXCEPT ![exp[e].id] = @ + 1]
          /\ exp' = [exp EXCEPT ![e].pc = "track"]
          /\ UNCHANGED faults
       \/ /\ Fault
          /\ exp' = [exp EXCEPT ![e] = IdleExp]
          /\ UNCHANGED opened
    /\ UNCHANGED <<kind, rows, decisions, raiser, carded, res, lock, active,
                   asks, calls, effects, approvals, disturbed>>

\* A tunnel that finds another one tracked is shut down again.
track(e) ==
    /\ exp[e].pc = "track" /\ lock = "free"
    /\ active' = IF Exposed THEN active ELSE Append(active, exp[e].id)
    /\ exp' = [exp EXCEPT ![e] = IdleExp]
    /\ UNCHANGED <<kind, rows, decisions, raiser, carded, res, lock, asks,
                   calls, faults, obs, disturbed>>

\* The session's container stops, and its tunnels with it.
teardown ==
    /\ Exposed /\ lock = "free"
    /\ active' = Tail(active)
    /\ UNCHANGED <<kind, rows, decisions, raiser, carded, res, exp, lock, asks,
                   calls, faults, obs, disturbed>>

\* The host restarts: what is in memory is gone, the database is not.
restart ==
    /\ Fault
    /\ raiser' = "idle"
    /\ disturbed' = disturbed
           \cup {res[r].id : r \in {q \in Resolvers :
                                       res[q].pc \in {"update", "record"}}}
           \cup {exp[e].id : e \in {f \in Exposers : exp[f].pc = "log"}}
    /\ res' = [r \in Resolvers |-> IdleRes]
    /\ exp' = [e \in Exposers |-> IdleExp]
    /\ lock' = "free" /\ active' = <<>>
    /\ UNCHANGED <<kind, rows, decisions, carded, asks, calls, obs>>

Next ==
    \/ raise_approval \/ upsert_select \/ lapse \/ list
    \/ \E r \in Resolvers :
          \/ resolve_begin(r) \/ resolve_get(r) \/ resolve_apply(r)
          \/ resolve_update(r) \/ resolve_record(r)
    \/ \E e \in Exposers :
          \/ expose(e) \/ find_approval(e) \/ stand_up(e) \/ consume_grant(e)
          \/ consume_logged(e) \/ open(e) \/ track(e)
    \/ teardown \/ restart

Spec == Init /\ [][Next]_vars

----------------------------------------------------------------------------
(* Properties.                                                             *)

\* What the log may say of a row with each status.  A grant can be spent between
\* the approver's two writes, and its log then reads backwards.
Logged == [pending |-> {<<>>}, approved |-> {<<"approve">>},
           denied |-> {<<"deny">>}, expired |-> {<<"expire">>},
           revoked |-> {<<"revoke">>, <<"approve", "revoke">>,
                        <<"revoke", "approve">>}]

\* A call or a stand-up is between two writes about the row.
Settling(id) ==
    \/ \E r \in Resolvers : res[r].id = id /\ res[r].pc \in {"update", "record"}
    \/ \E e \in Exposers : exp[e].id = id /\ exp[e].pc = "log"

\* A row nobody is working on, and that no two actors worked on at once, tells
\* the truth: what was applied for it is its own payload, once, exactly when it
\* was approved, and its decision log names the status it has.
SettledHonest ==
    \A id \in DOMAIN rows \ disturbed : Settling(id) \/
        /\ decisions[id] \in Logged[rows[id].status]
        /\ effects[id] = IF kind = "effect" /\ rows[id].status = "approved"
                         THEN <<rows[id].payload>> ELSE <<>>

\* A request that lapsed before a call about it began is never honoured, however
\* the sweeps, the re-asks and the other calls fall.
LateNeverHonoured ==
    \A r \in Resolvers : res[r].late => res[r].pc \in {"idle", "get"}

\* At most one expiry is logged for a row, whoever sweeps.
ExpiredOnce ==
    \A id \in DOMAIN rows : \A i, j \in DOMAIN decisions[id] :
        decisions[id][i] = "expire" /\ decisions[id][j] = "expire" => i = j

\* A lapse is final: logged once, and no later call goes past it.
LapseIsFinal == LateNeverHonoured /\ ExpiredOnce

\* Every tunnel that was opened spent an approval of its own: stand-ups that
\* race for one grant open one tunnel, and none is opened on a grant that was
\* denied, lapsed or already spent.
GrantBacked == \A id \in Ids : opened[id] <= approvals[id]

\* The broker tracks one tunnel, even when two grants are spent side by side.
OneTunnel == Len(active) <= 1

\* A grant buys one tunnel: each one opened spent an approval, one is up at a
\* time.
GrantSpentOnce == GrantBacked /\ OneTunnel

=============================================================================
