---------------------------- MODULE InboundProofs ----------------------------
(***************************************************************************)
(* Proofs about the inbound path of a session: every invariant its runs    *)
(* check holds for any number of messages, deaths and host crashes, any    *)
(* thresholds and any table of backoffs.                                   *)
(*                                                                         *)
(* TypeOK needs one more fact, Working: a runner past its poll has a batch *)
(* to choose the answered row from.  FailedIsTold is inductive with it.    *)
(* SweepApologyOnce, NoRework and CrashCountJustified are strengthened by  *)
(* Apologised, by Fresh and Handed, and by Reserve.  Each argument names   *)
(* the class of steps that leave its invariant alone, shows once that they *)
(* do, and then goes through the actions.                                  *)
(***************************************************************************)
EXTENDS Inbound, FiniteSetTheorems, WellFoundedInduction, TLAPS

-----------------------------------------------------------------------------
(* Constants and helpers                                                    *)

\* A nonempty set of numbers has a least one.
LEMMA Least == ASSUME NEW S \in SUBSET Nat, S # {} PROVE \E n \in S : \A m \in S : n <= m
  <1> DEFINE R == OpToRel(<, Nat)
  <1>1. \E x \in S : \A y \in S : ~ (<<y, x>> \in R)
    <2>1. IsWellFoundedOn(R, Nat)
      BY NatLessThanWellFounded
    <2> HIDE DEF R
    <2> QED
      BY <2>1, WFMin
  <1>2. PICK x \in S : \A y \in S : ~ (<<y, x>> \in R)
    BY <1>1
  <1>3. ASSUME NEW y \in S PROVE ~ (y < x)
    BY <1>2, <1>3 DEF OpToRel
  <1> QED
    BY <1>3

\* The earliest of some rows is one of them.
LEMMA EarliestIn == ASSUME NEW S \in SUBSET Msgs, S # {} PROVE Earliest(S) \in S
  <1>1. S \in SUBSET Nat
    BY InboundAssumption DEF Msgs
  <1>2. \E n \in S : \A m \in S : n <= m
    BY <1>1, Least
  <1> QED
    BY <1>2 DEF Earliest

\* What the proofs use of the constants: the numbers,
LEMMA Bounds ==
    /\ MaxMsgs \in Nat /\ Quarantine \in Nat \ {0} /\ SpawnThreshold \in Nat \ {0}
    /\ MaxDeaths \in Nat /\ MaxHostCrashes \in Nat
    /\ Kinds \subseteq {"chat", "reaction", "stop"}
  BY InboundAssumption

\* ... the ages,
LEMMA Ages == Age \subseteq Nat /\ 0 \in Age /\ Oldest \in Nat
  BY InboundAssumption DEF Age, Oldest

\* ... and the table of backoffs.
LEMMA Backoffs ==
    /\ Len(BackoffSteps) \in Nat \ {0}
    /\ \A i \in 1..Len(BackoffSteps) : BackoffSteps[i] \subseteq Nat
  <1>1. BackoffSteps \in Seq(SUBSET Nat) /\ Len(BackoffSteps) > 0
    BY InboundAssumption
  <1> QED
    BY <1>1

\* The rows that arrived can be counted.
LEMMA ArrivedCount ==
    Arrived \subseteq Msgs /\ IsFiniteSet(Arrived) /\ Cardinality(Arrived) \in 0..MaxMsgs
  <1>1. Arrived \in SUBSET Msgs
    BY DEF Arrived
  <1>2. IsFiniteSet(Msgs) /\ Cardinality(Msgs) = MaxMsgs
    BY Bounds, FS_Interval DEF Msgs
  <1>3. IsFiniteSet(Arrived) /\ Cardinality(Arrived) <= MaxMsgs
    BY <1>1, <1>2, FS_Subset
  <1>4. Cardinality(Arrived) \in Nat
    BY <1>3, FS_CardinalityType
  <1> QED
    BY <1>1, <1>3, <1>4, Bounds

\* The fields an action sets keep a row a row.
LEMMA MsgUpdate ==
    ASSUME NEW r \in MsgRec
    PROVE  /\ \A s \in {"pending", "completed", "failed"} : [r EXCEPT !.status = s] \in MsgRec
           /\ [r EXCEPT !.stamped = TRUE] \in MsgRec
  BY DEF MsgRec

\* What a step leaves alone keeps its type.
LEMMA Unchanged ==
    ASSUME TypeOK
    PROVE  /\ UNCHANGED inbox => TypeInbox'
           /\ UNCHANGED outbox => TypeOutbox'
           /\ UNCHANGED session => TypeSession'
           /\ UNCHANGED runner => TypeRunner'
           /\ UNCHANGED sweep => TypeSweep'
           /\ UNCHANGED mpc => TypeManager'
           /\ UNCHANGED restart => TypeRestart'
           /\ UNCHANGED <<tracker, spawnfails>> => TypeTracker'
           /\ UNCHANGED seen => TypeSeen'
           /\ UNCHANGED <<mpc, spc, rstep>> => Restarting'
  BY DEF TypeOK, TypeInbox, TypeOutbox, TypeSession, TypeRunner, TypeSweep, TypeManager, TypeRestart,
     TypeTracker, TypeSeen, Restarting, inbox, outbox, session, runner, sweep, restart, tracker, seen

\* The state of a runner between two turns.
LEMMA RunnerBlank == 0 \in 0..MaxMsgs /\ FALSE \in BOOLEAN /\ {} \subseteq Msgs
  BY Bounds

\* A counter stays within the number that decides.
LEMMA TickType == ASSUME NEW n \in 0..Quarantine PROVE Tick(n) \in 0..Quarantine
  BY Bounds DEF Tick

\* A runner that ends leaves well-typed state.
LEMMA KillType ==
    ASSUME TypeOK, NEW to \in {"dead", "poll"}, Kill(to)
    PROVE  TypeRunner' /\ deaths' \in [Msgs -> 0..Quarantine] /\ cut' \subseteq Msgs
  <1>1. TypeRunner'
    <2>1. rpc' = to /\ batch' = {} /\ ceiling' = 0 /\ failing' = FALSE /\ intool' = FALSE
      BY DEF Kill
    <2> QED
      BY <2>1, RunnerBlank DEF TypeRunner
  <1>2. \A m \in Msgs : Tick(deaths[m]) \in 0..Quarantine
    BY TickType DEF TypeOK, TypeSeen
  <1>3. deaths' \in [Msgs -> 0..Quarantine]
    BY <1>2 DEF TypeOK, TypeSeen, Kill
  <1>4. cut' \subseteq Msgs
    BY DEF TypeOK, TypeSeen, TypeRunner, Kill, Untold
  <1> QED
    BY <1>1, <1>3, <1>4

\* A runner that is past its poll works on something.
Working == rpc \in {"claim", "turn", "mark", "ack", "apologise"} => batch # {}

\* The row a turn answers is a row of its batch.
LEMMA OriginType ==
    ASSUME TypeOK, batch # {}
    PROVE  Origin \in batch /\ Origin \in Msgs
  <1> DEFINE chats == {m \in batch : msg[m].kind = "chat"}
  <1>1. batch \in SUBSET Msgs /\ chats \in SUBSET Msgs
    BY DEF TypeOK, TypeRunner
  <1>2. Earliest(IF chats = {} THEN batch ELSE chats) \in (IF chats = {} THEN batch ELSE chats)
    BY <1>1, EarliestIn
  <1> QED
    BY <1>1, <1>2 DEF Origin

\* What a restart has in hand is a message.
LEMMA HandIsMsg ==
    ASSUME TypeOK, NEW a \in Actors, rstep[a] \in {"tell", "bury"}
    PROVE  rhand[a] \in Msgs
  BY DEF TypeOK, TypeRestart

\* A restart that tells writes the stamp and nothing else of the row.
LEMMA TellStamps ==
    ASSUME TypeOK, NEW a \in Actors, RestartTell(a)
    PROVE  \E b \in BOOLEAN : msg' = [msg EXCEPT ![rhand[a]].stamped = b]
  <1>1. rhand[a] \in Msgs
    BY HandIsMsg DEF RestartTell
  <1>2. msg' = [msg EXCEPT ![rhand[a]].stamped = (rstep[a] = "tell") \/ msg[rhand[a]].stamped]
    BY <1>1 DEF RestartTell
  <1>3. ((rstep[a] = "tell") \/ msg[rhand[a]].stamped) \in BOOLEAN
    OBVIOUS
  <1> QED
    BY <1>2, <1>3

-----------------------------------------------------------------------------
(* Types                                                                    *)

\* Types: the router,
LEMMA TypeRouter ==
    ASSUME TypeOK, Working,
           Arrive
    PROVE  TypeOK'
  <1>1. CASE Arrive
    <2>1. TypeInbox'
      <3>1. PICK k \in Kinds : msg' = [msg EXCEPT ![Cardinality(Arrived) + 1].kind = k,
                                                  ![Cardinality(Arrived) + 1].status = "pending"]
        BY <1>1 DEF Arrive
      <3>2. Cardinality(Arrived) + 1 \in Msgs
        BY <1>1, ArrivedCount, Bounds DEF Arrive, Msgs
      <3>3. k \in {"chat", "reaction", "stop"}
        BY Bounds
      <3> QED
        BY <3>1, <3>2, <3>3 DEF TypeOK, TypeInbox, MsgRec
    <2> QED
      BY <1>1, <2>1, Unchanged DEF Arrive, sweep, restart, TypeOK
  <1> QED
    BY <1>1

\* ... the runner's own steps,
LEMMA TypeRunnerStep ==
    ASSUME TypeOK, Working,
           \/ Poll \/ ack_picked_up \/ MidTurnStop \/ TurnEnds
              \/ finalize_inbound \/ finalize_acks \/ emit_terminal_failure_apologies
    PROVE  TypeOK'
  <1>1. CASE Poll
    <2>1. TypeInbox'
      BY <1>1, Bounds, Ages DEF Poll, TypeInbox, TypeOK, MsgRec
    <2>2. TypeSession'
      BY <1>1, Bounds, Ages DEF Poll, TypeSession, TypeOK, Age, Oldest, NoBeat, set_container_status
    <2>3. TypeRunner'
      <3>1. batch' \subseteq Msgs /\ rpc' \in {"poll", "claim"} /\ UNCHANGED <<ceiling, failing, intool>>
        BY <1>1 DEF Poll, Pending
      <3> QED
        BY <3>1 DEF TypeOK, TypeRunner
    <2> QED
      BY <1>1, <2>1, <2>2, <2>3, Unchanged DEF Poll, sweep, restart, TypeOK
  <1>2. CASE ack_picked_up
    <2>1. TypeOutbox'
      BY <1>2, Bounds, Ages DEF ack_picked_up, TypeOutbox, TypeOK, AckRec
    <2>2. TypeRunner'
      <3>1. ceiling' \in 0..MaxMsgs
        BY <1>2, ArrivedCount DEF ack_picked_up
      <3> QED
        BY <1>2, <3>1 DEF ack_picked_up, TypeOK, TypeRunner
    <2> QED
      BY <1>2, <2>1, <2>2, Unchanged DEF ack_picked_up, sweep, restart, TypeOK
  <1>3. CASE MidTurnStop
    <2>1. TypeInbox'
      <3>1. msg' = [msg EXCEPT ![Earliest({m \in get_new_since : msg[m].kind = "stop"})].status = "completed"]
        BY <1>3 DEF MidTurnStop
      <3>2. \A r \in MsgRec : [r EXCEPT !.status = "completed"] \in MsgRec
        BY MsgUpdate
      <3> QED
        BY <3>1, <3>2 DEF TypeOK, TypeInbox
    <2>2. TypeOutbox'
      <3>1. Origin \in Msgs
        BY <1>3, OriginType DEF MidTurnStop, Working
      <3> QED
        BY <1>3, <3>1 DEF MidTurnStop, TypeOK, TypeOutbox
    <2>3. TypeRunner'
      BY <1>3, Bounds, Ages DEF MidTurnStop, TypeRunner, TypeOK
    <2> QED
      BY <1>3, <2>1, <2>2, <2>3, Unchanged DEF MidTurnStop, sweep, restart, TypeOK
  <1>4. CASE TurnEnds
    <2>1. TypeRunner'
      BY <1>4, Bounds, Ages DEF TurnEnds, TypeRunner, TypeOK
    <2> QED
      BY <1>4, <2>1, Unchanged DEF TurnEnds, sweep, restart, TypeOK
  <1>5. CASE finalize_inbound
    <2>1. TypeInbox'
      BY <1>5, Bounds, Ages DEF finalize_inbound, TypeInbox, TypeOK, MsgRec
    <2>2. TypeRunner'
      BY <1>5, Bounds, Ages DEF finalize_inbound, TypeRunner, TypeOK
    <2>3. TypeSeen'
      <3>1. answered' \subseteq Msgs
        BY <1>5 DEF finalize_inbound, TypeOK, TypeSeen, TypeRunner
      <3> QED
        BY <1>5, <3>1 DEF finalize_inbound, TypeOK, TypeSeen
    <2> QED
      BY <1>5, <2>1, <2>2, <2>3, Unchanged DEF finalize_inbound, sweep, restart, TypeOK
  <1>6. CASE finalize_acks
    <2>1. TypeOutbox'
      BY <1>6, Bounds, Ages DEF finalize_acks, TypeOutbox, TypeOK, AckRec
    <2>2. TypeRunner'
      <3>1. CASE failing
        BY <1>6, <3>1 DEF finalize_acks, TypeOK, TypeRunner
      <3>2. CASE ~ failing
        <4>1. rpc' = "poll" /\ batch' = {} /\ ceiling' = 0 /\ failing' = FALSE /\ UNCHANGED intool
          BY <1>6, <3>2 DEF finalize_acks
        <4> QED
          BY <4>1, RunnerBlank DEF TypeOK, TypeRunner
      <3> QED
        BY <3>1, <3>2
    <2> QED
      BY <1>6, <2>1, <2>2, Unchanged DEF finalize_acks, sweep, restart, TypeOK
  <1>7. CASE emit_terminal_failure_apologies
    <2>1. TypeOutbox'
      <3>1. replied' \subseteq Msgs
        BY <1>7 DEF emit_terminal_failure_apologies, TypeOK, TypeOutbox, TypeRunner
      <3> QED
        BY <1>7, <3>1 DEF emit_terminal_failure_apologies, TypeOK, TypeOutbox
    <2>2. TypeRunner'
      <3>1. rpc' = "poll" /\ batch' = {} /\ ceiling' = 0 /\ failing' = FALSE /\ UNCHANGED intool
        BY <1>7 DEF emit_terminal_failure_apologies
      <3> QED
        BY <3>1, RunnerBlank DEF TypeOK, TypeRunner
    <2> QED
      BY <1>7, <2>1, <2>2, Unchanged DEF emit_terminal_failure_apologies, sweep, restart, TypeOK
  <1> QED
    BY <1>1, <1>2, <1>3, <1>4, <1>5, <1>6, <1>7

\* ... what may happen within a turn,
LEMMA TypeTurn ==
    ASSUME TypeOK, Working,
           \/ TurnReplies \/ Interjection \/ set_current_tool \/ clear_current_tool
              \/ RunnerDies
    PROVE  TypeOK'
  <1>1. CASE TurnReplies
    <2>1. TypeOutbox'
      <3>1. Origin \in Msgs
        BY <1>1, OriginType DEF TurnReplies, Working
      <3> QED
        BY <1>1, <3>1 DEF TurnReplies, TypeOK, TypeOutbox
    <2> QED
      BY <1>1, <2>1, Unchanged DEF TurnReplies, sweep, restart, TypeOK
  <1>2. CASE Interjection
    <2>1. TypeInbox'
      BY <1>2, Bounds, Ages DEF Interjection, TypeInbox, TypeOK, MsgRec
    <2>2. TypeSeen'
      <3>1. answered' \subseteq Msgs
        BY <1>2 DEF Interjection, get_new_since, Pending, TypeOK, TypeSeen
      <3> QED
        BY <1>2, <3>1 DEF Interjection, TypeOK, TypeSeen
    <2> QED
      BY <1>2, <2>1, <2>2, Unchanged DEF Interjection, sweep, restart, TypeOK
  <1>3. CASE set_current_tool
    <2>1. TypeOutbox'
      BY <1>3, Bounds, Ages DEF set_current_tool, TypeOutbox, TypeOK, AckRec
    <2>2. TypeRunner'
      BY <1>3, Bounds, Ages DEF set_current_tool, TypeRunner, TypeOK
    <2> QED
      BY <1>3, <2>1, <2>2, Unchanged DEF set_current_tool, sweep, restart, TypeOK
  <1>4. CASE clear_current_tool
    <2>1. TypeOutbox'
      BY <1>4, Bounds, Ages DEF clear_current_tool, TypeOutbox, TypeOK, AckRec
    <2>2. TypeRunner'
      BY <1>4, Bounds, Ages DEF clear_current_tool, TypeRunner, TypeOK
    <2> QED
      BY <1>4, <2>1, <2>2, Unchanged DEF clear_current_tool, sweep, restart, TypeOK
  <1>5. CASE RunnerDies
    <2>1. TypeRunner' /\ deaths' \in [Msgs -> 0..Quarantine] /\ cut' \subseteq Msgs
      BY <1>5, KillType DEF RunnerDies
    <2>2. TypeSeen'
      BY <1>5, <2>1, Bounds, Ages DEF RunnerDies, TypeSeen, TypeOK, seen
    <2> QED
      BY <1>5, <2>1, <2>2, Unchanged DEF RunnerDies, sweep, restart, TypeOK
  <1> QED
    BY <1>1, <1>2, <1>3, <1>4, <1>5

\* ... the sweep,
LEMMA TypeSweepStep ==
    ASSUME TypeOK, Working,
           \/ SweepBegin \/ atomic_reclaim_claim \/ reset_message_in \/ Wake
              \/ ApologiseStuck \/ mark_tries_apology_sent \/ SweepEnd
    PROVE  TypeOK'
  <1>1. CASE SweepBegin
    <2>1. TypeSweep'
      <3>1. spc = "idle" /\ spc' = "claims" /\ snap' = container_status /\ UNCHANGED <<queue, hand>>
        BY <1>1 DEF SweepBegin
      <3>2. overdue' \in BOOLEAN
        BY <1>1, Zenon DEF SweepBegin
      <3>3. victims' \subseteq Msgs
        BY <1>1 DEF SweepBegin
      <3> QED
        BY <3>1, <3>2, <3>3 DEF TypeOK, TypeSweep, TypeSession
    <2>2. TypeTracker'
      BY <1>1, Bounds, Ages DEF SweepBegin, TypeTracker, TypeOK, tracker
    <2>3. Restarting'
      BY <1>1, Bounds, Ages DEF SweepBegin, Restarting, TypeOK, TypeSweep, TypeManager, TypeRestart,
         Actors, sweep, restart
    <2> QED
      BY <1>1, <2>1, <2>2, <2>3, Unchanged DEF SweepBegin, TypeOK
  <1>2. CASE atomic_reclaim_claim
    <2>1. TypeOutbox'
      <3>1. PICK v \in victims : ack' = [ack EXCEPT ![v] = NoAck] \/ UNCHANGED ack
        BY <1>2 DEF atomic_reclaim_claim
      <3>2. v \in Msgs /\ NoAck \in AckRec
        BY DEF TypeOK, TypeSweep, NoAck, AckRec
      <3> QED
        BY <1>2, <3>1, <3>2 DEF atomic_reclaim_claim, TypeOK, TypeOutbox
    <2>2. TypeSweep'
      BY <1>2, Bounds, Ages DEF atomic_reclaim_claim, TypeSweep, TypeOK, NoMsg, Msgs
    <2>3. Restarting'
      BY <1>2, Bounds, Ages DEF atomic_reclaim_claim, Restarting, TypeOK, TypeSweep, TypeManager,
         TypeRestart, Actors, sweep, restart
    <2> QED
      BY <1>2, <2>1, <2>2, <2>3, Unchanged DEF atomic_reclaim_claim, TypeOK
  <1>3. CASE reset_message_in
    <2>1. TypeInbox'
      <3>1. \A m \in Msgs : msg[m] \in MsgRec /\ [msg[m] EXCEPT !.status = "pending"] \in MsgRec
        BY MsgUpdate DEF TypeOK, TypeInbox
      <3>2. msg' = [m \in Msgs |-> IF m = hand THEN [msg[m] EXCEPT !.status = "pending"] ELSE msg[m]]
        BY <1>3 DEF reset_message_in, TypeOK, TypeInbox
      <3> QED
        BY <3>1, <3>2 DEF TypeInbox
    <2>2. TypeSweep'
      BY <1>3, Bounds, Ages DEF reset_message_in, TypeSweep, TypeOK, NoMsg, Msgs
    <2>3. TypeSeen'
      BY <1>3, Bounds, Ages DEF reset_message_in, TypeSeen, TypeOK, seen
    <2>4. Restarting'
      BY <1>3, Bounds, Ages DEF reset_message_in, Restarting, TypeOK, TypeSweep, TypeManager,
         TypeRestart, Actors, sweep, restart
    <2> QED
      BY <1>3, <2>1, <2>2, <2>3, <2>4, Unchanged DEF reset_message_in, TypeOK
  <1>4. CASE Wake
    <2>1. TypeSession'
      BY <1>4, Bounds, Ages DEF Wake, TypeSession, TypeOK, Age, Oldest, NoBeat, set_container_status
    <2>2. TypeSweep'
      <3>1. queue' \subseteq Msgs
        BY <1>4 DEF Wake, Pending
      <3> QED
        BY <1>4, <3>1 DEF Wake, TypeOK, TypeSweep
    <2>3. Restarting'
      BY <1>4, Bounds, Ages DEF Wake, Restarting, TypeOK, TypeSweep, TypeManager, TypeRestart,
         Actors, sweep, restart
    <2> QED
      BY <1>4, <2>1, <2>2, <2>3, Unchanged DEF Wake, TypeOK
  <1>5. CASE ApologiseStuck
    <2>1. TypeOutbox'
      <3>1. Earliest(queue) \in Msgs
        BY <1>5, EarliestIn DEF ApologiseStuck, TypeOK, TypeSweep
      <3> QED
        BY <1>5, <3>1 DEF ApologiseStuck, TypeOK, TypeOutbox
    <2>2. TypeSweep'
      <3>1. Earliest(queue) \in Msgs
        BY <1>5, EarliestIn DEF ApologiseStuck, TypeOK, TypeSweep
      <3>2. Earliest(queue) # NoMsg
        BY <3>1, Bounds DEF Msgs, NoMsg
      <3> QED
        BY <1>5, <3>1, <3>2 DEF ApologiseStuck, TypeOK, TypeSweep
    <2>3. TypeSeen'
      BY <1>5, Bounds, Ages DEF ApologiseStuck, TypeSeen, TypeOK, seen
    <2>4. Restarting'
      BY <1>5, Bounds, Ages DEF ApologiseStuck, Restarting, TypeOK, TypeSweep, TypeManager,
         TypeRestart, Actors, sweep, restart
    <2> QED
      BY <1>5, <2>1, <2>2, <2>3, <2>4, Unchanged DEF ApologiseStuck, TypeOK
  <1>6. CASE mark_tries_apology_sent
    <2>1. TypeInbox'
      <3>1. \A m \in Msgs : msg[m] \in MsgRec /\ [msg[m] EXCEPT !.stamped = TRUE] \in MsgRec
        BY MsgUpdate DEF TypeOK, TypeInbox
      <3>2. msg' = [m \in Msgs |-> IF m = hand THEN [msg[m] EXCEPT !.stamped = TRUE] ELSE msg[m]]
        BY <1>6 DEF mark_tries_apology_sent, TypeOK, TypeInbox
      <3> QED
        BY <3>1, <3>2 DEF TypeInbox
    <2>2. TypeSweep'
      BY <1>6, Bounds, Ages DEF mark_tries_apology_sent, TypeSweep, TypeOK, NoMsg, Msgs
    <2>3. Restarting'
      BY <1>6, Bounds, Ages DEF mark_tries_apology_sent, Restarting, TypeOK, TypeSweep, TypeManager,
         TypeRestart, Actors, sweep, restart
    <2> QED
      BY <1>6, <2>1, <2>2, <2>3, Unchanged DEF mark_tries_apology_sent, TypeOK
  <1>7. CASE SweepEnd
    <2>1. TypeSweep'
      BY <1>7, Bounds, Ages DEF SweepEnd, TypeSweep, TypeOK, NoMsg, Msgs
    <2>2. TypeRestart'
      <3>1. rstep["sweep"] = "idle" /\ UNCHANGED <<rlist, rhand>>
        BY <1>7 DEF SweepEnd, TypeOK, Restarting
      <3>2. rstep' = [rstep EXCEPT !["sweep"] = "remove"] \/ rstep' = rstep
        BY <1>7 DEF SweepEnd
      <3> QED
        BY <3>1, <3>2 DEF TypeOK, TypeRestart
    <2>3. Restarting'
      BY <1>7, Bounds, Ages DEF SweepEnd, Restarting, TypeOK, TypeSweep, TypeManager, TypeRestart,
         Actors, sweep, restart
    <2> QED
      BY <1>7, <2>1, <2>2, <2>3, Unchanged DEF SweepEnd, TypeOK
  <1> QED
    BY <1>1, <1>2, <1>3, <1>4, <1>5, <1>6, <1>7

\* ... the manager,
LEMMA TypeManagerStep ==
    ASSUME TypeOK, Working,
           \/ ReconcileSpawn \/ ReconcileWake \/ ReconcileCrash \/ IdleStop
              \/ SpawnRefused \/ SpawnFails \/ SpawnRuns \/ MarkRunning
    PROVE  TypeOK'
  <1>1. CASE ReconcileSpawn
    <2>1. TypeManager'
      BY <1>1, Bounds, Ages DEF ReconcileSpawn, TypeManager, TypeOK
    <2>2. Restarting'
      BY <1>1, Bounds, Ages DEF ReconcileSpawn, Restarting, TypeOK, TypeSweep, TypeManager,
         TypeRestart, Actors, sweep, restart
    <2> QED
      BY <1>1, <2>1, <2>2, Unchanged DEF ReconcileSpawn, TypeOK
  <1>2. CASE ReconcileWake
    <2>1. TypeSession'
      BY <1>2, Bounds, Ages DEF ReconcileWake, TypeSession, TypeOK, Age, Oldest, NoBeat,
         set_container_status
    <2> QED
      BY <1>2, <2>1, Unchanged DEF ReconcileWake, sweep, restart, TypeOK
  <1>3. CASE ReconcileCrash
    <2>1. TypeManager'
      BY <1>3, Bounds, Ages DEF ReconcileCrash, TypeManager, TypeOK
    <2>2. TypeRestart'
      <3>1. rstep["manager"] = "idle" /\ UNCHANGED <<rlist, rhand>>
        BY <1>3 DEF ReconcileCrash, TypeOK, Restarting
      <3>2. rstep' = [rstep EXCEPT !["manager"] = "remove"]
        BY <1>3 DEF ReconcileCrash
      <3> QED
        BY <3>1, <3>2 DEF TypeOK, TypeRestart
    <2>3. Restarting'
      BY <1>3, Bounds, Ages DEF ReconcileCrash, Restarting, TypeOK, TypeSweep, TypeManager,
         TypeRestart, Actors, sweep, restart
    <2> QED
      BY <1>3, <2>1, <2>2, <2>3, Unchanged DEF ReconcileCrash, TypeOK
  <1>4. CASE IdleStop
    <2>1. TypeSession'
      BY <1>4, Bounds, Ages DEF IdleStop, TypeSession, TypeOK, Age, Oldest, NoBeat,
         set_container_status
    <2>2. TypeRunner' /\ deaths' \in [Msgs -> 0..Quarantine] /\ cut' \subseteq Msgs
      BY <1>4, KillType DEF IdleStop
    <2>3. TypeSeen'
      BY <1>4, <2>2, Bounds, Ages DEF IdleStop, TypeSeen, TypeOK, seen
    <2> QED
      BY <1>4, <2>1, <2>2, <2>3, Unchanged DEF IdleStop, sweep, restart, TypeOK
  <1>5. CASE SpawnRefused
    <2>1. TypeManager'
      BY <1>5, Bounds, Ages DEF SpawnRefused, TypeManager, TypeOK
    <2>2. Restarting'
      BY <1>5, Bounds, Ages DEF SpawnRefused, Restarting, TypeOK, TypeSweep, TypeManager,
         TypeRestart, Actors, sweep, restart
    <2> QED
      BY <1>5, <2>1, <2>2, Unchanged DEF SpawnRefused, TypeOK
  <1>6. CASE SpawnFails
    <2>1. TypeSession'
      BY <1>6, Bounds, Ages DEF SpawnFails, TypeSession, TypeOK, Age, Oldest, NoBeat,
         set_container_status
    <2>2. TypeRunner'
      BY <1>6, KillType, Unchanged DEF SpawnFails
    <2>3. TypeManager'
      BY <1>6, Bounds, Ages DEF SpawnFails, TypeManager, TypeOK
    <2>4. TypeTracker'
      BY <1>6, Bounds, Ages DEF SpawnFails, TypeTracker, TypeOK, tracker
    <2>5. TypeSeen'
      <3>1. deaths' \in [Msgs -> 0..Quarantine] /\ cut' \subseteq Msgs
        BY <1>6, KillType DEF SpawnFails, TypeOK, TypeSeen
      <3> QED
        BY <1>6, <3>1 DEF SpawnFails, TypeOK, TypeSeen
    <2>6. Restarting'
      BY <1>6, Bounds, Ages DEF SpawnFails, Restarting, TypeOK, TypeSweep, TypeManager, TypeRestart,
         Actors, sweep, restart
    <2> QED
      BY <1>6, <2>1, <2>2, <2>3, <2>4, <2>5, <2>6, Unchanged DEF SpawnFails, TypeOK
  <1>7. CASE SpawnRuns
    <2>1. TypeSession'
      BY <1>7, Bounds, Ages DEF SpawnRuns, TypeSession, TypeOK, Age, Oldest, NoBeat,
         set_container_status
    <2>2. TypeRunner' /\ deaths' \in [Msgs -> 0..Quarantine] /\ cut' \subseteq Msgs
      BY <1>7, KillType DEF SpawnRuns
    <2>3. TypeManager'
      BY <1>7, Bounds, Ages DEF SpawnRuns, TypeManager, TypeOK
    <2>4. TypeTracker'
      BY <1>7, Bounds, Ages DEF SpawnRuns, TypeTracker, TypeOK, tracker
    <2>5. TypeSeen'
      BY <1>7, <2>2, Bounds, Ages DEF SpawnRuns, TypeSeen, TypeOK, seen
    <2>6. Restarting'
      BY <1>7, Bounds, Ages DEF SpawnRuns, Restarting, TypeOK, TypeSweep, TypeManager, TypeRestart,
         Actors, sweep, restart
    <2> QED
      BY <1>7, <2>1, <2>2, <2>3, <2>4, <2>5, <2>6, Unchanged DEF SpawnRuns, TypeOK
  <1>8. CASE MarkRunning
    <2>1. TypeSession'
      BY <1>8, Bounds, Ages DEF MarkRunning, TypeSession, TypeOK, Age, Oldest, NoBeat,
         set_container_status
    <2>2. TypeManager'
      BY <1>8, Bounds, Ages DEF MarkRunning, TypeManager, TypeOK
    <2>3. Restarting'
      BY <1>8, Bounds, Ages DEF MarkRunning, Restarting, TypeOK, TypeSweep, TypeManager,
         TypeRestart, Actors, sweep, restart
    <2> QED
      BY <1>8, <2>1, <2>2, <2>3, Unchanged DEF MarkRunning, TypeOK
  <1> QED
    BY <1>1, <1>2, <1>3, <1>4, <1>5, <1>6, <1>7, <1>8

\* ... a restart, whoever executes it,
LEMMA TypeRestartStep ==
    ASSUME TypeOK, Working, NEW a \in Actors,
           RestartRemove(a) \/ RestartBump(a) \/ RestartTell(a) \/ RestartStop(a)
    PROVE  TypeOK'
  <1>1. CASE RestartRemove(a)
    <2>1. TypeOutbox'
      BY <1>1, Bounds, Ages DEF RestartRemove, TypeOutbox, TypeOK, AckRec
    <2>2. TypeRunner' /\ deaths' \in [Msgs -> 0..Quarantine] /\ cut' \subseteq Msgs
      BY <1>1, KillType DEF RestartRemove
    <2>3. TypeRestart'
      <3>1. rlist' \in [Actors -> SUBSET Msgs]
        BY <1>1 DEF RestartRemove, Processing, TypeOK, TypeRestart
      <3> QED
        BY <1>1, <3>1 DEF RestartRemove, TypeOK, TypeRestart
    <2>4. TypeSeen'
      BY <1>1, <2>2, Bounds, Ages DEF RestartRemove, TypeSeen, TypeOK, seen
    <2>5. Restarting'
      BY <1>1, Bounds, Ages DEF RestartRemove, Restarting, TypeOK, TypeSweep, TypeManager,
         TypeRestart, Actors, sweep, restart
    <2> QED
      BY <1>1, <2>1, <2>2, <2>3, <2>4, <2>5, Unchanged DEF RestartRemove, TypeOK
  <1>2. CASE RestartBump(a)
    <2>1. TypeInbox'
      <3>1. PICK v \in rlist[a] :
              msg' = [msg EXCEPT ![v].crashes = Tick(msg[v].crashes),
                                 ![v].status = IF Tick(msg[v].crashes) >= Quarantine
                                               THEN "failed" ELSE @]
        BY <1>2 DEF RestartBump
      <3>2. v \in Msgs
        BY DEF TypeOK, TypeRestart
      <3>3. Tick(msg[v].crashes) \in 0..Quarantine
        <4>1. msg[v].crashes \in 0..Quarantine
          BY <3>2 DEF TypeOK, TypeInbox, MsgRec
        <4> QED
          BY <4>1, TickType
      <3>4. PICK n \in 0..Quarantine, s \in {"absent", "pending", "completed", "failed"} :
              msg' = [msg EXCEPT ![v].crashes = n, ![v].status = s]
        <4>1. msg[v].status \in {"absent", "pending", "completed", "failed"}
          BY <3>2 DEF TypeOK, TypeInbox, MsgRec
        <4> QED
          BY <3>1, <3>2, <3>3, <4>1 DEF TypeOK, TypeInbox
      <3>5. msg[v] \in MsgRec /\ [msg[v] EXCEPT !.crashes = n, !.status = s] \in MsgRec
        <4>1. msg[v] \in MsgRec
          BY <3>2 DEF TypeOK, TypeInbox
        <4> QED
          BY <4>1 DEF MsgRec
      <3>6. msg' = [msg EXCEPT ![v] = [msg[v] EXCEPT !.crashes = n, !.status = s]]
        BY <3>2, <3>4 DEF TypeOK, TypeInbox
      <3> QED
        BY <3>2, <3>5, <3>6 DEF TypeOK, TypeInbox
    <2>2. TypeRestart'
      BY <1>2, Bounds, Ages DEF RestartBump, TypeRestart, TypeOK, NoMsg, Msgs, Actors
    <2>3. Restarting'
      BY <1>2, Bounds, Ages DEF RestartBump, Restarting, TypeOK, TypeSweep, TypeManager,
         TypeRestart, Actors, sweep, restart
    <2> QED
      BY <1>2, <2>1, <2>2, <2>3, Unchanged DEF RestartBump, TypeOK
  <1>3. CASE RestartTell(a)
    <2>1. TypeInbox'
      <3>1. PICK b \in BOOLEAN : msg' = [msg EXCEPT ![rhand[a]].stamped = b]
        BY <1>3, TellStamps
      <3> QED
        BY <1>3, <3>1, HandIsMsg DEF RestartTell, TypeOK, TypeInbox, MsgRec
    <2>2. TypeOutbox'
      <3>1. rhand[a] \in Msgs
        BY <1>3, HandIsMsg DEF RestartTell
      <3>2. ack[rhand[a]] \in AckRec /\ [status |-> "settled", stale |-> FALSE] \in AckRec
        BY <3>1 DEF TypeOK, TypeOutbox, AckRec
      <3> QED
        BY <1>3, <3>1, <3>2 DEF RestartTell, TypeOK, TypeOutbox
    <2>3. TypeRestart'
      BY <1>3, Bounds, Ages DEF RestartTell, TypeRestart, TypeOK, NoMsg, Msgs, Actors
    <2>4. Restarting'
      BY <1>3, Bounds, Ages DEF RestartTell, Restarting, TypeOK, TypeSweep, TypeManager,
         TypeRestart, Actors, sweep, restart
    <2> QED
      BY <1>3, <2>1, <2>2, <2>3, <2>4, Unchanged DEF RestartTell, TypeOK
  <1>4. CASE RestartStop(a)
    <2>1. TypeSession'
      BY <1>4, Bounds, Ages DEF RestartStop, TypeSession, TypeOK, Age, Oldest, NoBeat,
         set_container_status
    <2>2. TypeSweep'
      <3>1. spc' \in {"idle", spc} /\ UNCHANGED <<snap, victims, queue, hand, overdue>>
        BY <1>4 DEF RestartStop
      <3>2. spc' # spc => spc = "restart"
        BY <1>4 DEF RestartStop, TypeOK, Restarting
      <3> QED
        BY <3>1, <3>2 DEF TypeOK, TypeSweep
    <2>3. TypeManager'
      BY <1>4, Bounds, Ages DEF RestartStop, TypeManager, TypeOK
    <2>4. TypeRestart'
      BY <1>4, Bounds, Ages DEF RestartStop, TypeRestart, TypeOK, NoMsg, Msgs, Actors
    <2>5. TypeTracker'
      <3>1. streak' \in 1..Len(BackoffSteps)
        BY <1>4, Backoffs DEF RestartStop, record_crash, TypeOK, TypeTracker
      <3>2. window' \in Nat
        BY <1>4, <3>1, Backoffs DEF RestartStop, record_crash
      <3> QED
        BY <1>4, <3>1, <3>2, Backoffs DEF RestartStop, TypeOK, TypeTracker
    <2>6. Restarting'
      BY <1>4, Bounds, Ages DEF RestartStop, Restarting, TypeOK, TypeSweep, TypeManager,
         TypeRestart, Actors, sweep, restart
    <2> QED
      BY <1>4, <2>1, <2>2, <2>3, <2>4, <2>5, <2>6, Unchanged DEF RestartStop, TypeOK
  <1> QED
    BY <1>1, <1>2, <1>3, <1>4

\* ... the host's crash and boot,
LEMMA TypeHostStep ==
    ASSUME TypeOK, Working,
           HostCrash \/ BootClean \/ BootReset \/ BootNotice
    PROVE  TypeOK'
  <1>1. CASE HostCrash
    <2>1. TypeSweep'
      BY <1>1, Bounds, Ages DEF HostCrash, TypeSweep, TypeOK, NoMsg, Msgs
    <2>2. TypeManager'
      BY <1>1, Bounds, Ages DEF HostCrash, TypeManager, TypeOK
    <2>3. TypeRestart'
      BY <1>1 DEF HostCrash, Idle, TypeRestart, Actors, NoMsg
    <2>4. TypeTracker'
      BY <1>1, Bounds, Ages DEF HostCrash, TypeTracker, TypeOK, tracker
    <2>5. TypeSeen'
      <3>1. {rhand[a] : a \in {b \in Actors : rstep[b] = "bury"}} \subseteq Msgs
        BY DEF TypeOK, TypeRestart
      <3>2. ncrashes' \in 0..MaxHostCrashes
        BY <1>1, Bounds DEF HostCrash, TypeOK, TypeSeen
      <3> QED
        BY <1>1, <3>1, <3>2 DEF HostCrash, TypeOK, TypeSeen
    <2>6. Restarting'
      BY <1>1 DEF HostCrash, Idle, Restarting, Actors
    <2> QED
      BY <1>1, <2>1, <2>2, <2>3, <2>4, <2>5, <2>6, Unchanged DEF HostCrash, TypeOK
  <1>2. CASE BootClean
    <2>1. TypeRunner' /\ deaths' \in [Msgs -> 0..Quarantine] /\ cut' \subseteq Msgs
      BY <1>2, KillType DEF BootClean
    <2>2. TypeManager'
      BY <1>2, Bounds, Ages DEF BootClean, TypeManager, TypeOK
    <2>3. TypeSeen'
      BY <1>2, <2>1, Bounds, Ages DEF BootClean, TypeSeen, TypeOK, seen
    <2>4. Restarting'
      BY <1>2, Bounds, Ages DEF BootClean, Restarting, TypeOK, TypeSweep, TypeManager, TypeRestart,
         Actors, sweep, restart
    <2> QED
      BY <1>2, <2>1, <2>2, <2>3, <2>4, Unchanged DEF BootClean, TypeOK
  <1>3. CASE BootReset
    <2>1. TypeSession'
      BY <1>3, Bounds, Ages DEF BootReset, TypeSession, TypeOK, Age, Oldest, NoBeat,
         set_container_status
    <2>2. TypeManager'
      BY <1>3, Bounds, Ages DEF BootReset, TypeManager, TypeOK
    <2>3. Restarting'
      BY <1>3, Bounds, Ages DEF BootReset, Restarting, TypeOK, TypeSweep, TypeManager, TypeRestart,
         Actors, sweep, restart
    <2> QED
      BY <1>3, <2>1, <2>2, <2>3, Unchanged DEF BootReset, TypeOK
  <1>4. CASE BootNotice
    <2>1. TypeInbox'
      <3>1. ASSUME NEW r \in MsgRec PROVE [r EXCEPT !.stamped = TRUE] \in MsgRec
        BY <3>1 DEF MsgRec
      <3> QED
        BY <1>4, <3>1 DEF BootNotice, TypeOK, TypeInbox
    <2>2. TypeOutbox'
      <3>1. [status |-> "settled", stale |-> FALSE] \in AckRec
        BY DEF AckRec
      <3>2. ack' \in [Msgs -> AckRec]
        BY <1>4, <3>1 DEF BootNotice, TypeOK, TypeOutbox
      <3>3. replied' \subseteq Msgs /\ UNCHANGED tool
        BY <1>4 DEF BootNotice, Processing, TypeOK, TypeOutbox
      <3> QED
        BY <3>2, <3>3 DEF TypeOK, TypeOutbox
    <2>3. TypeManager'
      BY <1>4, Bounds, Ages DEF BootNotice, TypeManager, TypeOK
    <2>4. Restarting'
      BY <1>4, Bounds, Ages DEF BootNotice, Restarting, TypeOK, TypeSweep, TypeManager, TypeRestart,
         Actors, sweep, restart
    <2> QED
      BY <1>4, <2>1, <2>2, <2>3, <2>4, Unchanged DEF BootNotice, TypeOK
  <1> QED
    BY <1>1, <1>2, <1>3, <1>4

\* ... the ages of rows and claims,
LEMMA TypeClockStep ==
    ASSUME TypeOK, Working, NEW m \in Msgs,
           AgeMessage(m) \/ AgeClaim(m)
    PROVE  TypeOK'
  <1>1. CASE AgeMessage(m)
    <2>1. TypeInbox'
      BY <1>1 DEF AgeMessage, TypeOK, TypeInbox, MsgRec
    <2> QED
      BY <1>1, <2>1, Unchanged DEF AgeMessage, sweep, restart, TypeOK
  <1>2. CASE AgeClaim(m)
    <2>1. TypeOutbox'
      BY <1>2, Bounds, Ages DEF AgeClaim, TypeOutbox, TypeOK, AckRec
    <2> QED
      BY <1>2, <2>1, Unchanged DEF AgeClaim, sweep, restart, TypeOK
  <1> QED
    BY <1>1, <1>2

\* ... and the other clocks.
LEMMA TypeAgeStep ==
    ASSUME TypeOK, Working,
           AgeHeartbeat \/ AgeActive \/ AgeTool
    PROVE  TypeOK'
  <1>1. CASE AgeHeartbeat
    <2>1. TypeSession'
      BY <1>1, Bounds, Ages DEF AgeHeartbeat, TypeSession, TypeOK, Age, Oldest, NoBeat,
         set_container_status
    <2> QED
      BY <1>1, <2>1, Unchanged DEF AgeHeartbeat, sweep, restart, TypeOK
  <1>2. CASE AgeActive
    <2>1. TypeSession'
      BY <1>2, Bounds, Ages DEF AgeActive, TypeSession, TypeOK, Age, Oldest, NoBeat,
         set_container_status
    <2> QED
      BY <1>2, <2>1, Unchanged DEF AgeActive, sweep, restart, TypeOK
  <1>3. CASE AgeTool
    <2>1. TypeOutbox'
      BY <1>3, Bounds, Ages DEF AgeTool, TypeOutbox, TypeOK, AckRec
    <2> QED
      BY <1>3, <2>1, Unchanged DEF AgeTool, sweep, restart, TypeOK
  <1> QED
    BY <1>1, <1>2, <1>3

LEMMA WorkingStep ==
    ASSUME TypeOK, Working, [Next]_vars
    PROVE  Working'
  <1> USE DEF Working
  <1>1. ASSUME UNCHANGED <<rpc, batch>> PROVE Working'
    BY <1>1
  <1>2. ASSUME NEW to \in {"dead", "poll"}, Kill(to) PROVE Working'
    BY <1>2 DEF Kill
  <1>3. CASE RunnerStep
    BY <1>3 DEF RunnerStep, Poll, ack_picked_up, MidTurnStop, TurnEnds, finalize_inbound,
       finalize_acks, emit_terminal_failure_apologies
  <1>4. CASE \/ Arrive \/ TurnReplies \/ Interjection \/ set_current_tool \/ clear_current_tool
             \/ SweepStep \/ MarkRunning
    BY <1>1, <1>4 DEF Arrive, TurnReplies, Interjection, set_current_tool, clear_current_tool,
       SweepStep, SweepBegin, atomic_reclaim_claim, reset_message_in, Wake, ApologiseStuck,
       mark_tries_apology_sent, SweepEnd, MarkRunning, runner
  <1>5. CASE RunnerDies \/ Reconcile \/ SpawnStep
    BY <1>1, <1>2, <1>5 DEF RunnerDies, Reconcile, ReconcileSpawn, ReconcileWake, ReconcileCrash,
       IdleStop, SpawnStep, SpawnRefused, SpawnFails, SpawnRuns, runner
  <1>6. CASE HostCrash \/ BootStep \/ \E a \in Actors : RestartStep(a)
    BY <1>1, <1>2, <1>6 DEF HostCrash, BootStep, BootClean, BootReset, BootNotice, RestartStep,
       RestartRemove, RestartBump, RestartTell, RestartStop, runner
  <1>7. CASE \/ AgeHeartbeat \/ AgeActive \/ AgeTool \/ \E m \in Msgs : AgeMessage(m) \/ AgeClaim(m)
             \/ UNCHANGED vars
    BY <1>1, <1>7 DEF AgeHeartbeat, AgeActive, AgeTool, AgeMessage, AgeClaim, runner, vars
  <1> QED
    BY <1>3, <1>4, <1>5, <1>6, <1>7 DEF Next

LEMMA TypeStep ==
    ASSUME TypeOK, Working, [Next]_vars
    PROVE  TypeOK'
  <1>1. CASE UNCHANGED vars
    BY <1>1, Unchanged DEF vars, TypeOK, inbox, outbox, session, runner, sweep, restart, tracker, seen
  <1>2. ASSUME NEW m \in Msgs, AgeMessage(m) \/ AgeClaim(m) PROVE TypeOK'
    BY <1>2, TypeClockStep
  <1>3. CASE AgeHeartbeat \/ AgeActive \/ AgeTool
    BY <1>3, TypeAgeStep
  <1>4. ASSUME NEW a \in Actors, RestartStep(a) PROVE TypeOK'
    BY <1>4, TypeRestartStep DEF RestartStep
  <1>5. CASE \/ RunnerStep \/ TurnReplies \/ Interjection
             \/ set_current_tool \/ clear_current_tool \/ RunnerDies
    BY <1>5, TypeRunnerStep, TypeTurn DEF RunnerStep
  <1>6. CASE SweepStep
    BY <1>6, TypeSweepStep DEF SweepStep
  <1>7. CASE Reconcile \/ SpawnStep \/ MarkRunning
    BY <1>7, TypeManagerStep DEF Reconcile, SpawnStep
  <1>8. CASE Arrive \/ HostCrash \/ BootStep
    BY <1>8, TypeRouter, TypeHostStep DEF BootStep
  <1> QED
    BY <1>1, <1>2, <1>3, <1>4, <1>5, <1>6, <1>7, <1>8 DEF Next

LEMMA InitType == ASSUME Init PROVE TypeOK /\ Working
  <1>1. TypeInbox
    BY Bounds DEF Init, TypeInbox, MsgRec
  <1>2. TypeOutbox
    BY DEF Init, TypeOutbox, AckRec, NoAck
  <1>3. TypeSession
    BY Ages DEF Init, TypeSession
  <1>4. TypeRunner
    BY RunnerBlank DEF Init, TypeRunner
  <1>5. TypeSweep /\ TypeManager
    BY DEF Init, TypeSweep, TypeManager
  <1>6. TypeRestart /\ Restarting
    BY DEF Init, TypeRestart, Restarting, Idle, Actors
  <1>7. TypeTracker
    BY Bounds, Backoffs DEF Init, TypeTracker
  <1>8. TypeSeen
    BY Bounds DEF Init, TypeSeen
  <1> QED
    BY <1>1, <1>2, <1>3, <1>4, <1>5, <1>6, <1>7, <1>8 DEF TypeOK, Init, Working

\* Every variable keeps its type and a runner past its poll has a batch, with
\* any number of messages, deaths and host crashes.
THEOREM InboundTypeSafety == Spec => [](TypeOK /\ Working)
  <1>1. Init => TypeOK /\ Working
    BY InitType
  <1>2. TypeOK /\ Working /\ [Next]_vars => (TypeOK /\ Working)'
    BY TypeStep, WorkingStep
  <1> QED
    BY <1>1, <1>2, PTL DEF Spec

\* Every variable of the inbound path keeps its type.
THEOREM InboundTypeCorrect == Spec => []TypeOK
  BY InboundTypeSafety, PTL

-----------------------------------------------------------------------------
(* FailedIsTold.  It is inductive: every step that could take a message out *)
(* of the hands of the process that failed it either tells or dies.         *)

Told(m) ==
    \/ m \in replied \cup cut \cup Untold
    \/ \E a \in Actors : rstep[a] = "bury" /\ rhand[a] = m

\* What is told stays told, and what fails is told or about to be.
ToldKept ==
    /\ \A m \in Msgs : Told(m) /\ msg[m].kind = "chat" => Told(m)'
    /\ \A m \in Msgs : msg'[m].status = "failed" =>
         (msg[m].status = "failed" /\ msg'[m].kind = msg[m].kind) \/ Told(m)'

LEMMA KeptTold == ASSUME TypeOK, FailedIsTold, ToldKept PROVE FailedIsTold'
  <1> SUFFICES ASSUME NEW m \in Msgs, msg'[m].status = "failed", msg'[m].kind = "chat"
               PROVE  Told(m)'
    BY DEF FailedIsTold, Told, Untold
  <1>1. CASE msg[m].status = "failed" /\ msg'[m].kind = msg[m].kind
    <2>1. Told(m)
      BY <1>1 DEF FailedIsTold, Told
    <2> QED
      BY <1>1, <2>1 DEF ToldKept
  <1> QED
    BY <1>1 DEF ToldKept

\* The messages are as they were, but for what "failed" and the kind say.
LEMMA SameTold ==
    ASSUME TypeOK, UNCHANGED <<rpc, batch, failing, rstep, rhand, cut>>, replied \subseteq replied',
           \A m \in Msgs : msg'[m].status = "failed" => msg[m].status = "failed" /\ msg'[m].kind = msg[m].kind
    PROVE  ToldKept
  BY DEF ToldKept, Told, Untold

\* A runner that ends leaves what it has not told in cut.
LEMMA KillTold ==
    ASSUME TypeOK, NEW to \in {"dead", "poll"}, Kill(to), UNCHANGED <<msg, replied>>,
           \A b \in Actors : rstep[b] = "bury" => rstep'[b] = "bury" /\ rhand'[b] = rhand[b]
    PROVE  ToldKept
  <1>1. \A m \in Msgs : Told(m) => Told(m)'
    BY DEF Told, Kill, Untold
  <1> QED
    BY <1>1 DEF ToldKept

LEMMA ToldStep ==
    ASSUME TypeOK, Working, [Next]_vars
    PROVE  ToldKept
  <1> USE DEF inbox, outbox, runner, restart, seen, TypeOK, TypeInbox, MsgRec
  <1>1. CASE Arrive
    <2>1. msg' \in [Msgs -> MsgRec] /\ UNCHANGED <<rpc, batch, failing, rstep, rhand, cut, replied>>
      BY <1>1, TypeRouter DEF Arrive
    <2>2. \A m \in Msgs : msg'[m] = msg[m] \/ msg'[m].status = "pending"
      BY <1>1 DEF Arrive
    <2> QED
      BY <2>1, <2>2, SameTold
  <1>2. CASE Poll
    BY <1>2 DEF Poll, ToldKept, Told, Untold
  <1>3. CASE ack_picked_up
    BY <1>3 DEF ack_picked_up, ToldKept, Told, Untold
  <1>4. CASE MidTurnStop
    BY <1>4 DEF MidTurnStop, ToldKept, Told, Untold
  <1>5. CASE TurnEnds
    BY <1>5 DEF TurnEnds, ToldKept, Told, Untold
  <1>6. CASE finalize_inbound
    BY <1>6 DEF finalize_inbound, ToldKept, Told, Untold
  <1>7. CASE finalize_acks
    BY <1>7 DEF finalize_acks, ToldKept, Told, Untold
  <1>8. CASE emit_terminal_failure_apologies
    BY <1>8 DEF emit_terminal_failure_apologies, ToldKept, Told, Untold
  <1>9. CASE TurnReplies \/ set_current_tool \/ clear_current_tool
    BY <1>9, SameTold DEF TurnReplies, set_current_tool, clear_current_tool
  <1>10. CASE Interjection
    BY <1>10, SameTold DEF Interjection
  <1>11. CASE RunnerDies
    BY <1>11, KillTold DEF RunnerDies
  <1>12. CASE SweepBegin \/ atomic_reclaim_claim \/ Wake
    BY <1>12, SameTold DEF SweepBegin, atomic_reclaim_claim, Wake
  <1>13. CASE reset_message_in
    BY <1>13, SameTold DEF reset_message_in
  <1>14. CASE mark_tries_apology_sent
    BY <1>14, SameTold DEF mark_tries_apology_sent
  <1>15. CASE ApologiseStuck
    BY <1>15, SameTold DEF ApologiseStuck
  <1>16. CASE SweepEnd
    <2>1. rstep["sweep"] = "idle"
      BY <1>16 DEF SweepEnd, Restarting
    <2> QED
      BY <1>16, <2>1 DEF SweepEnd, ToldKept, Told, Untold, TypeRestart
  <1>17. CASE ReconcileSpawn \/ ReconcileWake \/ SpawnRefused \/ MarkRunning
    BY <1>17, SameTold DEF ReconcileSpawn, ReconcileWake, SpawnRefused, MarkRunning
  <1>18. CASE ReconcileCrash
    <2>1. rstep["manager"] = "idle"
      BY <1>18 DEF ReconcileCrash, Restarting
    <2> QED
      BY <1>18, <2>1 DEF ReconcileCrash, ToldKept, Told, Untold, TypeRestart
  <1>19. CASE IdleStop
    BY <1>19, KillTold DEF IdleStop
  <1>20. CASE SpawnRuns
    BY <1>20, KillTold DEF SpawnRuns
  <1>21. CASE SpawnFails
    BY <1>21, KillTold, SameTold DEF SpawnFails
  <1>22. ASSUME NEW a \in Actors, RestartRemove(a) PROVE ToldKept
    BY <1>22, KillTold DEF RestartRemove, TypeRestart
  <1>23. ASSUME NEW a \in Actors, RestartBump(a) PROVE ToldKept
    <2>1. PICK v \in rlist[a] :
            /\ msg' = [msg EXCEPT ![v].crashes = Tick(msg[v].crashes),
                                  ![v].status = IF Tick(msg[v].crashes) >= Quarantine
                                                THEN "failed" ELSE @]
            /\ rhand' = [rhand EXCEPT ![a] = v]
            /\ rstep' = [rstep EXCEPT ![a] = IF Tick(msg[v].crashes) >= Quarantine
                                             THEN "bury" ELSE "tell"]
      BY <1>23 DEF RestartBump
    <2>2. v \in Msgs /\ rstep[a] = "work" /\ UNCHANGED <<rpc, batch, failing, replied, cut>>
      BY <1>23 DEF RestartBump, TypeRestart
    <2>3. \A m \in Msgs : Told(m) => Told(m)'
      BY <2>1, <2>2 DEF Told, Untold, TypeRestart
    <2>4. \A m \in Msgs \ {v} : msg'[m] = msg[m]
      BY <2>1
    <2>5. msg'[v].kind = msg[v].kind
      BY <2>1, <2>2
    <2>6. CASE Tick(msg[v].crashes) >= Quarantine
      <3>1. rstep'[a] = "bury" /\ rhand'[a] = v
        BY <2>1, <2>6 DEF TypeRestart
      <3>2. Told(v)'
        BY <3>1 DEF Told
      <3> QED
        BY <2>3, <2>4, <3>2 DEF ToldKept
    <2>7. CASE ~ (Tick(msg[v].crashes) >= Quarantine)
      <3>1. msg'[v].status = msg[v].status
        BY <2>1, <2>2, <2>7
      <3> QED
        BY <2>3, <2>4, <2>5, <3>1 DEF ToldKept
    <2> QED
      BY <2>6, <2>7
  <1>24. ASSUME NEW a \in Actors, RestartTell(a) PROVE ToldKept
    <2>1. PICK b \in BOOLEAN : msg' = [msg EXCEPT ![rhand[a]].stamped = b]
      BY <1>24, TellStamps
    <2>2. \A m \in Msgs : msg'[m].status = msg[m].status /\ msg'[m].kind = msg[m].kind
      BY <2>1
    <2>3. \A m \in Msgs : Told(m) => Told(m)'
      BY <1>24 DEF RestartTell, Told, Untold, TypeRestart
    <2> QED
      BY <2>2, <2>3 DEF ToldKept
  <1>25. ASSUME NEW a \in Actors, RestartStop(a) PROVE ToldKept
    <2>1. UNCHANGED <<msg, rpc, batch, failing, cut, replied, rhand>>
      BY <1>25 DEF RestartStop
    <2>2. \A b \in Actors : rstep[b] = "bury" => rstep'[b] = "bury"
      BY <1>25 DEF RestartStop, TypeRestart
    <2>3. \A m \in Msgs : Told(m) => Told(m)'
      BY <2>1, <2>2 DEF Told, Untold
    <2> QED
      BY <2>1, <2>3 DEF ToldKept
  <1>26. CASE HostCrash
    BY <1>26 DEF HostCrash, ToldKept, Told, Untold
  <1>27. CASE BootClean
    BY <1>27, KillTold DEF BootClean
  <1>28. CASE BootReset
    BY <1>28, SameTold DEF BootReset
  <1>29. CASE BootNotice
    BY <1>29, SameTold DEF BootNotice
  <1>30. ASSUME NEW m \in Msgs, AgeMessage(m) PROVE ToldKept
    BY <1>30, SameTold DEF AgeMessage
  <1>31. CASE AgeHeartbeat \/ AgeActive \/ AgeTool \/ \E m \in Msgs : AgeClaim(m)
    BY <1>31, SameTold DEF AgeHeartbeat, AgeActive, AgeTool, AgeClaim
  <1>32. CASE UNCHANGED vars
    BY <1>32, SameTold DEF vars
  <1> QED
    BY <1>1, <1>2, <1>3, <1>4, <1>5, <1>6, <1>7, <1>8, <1>9, <1>10, <1>11, <1>12, <1>13, <1>14, <1>15,
       <1>16, <1>17, <1>18, <1>19, <1>20, <1>21, <1>22, <1>23, <1>24, <1>25, <1>26, <1>27, <1>28,
       <1>29, <1>30, <1>31, <1>32
    DEF Next, RunnerStep, SweepStep, Reconcile, SpawnStep, RestartStep, BootStep

\* Nobody is left in silence: a chat message that failed has been told so, is
\* about to be, or the process that failed it died between the two writes.
THEOREM FailuresAreTold == Spec => []FailedIsTold
  <1>1. Init => FailedIsTold
    BY DEF Init, FailedIsTold
  <1>2. TypeOK /\ Working /\ FailedIsTold /\ [Next]_vars => FailedIsTold'
    BY ToldStep, KeptTold
  <1> QED
    BY <1>1, <1>2, InboundTypeSafety, PTL DEF Spec

-----------------------------------------------------------------------------
(* SweepApologyOnce.  An apology is written before its stamp, so a message  *)
(* may be one apology ahead of the host crashes when it is stamped or in the *)
(* sweep's hand, and only then; the rows still queued are not.              *)

Owned(m) == msg[m].stamped \/ (spc = "stamp" /\ hand = m)
Apologised ==
    /\ \A m \in queue : apologies[m] <= ncrashes
    /\ \A m \in Msgs : apologies[m] <= ncrashes + (IF Owned(m) THEN 1 ELSE 0)

\* A step that apologises for nothing and lifts no stamp.
Stamping ==
    /\ UNCHANGED <<apologies, ncrashes>> /\ queue' \subseteq queue
    /\ \A m \in Msgs : msg[m].stamped => msg'[m].stamped
    /\ spc = "stamp" => UNCHANGED <<spc, hand>>

LEMMA StampingKeeps == ASSUME TypeOK, Apologised, Stamping PROVE Apologised'
  <1>1. ncrashes \in Nat /\ apologies \in [Msgs -> Nat] /\ queue \subseteq Msgs
    BY Bounds DEF TypeOK, TypeSeen, TypeSweep
  <1>2. \A m \in Msgs : Owned(m) => Owned(m)'
    BY DEF Stamping, Owned
  <1> QED
    BY <1>1, <1>2 DEF Stamping, Apologised

LEMMA ApologisedStep ==
    ASSUME TypeOK, Working, Apologised, [Next]_vars
    PROVE  Apologised'
  <1> USE DEF inbox, outbox, runner, sweep, restart, seen
  <1>a. ncrashes \in Nat /\ apologies \in [Msgs -> Nat] /\ queue \subseteq Msgs
    BY Bounds DEF TypeOK, TypeSeen, TypeSweep
  <1>b. msg \in [Msgs -> MsgRec]
    BY DEF TypeOK, TypeInbox
  <1>1. CASE Arrive
    <2>1. \A m \in Msgs : msg[m].stamped => msg'[m].stamped
      BY <1>1, <1>b DEF Arrive, MsgRec
    <2> QED
      BY <1>1, <2>1, StampingKeeps DEF Arrive, Stamping
  <1>2. CASE \/ ack_picked_up \/ TurnEnds \/ finalize_acks
             \/ emit_terminal_failure_apologies \/ TurnReplies \/ set_current_tool \/ clear_current_tool
    BY <1>2, StampingKeeps DEF ack_picked_up, TurnEnds, finalize_acks,
       emit_terminal_failure_apologies, TurnReplies, set_current_tool, clear_current_tool, Stamping
  <1>3. CASE Poll \/ MidTurnStop \/ finalize_inbound \/ Interjection
    <2>1. \A m \in Msgs : msg[m].stamped => msg'[m].stamped
      BY <1>3, <1>b DEF Poll, MidTurnStop, finalize_inbound, Interjection, MsgRec
    <2> QED
      BY <1>3, <2>1, StampingKeeps DEF Poll, MidTurnStop, finalize_inbound, Interjection, Stamping
  <1>4. CASE RunnerDies \/ Reconcile \/ SpawnStep \/ MarkRunning
    BY <1>4, StampingKeeps DEF RunnerDies, Reconcile, ReconcileSpawn, ReconcileWake, ReconcileCrash,
       IdleStop, SpawnStep, SpawnRefused, SpawnFails, SpawnRuns, MarkRunning, Kill, Stamping
  <1>5. CASE SweepBegin \/ atomic_reclaim_claim \/ SweepEnd
    BY <1>5, StampingKeeps DEF SweepBegin, atomic_reclaim_claim, SweepEnd, Stamping
  <1>6. CASE reset_message_in
    <2>1. \A m \in Msgs : msg[m].stamped => msg'[m].stamped
      BY <1>6, <1>b DEF reset_message_in, MsgRec
    <2> QED
      BY <1>6, <2>1, StampingKeeps DEF reset_message_in, Stamping
  <1>7. CASE Wake
    <2>1. /\ spc = "claims" /\ spc' = "apologise" /\ UNCHANGED <<msg, apologies, ncrashes>>
          /\ \A m \in queue' : m \in Msgs /\ ~ msg[m].stamped
      BY <1>7 DEF Wake, Pending
    <2> QED
      BY <2>1, <1>a DEF Apologised, Owned
  <1>8. CASE ApologiseStuck
    <2> DEFINE e == Earliest(queue)
    <2>1. e \in queue /\ spc = "apologise" /\ queue' = queue \ {e} /\ UNCHANGED <<msg, ncrashes>>
      BY <1>8, <1>a, EarliestIn DEF ApologiseStuck
    <2>2. CASE Owed(e)
      <3>1. apologies' = [apologies EXCEPT ![e] = @ + 1] /\ spc' = "stamp" /\ hand' = e
        BY <1>8, <2>2 DEF ApologiseStuck
      <3> HIDE DEF e
      <3>2. apologies[e] <= ncrashes
        BY <2>1 DEF Apologised
      <3> QED
        BY <1>a, <2>1, <3>1, <3>2 DEF Apologised, Owned
    <2>3. CASE ~ Owed(e)
      BY <1>8, <2>1, <2>3, StampingKeeps DEF ApologiseStuck, Stamping
    <2> QED
      BY <2>2, <2>3
  <1>9. CASE mark_tries_apology_sent
    <2>1. /\ spc = "stamp" /\ spc' = "apologise" /\ msg' = [msg EXCEPT ![hand].stamped = TRUE]
          /\ UNCHANGED <<queue, apologies, ncrashes>>
      BY <1>9 DEF mark_tries_apology_sent
    <2>2. \A m \in Msgs : Owned(m) => Owned(m)'
      BY <1>b, <2>1 DEF Owned, MsgRec
    <2> QED
      BY <1>a, <2>1, <2>2 DEF Apologised
  <1>10. ASSUME NEW a \in Actors, RestartRemove(a) \/ RestartStop(a) PROVE Apologised'
    <2>1. spc = "stamp" => UNCHANGED spc
      BY <1>10 DEF RestartRemove, RestartStop, TypeOK, TypeRestart, Restarting, Actors
    <2> QED
      BY <1>10, <2>1, StampingKeeps DEF RestartRemove, RestartStop, Kill, Stamping
  <1>11. ASSUME NEW a \in Actors, RestartBump(a) PROVE Apologised'
    <2>1. \A m \in Msgs : msg[m].stamped => msg'[m].stamped
      BY <1>11, <1>b DEF RestartBump, MsgRec
    <2> QED
      BY <1>11, <2>1, StampingKeeps DEF RestartBump, Stamping
  <1>12. ASSUME NEW a \in Actors, RestartTell(a) PROVE Apologised'
    <2>1. msg' = [msg EXCEPT ![rhand[a]].stamped = (rstep[a] = "tell") \/ @]
      BY <1>12 DEF RestartTell
    <2>2. \A m \in Msgs : msg[m].stamped => msg'[m].stamped
      BY <2>1, <1>b DEF MsgRec
    <2> QED
      BY <1>12, <2>2, StampingKeeps DEF RestartTell, Stamping
  <1>13. CASE HostCrash
    <2>1. ncrashes' = ncrashes + 1 /\ queue' = {} /\ spc' = "idle" /\ UNCHANGED <<msg, apologies>>
      BY <1>13 DEF HostCrash
    <2>2. \A m \in Msgs : apologies[m] <= ncrashes + 1
      BY <1>a DEF Apologised
    <2> QED
      BY <1>a, <2>1, <2>2 DEF Apologised
  <1>14. CASE BootClean \/ BootReset
    BY <1>14, StampingKeeps DEF BootClean, BootReset, Kill, Stamping
  <1>15. CASE BootNotice
    <2>1. \A m \in Msgs : msg[m].stamped => msg'[m].stamped
      BY <1>15, <1>b DEF BootNotice, MsgRec
    <2> QED
      BY <1>15, <2>1, StampingKeeps DEF BootNotice, Stamping
  <1>16. ASSUME NEW m \in Msgs, AgeMessage(m) PROVE Apologised'
    <2>1. \A n \in Msgs : msg[n].stamped => msg'[n].stamped
      BY <1>16, <1>b DEF AgeMessage, MsgRec
    <2> QED
      BY <1>16, <2>1, StampingKeeps DEF AgeMessage, Stamping
  <1>17. CASE \/ AgeHeartbeat \/ AgeActive \/ AgeTool \/ \E m \in Msgs : AgeClaim(m)
              \/ UNCHANGED vars
    BY <1>17, StampingKeeps DEF AgeHeartbeat, AgeActive, AgeTool, AgeClaim, Stamping, vars
  <1> QED
    BY <1>1, <1>2, <1>3, <1>4, <1>5, <1>6, <1>7, <1>8, <1>9, <1>10, <1>11, <1>12, <1>13, <1>14, <1>15,
       <1>16, <1>17
    DEF Next, RunnerStep, SweepStep, RestartStep, BootStep

\* The sweep apologises for a message at most once, and once more for each host
\* crash that fell between an apology and its stamp, whatever resets, restarts
\* and boots happen in between.
THEOREM ApologisesOnce == Spec => []SweepApologyOnce
  <1>1. Init => Apologised
    BY Bounds DEF Init, Apologised
  <1>2. TypeOK /\ Working /\ Apologised /\ [Next]_vars => Apologised'
    BY ApologisedStep
  <1>3. TypeOK /\ Apologised => SweepApologyOnce
    BY Bounds DEF TypeOK, TypeSeen, Apologised, SweepApologyOnce
  <1> QED
    BY <1>1, <1>2, <1>3, InboundTypeSafety, PTL DEF Spec

-----------------------------------------------------------------------------
(* NoRework.  Rows are numbered as they arrive, so the ceiling a turn takes *)
(* is at or above every row of its batch and what it folds in is not; a row *)
(* that a turn has completed is not pending, so no poll picks it up.        *)

Busy == {"claim", "turn", "mark", "ack", "apologise"}
Numbered == Arrived = 1..Cardinality(Arrived)
Fetched ==
    /\ rpc \in Busy => batch \subseteq Arrived
    /\ rpc = "turn" => \A m \in batch : m <= ceiling
Closed == \A m \in answered : msg[m].status \notin {"absent", "pending"}
Fresh == Numbered /\ Fetched /\ Closed /\ NoRework

\* A step that brings no row, reopens none and completes none for a turn.
Steady ==
    /\ \A m \in Msgs : msg'[m].status = "absent" <=> msg[m].status = "absent"
    /\ \A m \in answered' : msg'[m].status = "pending" => msg[m].status = "pending"
    /\ answered' \subseteq answered
    /\ \/ rpc' \in {"dead", "poll"}
       \/ batch' = batch /\ \/ UNCHANGED <<rpc, ceiling>>
                            \/ rpc = "turn" /\ rpc' = "mark"
                            \/ rpc = "ack" /\ rpc' = "apologise"

LEMMA SteadyKeeps == ASSUME TypeOK, Fresh, Steady PROVE Fresh'
  <1>1. Arrived' = Arrived
    BY DEF Steady, Arrived
  <1>2. Numbered'
    BY <1>1 DEF Fresh, Numbered
  <1>3. Fetched'
    BY <1>1 DEF Fresh, Fetched, Steady, Busy
  <1>4. Closed'
    BY DEF Fresh, Closed, Steady, TypeOK, TypeSeen
  <1>5. NoRework'
    BY DEF Fresh, NoRework, Steady
  <1> QED
    BY <1>2, <1>3, <1>4, <1>5 DEF Fresh

\* The router numbers the next row one above the last.
LEMMA ArriveFresh == ASSUME TypeOK, Fresh, Arrive PROVE Fresh'
  <1> DEFINE c == Cardinality(Arrived)
  <1>1. PICK k \in Kinds : msg' = [msg EXCEPT ![c + 1].kind = k, ![c + 1].status = "pending"]
    BY DEF Arrive
  <1>2. c + 1 \in Msgs /\ c \in Nat /\ UNCHANGED <<rpc, batch, ceiling, answered>>
    BY ArrivedCount, Bounds DEF Arrive, Msgs, runner, seen
  <1>3. Arrived = 1..c
    BY DEF Fresh, Numbered
  <1> HIDE DEF c
  <1>4. \A m \in Msgs : m # c + 1 => msg'[m] = msg[m]
    BY <1>1 DEF TypeOK, TypeInbox
  <1>5. msg'[c + 1].status = "pending"
    BY <1>1, <1>2 DEF TypeOK, TypeInbox, MsgRec
  <1>6. Arrived' = Arrived \cup {c + 1}
    BY <1>2, <1>4, <1>5 DEF Arrived
  <1>7. Arrived' = 1..(c + 1)
    BY <1>2, <1>3, <1>6
  <1>8. Cardinality(1..(c + 1)) = c + 1
    <2>1. 1 \in Int /\ c + 1 \in Int
      BY <1>2
    <2>2. Cardinality(1..(c + 1)) = IF 1 > c + 1 THEN 0 ELSE (c + 1) - 1 + 1
      BY <2>1, FS_Interval
    <2> QED
      BY <1>2, <2>2
  <1>9. Cardinality(Arrived') = c + 1
    BY <1>7, <1>8
  <1>10. Numbered'
    BY <1>7, <1>9 DEF Numbered
  <1>11. c + 1 \notin Arrived
    BY <1>2, <1>3
  <1>12. c + 1 \notin answered
    BY <1>2, <1>11 DEF Fresh, Closed, Arrived
  <1>13. Closed'
    BY <1>2, <1>4, <1>12 DEF Fresh, Closed, TypeOK, TypeSeen
  <1>14. Fetched'
    BY <1>2, <1>6 DEF Fresh, Fetched
  <1>15. NoRework'
    BY <1>2 DEF Fresh, NoRework
  <1> QED
    BY <1>10, <1>13, <1>14, <1>15 DEF Fresh

LEMMA PollFresh == ASSUME TypeOK, Fresh, Poll PROVE Fresh'
  <1>1. /\ \A m \in Msgs : msg'[m].status = "absent" <=> msg[m].status = "absent"
        /\ \A m \in Msgs : msg'[m].status = "pending" => msg[m].status = "pending"
    BY DEF Poll, Pending, TypeOK, TypeInbox, MsgRec
  <1>2. batch' \subseteq Pending /\ rpc' \in {"poll", "claim"} /\ UNCHANGED answered
    BY DEF Poll, seen
  <1>3. Arrived' = Arrived
    BY <1>1 DEF Arrived
  <1>4. Pending \subseteq Arrived /\ Pending \cap answered = {}
    BY DEF Pending, Arrived, Fresh, Closed
  <1>5. Numbered' /\ Fetched'
    BY <1>2, <1>3, <1>4 DEF Fresh, Numbered, Fetched
  <1>6. Closed'
    BY <1>1, <1>2 DEF Fresh, Closed, TypeOK, TypeSeen
  <1>7. NoRework'
    BY <1>2, <1>4 DEF NoRework
  <1> QED
    BY <1>5, <1>6, <1>7 DEF Fresh

LEMMA ClaimFresh == ASSUME TypeOK, Fresh, ack_picked_up PROVE Fresh'
  <1>1. /\ rpc = "claim" /\ rpc' = "turn" /\ ceiling' = Cardinality(Arrived)
        /\ UNCHANGED <<msg, batch, answered>>
    BY DEF ack_picked_up, inbox, seen
  <1>2. Arrived' = Arrived
    BY <1>1 DEF Arrived
  <1>3. \A m \in batch : m <= Cardinality(Arrived)
    BY <1>1, ArrivedCount DEF Fresh, Fetched, Numbered, Busy
  <1>4. Numbered' /\ Fetched'
    BY <1>1, <1>2, <1>3 DEF Fresh, Numbered, Fetched, Busy
  <1> QED
    BY <1>1, <1>4 DEF Fresh, Closed, NoRework

LEMMA InterjectionFresh == ASSUME TypeOK, Fresh, Interjection PROVE Fresh'
  <1>1. /\ rpc = "turn" /\ UNCHANGED <<rpc, batch, ceiling>>
        /\ answered' = answered \cup get_new_since
    BY DEF Interjection, runner
  <1>2. \A m \in Msgs : msg'[m].status = IF m \in get_new_since THEN "completed" ELSE msg[m].status
    BY DEF Interjection, TypeOK, TypeInbox, MsgRec
  <1>3. get_new_since \subseteq Pending /\ \A m \in get_new_since : m > ceiling
    BY DEF get_new_since
  <1>4. Arrived' = Arrived
    BY <1>2, <1>3 DEF Arrived, Pending
  <1>5. Numbered' /\ Fetched'
    BY <1>1, <1>4 DEF Fresh, Numbered, Fetched
  <1>6. Closed'
    BY <1>1, <1>2, <1>3 DEF Fresh, Closed, Pending, TypeOK, TypeSeen
  <1>7. \A m \in batch : m \in Nat /\ m <= ceiling
    BY <1>1, Bounds DEF Fresh, Fetched, TypeOK, TypeRunner, Msgs
  <1>8. ceiling \in Nat /\ \A m \in get_new_since : m \in Nat
    BY Bounds DEF TypeOK, TypeRunner, get_new_since, Pending, Msgs
  <1>9. batch \cap get_new_since = {}
    BY <1>3, <1>7, <1>8
  <1>10. NoRework'
    BY <1>1, <1>9 DEF Fresh, NoRework
  <1> QED
    BY <1>5, <1>6, <1>10 DEF Fresh

LEMMA FinalizeFresh == ASSUME TypeOK, Fresh, finalize_inbound PROVE Fresh'
  <1>1. /\ rpc = "mark" /\ rpc' = "ack" /\ UNCHANGED <<batch, ceiling>>
        /\ answered' \subseteq answered \cup batch
    BY DEF finalize_inbound
  <1>2. \A m \in Msgs : msg'[m].status = IF m \in batch THEN IF failing THEN "failed" ELSE "completed"
                                         ELSE msg[m].status
    BY DEF finalize_inbound, TypeOK, TypeInbox, MsgRec
  <1>3. batch \subseteq Arrived
    BY <1>1 DEF Fresh, Fetched, Busy
  <1>4. Arrived' = Arrived
    BY <1>2, <1>3 DEF Arrived
  <1>5. Numbered' /\ Fetched'
    BY <1>1, <1>3, <1>4 DEF Fresh, Numbered, Fetched
  <1>6. Closed'
    BY <1>1, <1>2 DEF Fresh, Closed, TypeOK, TypeSeen, TypeRunner
  <1>7. NoRework'
    BY <1>1 DEF NoRework
  <1> QED
    BY <1>5, <1>6, <1>7 DEF Fresh

\* Claims are made of rows that exist, and so is what the sweep and a restart
\* take from them.
Handed ==
    /\ Processing \subseteq Arrived
    /\ spc = "reset" => hand \in Arrived
    /\ \A a \in Actors : rlist[a] \subseteq Arrived

\* No row is ever deleted.
LEMMA RowsStay ==
    ASSUME TypeOK, [Next]_vars
    PROVE  Arrived \subseteq Arrived'
  <1>a. msg \in [Msgs -> MsgRec]
    BY DEF TypeOK, TypeInbox
  <1> USE DEF Arrived, inbox
  <1>0. CASE Arrive
    BY <1>0, <1>a DEF Arrive, MsgRec
  <1>1. CASE Poll \/ Interjection \/ finalize_inbound
    BY <1>1, <1>a DEF Poll, Interjection, finalize_inbound, MsgRec
  <1>9. CASE MidTurnStop
    BY <1>9, <1>a DEF MidTurnStop, MsgRec
  <1>2. CASE reset_message_in \/ mark_tries_apology_sent \/ BootNotice
    BY <1>2, <1>a DEF reset_message_in, mark_tries_apology_sent, BootNotice, MsgRec
  <1>3. ASSUME NEW a \in Actors, RestartBump(a) PROVE Arrived \subseteq Arrived'
    BY <1>3, <1>a DEF RestartBump, MsgRec
  <1>4. ASSUME NEW a \in Actors, RestartTell(a) PROVE Arrived \subseteq Arrived'
    <2>1. PICK b \in BOOLEAN : msg' = [msg EXCEPT ![rhand[a]].stamped = b]
      BY <1>4, TellStamps
    <2> QED
      BY <2>1, <1>a DEF MsgRec
  <1>5. ASSUME NEW m \in Msgs, AgeMessage(m) PROVE Arrived \subseteq Arrived'
    BY <1>5, <1>a DEF AgeMessage, MsgRec
  <1>6. CASE \/ ack_picked_up \/ TurnEnds \/ finalize_acks \/ emit_terminal_failure_apologies
             \/ TurnReplies \/ set_current_tool \/ clear_current_tool \/ RunnerDies
             \/ SweepBegin \/ atomic_reclaim_claim \/ Wake \/ ApologiseStuck \/ SweepEnd
    BY <1>6 DEF ack_picked_up, TurnEnds, finalize_acks, emit_terminal_failure_apologies, TurnReplies,
       set_current_tool, clear_current_tool, RunnerDies, SweepBegin, atomic_reclaim_claim, Wake,
       ApologiseStuck, SweepEnd
  <1>7. CASE \/ Reconcile \/ SpawnStep \/ MarkRunning \/ HostCrash \/ BootClean \/ BootReset
             \/ \E a \in Actors : RestartRemove(a) \/ RestartStop(a)
    BY <1>7 DEF Reconcile, ReconcileSpawn, ReconcileWake, ReconcileCrash, IdleStop, SpawnStep,
       SpawnRefused, SpawnFails, SpawnRuns, MarkRunning, HostCrash, BootClean, BootReset,
       RestartRemove, RestartStop
  <1>8. CASE \/ AgeHeartbeat \/ AgeActive \/ AgeTool \/ \E m \in Msgs : AgeClaim(m)
             \/ UNCHANGED vars
    BY <1>8 DEF AgeHeartbeat, AgeActive, AgeTool, AgeClaim, vars
  <1> QED
    BY <1>0, <1>1, <1>2, <1>3, <1>4, <1>5, <1>6, <1>7, <1>8, <1>9
    DEF Next, RunnerStep, SweepStep, RestartStep, BootStep

\* A step that claims nothing, and hands on what was claimed or already handed.
HandsOn ==
    /\ Processing' \subseteq Processing
    /\ spc' = "reset" => hand' \in Processing \/ (spc = "reset" /\ hand' = hand)
    /\ \A a \in Actors : rlist'[a] \subseteq rlist[a] \cup Processing

LEMMA HandedStep ==
    ASSUME TypeOK, Working, Fetched, Handed, [Next]_vars
    PROVE  Handed'
  <1> USE DEF inbox, outbox, runner, sweep, restart, seen
  <1>a. Arrived \subseteq Arrived'
    BY RowsStay
  <1>b. ASSUME HandsOn PROVE Handed'
    BY <1>a, <1>b DEF HandsOn, Handed
  <1>c. /\ rlist \in [Actors -> SUBSET Msgs] /\ ack \in [Msgs -> AckRec] /\ Processing \subseteq Msgs
        /\ hand \in Msgs \cup {NoMsg}
    BY DEF TypeOK, TypeRestart, TypeOutbox, TypeSweep, Processing
  <1>1. ASSUME UNCHANGED <<ack, rlist, hand, spc>> PROVE HandsOn
    BY <1>1 DEF HandsOn, Processing
  <1>2. CASE \/ Arrive \/ Poll \/ MidTurnStop \/ TurnEnds \/ finalize_inbound
             \/ emit_terminal_failure_apologies \/ TurnReplies \/ Interjection
             \/ set_current_tool \/ clear_current_tool \/ RunnerDies \/ Reconcile \/ SpawnStep
             \/ MarkRunning
    BY <1>1, <1>2, <1>b DEF Arrive, Poll, MidTurnStop, TurnEnds, finalize_inbound,
       emit_terminal_failure_apologies, TurnReplies, Interjection, set_current_tool,
       clear_current_tool, RunnerDies, Reconcile, ReconcileSpawn, ReconcileWake, ReconcileCrash,
       IdleStop, SpawnStep, SpawnRefused, SpawnFails, SpawnRuns, MarkRunning
  <1>3. CASE ack_picked_up
    <2>1. Processing' \subseteq Processing \cup batch /\ batch \subseteq Arrived
      BY <1>3, <1>c DEF ack_picked_up, Processing, Fetched, Busy
    <2> QED
      BY <1>3, <1>a, <2>1 DEF ack_picked_up, Handed
  <1>4. CASE finalize_acks
    <2>1. Processing' \subseteq Processing
      BY <1>4 DEF finalize_acks, Processing
    <2> QED
      BY <1>4, <2>1, <1>b DEF finalize_acks, HandsOn
  <1>5. CASE SweepBegin \/ reset_message_in \/ Wake \/ ApologiseStuck \/ mark_tries_apology_sent
             \/ SweepEnd
    BY <1>5, <1>b DEF SweepBegin, reset_message_in, Wake, ApologiseStuck, mark_tries_apology_sent,
       SweepEnd, HandsOn, Processing
  <1>6. CASE atomic_reclaim_claim
    <2>1. PICK v \in victims :
            IF Reclaimable(v)
            THEN ack' = [ack EXCEPT ![v] = NoAck] /\ hand' = v /\ spc' = "reset"
            ELSE UNCHANGED <<ack, hand, spc>>
      BY <1>6 DEF atomic_reclaim_claim
    <2>2. UNCHANGED rlist
      BY <1>6 DEF atomic_reclaim_claim
    <2>3. CASE Reclaimable(v)
      BY <1>b, <1>c, <2>1, <2>2, <2>3 DEF HandsOn, Processing, Reclaimable, NoAck
    <2> QED
      BY <1>1, <1>b, <2>1, <2>2, <2>3
  <1>7. ASSUME NEW a \in Actors, RestartRemove(a) PROVE Handed'
    BY <1>7, <1>b, <1>c DEF RestartRemove, HandsOn, Processing
  <1>8. ASSUME NEW a \in Actors, RestartBump(a) PROVE Handed'
    BY <1>8, <1>b, <1>c DEF RestartBump, HandsOn, Processing
  <1>9. ASSUME NEW a \in Actors, RestartTell(a) PROVE Handed'
    <2>1. Processing' \subseteq Processing
      BY <1>9, <1>c DEF RestartTell, Processing, AckRec
    <2> QED
      BY <1>9, <2>1, <1>b DEF RestartTell, HandsOn
  <1>10. ASSUME NEW a \in Actors, RestartStop(a) PROVE Handed'
    BY <1>10, <1>b DEF RestartStop, HandsOn, Processing
  <1>11. CASE HostCrash
    BY <1>11, <1>b DEF HostCrash, HandsOn, Processing
  <1>12. CASE BootClean \/ BootReset
    BY <1>1, <1>12, <1>b DEF BootClean, BootReset
  <1>13. CASE BootNotice
    <2>1. Processing' \subseteq Processing
      BY <1>13 DEF BootNotice, Processing
    <2> QED
      BY <1>13, <2>1, <1>b DEF BootNotice, HandsOn
  <1>14. ASSUME NEW m \in Msgs, AgeClaim(m) PROVE Handed'
    <2>1. Processing' \subseteq Processing
      BY <1>14, <1>c DEF AgeClaim, Processing, AckRec
    <2> QED
      BY <1>14, <2>1, <1>b DEF AgeClaim, HandsOn
  <1>15. CASE \/ AgeHeartbeat \/ AgeActive \/ AgeTool \/ \E m \in Msgs : AgeMessage(m)
              \/ UNCHANGED vars
    BY <1>1, <1>15, <1>b DEF AgeHeartbeat, AgeActive, AgeTool, AgeMessage, vars
  <1> QED
    BY <1>2, <1>3, <1>4, <1>5, <1>6, <1>7, <1>8, <1>9, <1>10, <1>11, <1>12, <1>13, <1>14, <1>15
    DEF Next, RunnerStep, SweepStep, RestartStep, BootStep

LEMMA FreshStep ==
    ASSUME TypeOK, Working, Fresh, Handed, [Next]_vars
    PROVE  Fresh'
  <1> USE DEF inbox, outbox, runner, sweep, restart, seen
  <1>b. msg \in [Msgs -> MsgRec]
    BY DEF TypeOK, TypeInbox
  <1>1. CASE Arrive \/ Poll \/ ack_picked_up \/ Interjection \/ finalize_inbound
    BY <1>1, ArriveFresh, PollFresh, ClaimFresh, InterjectionFresh, FinalizeFresh
  <1>2. CASE \/ TurnEnds \/ finalize_acks \/ emit_terminal_failure_apologies
             \/ TurnReplies \/ set_current_tool \/ clear_current_tool
    BY <1>2, SteadyKeeps DEF TurnEnds, finalize_acks,
       emit_terminal_failure_apologies, TurnReplies, set_current_tool, clear_current_tool, Steady
  <1>3. CASE MidTurnStop
    <2> DEFINE s == {m \in get_new_since : msg[m].kind = "stop"}
    <2>1. Earliest(s) \in s
      BY <1>3, EarliestIn DEF MidTurnStop, get_new_since, Pending
    <2>2. msg' = [msg EXCEPT ![Earliest(s)].status = "completed"] /\ msg[Earliest(s)].status = "pending"
      BY <1>3, <2>1 DEF MidTurnStop, get_new_since, Pending
    <2> HIDE DEF s
    <2>3. /\ \A m \in Msgs : msg'[m].status = "absent" <=> msg[m].status = "absent"
          /\ \A m \in Msgs : msg'[m].status = "pending" => msg[m].status = "pending"
      BY <2>2, <1>b DEF MsgRec
    <2> QED
      BY <1>3, <2>3, SteadyKeeps DEF MidTurnStop, Steady, TypeOK, TypeSeen
  <1>4. CASE RunnerDies \/ Reconcile \/ SpawnStep \/ MarkRunning
    BY <1>4, SteadyKeeps DEF RunnerDies, Reconcile, ReconcileSpawn, ReconcileWake, ReconcileCrash,
       IdleStop, SpawnStep, SpawnRefused, SpawnFails, SpawnRuns, MarkRunning, Kill, Steady
  <1>5. CASE SweepBegin \/ atomic_reclaim_claim \/ SweepEnd \/ Wake \/ ApologiseStuck
    BY <1>5, SteadyKeeps DEF SweepBegin, atomic_reclaim_claim, SweepEnd, Wake, ApologiseStuck, Steady
  <1>6. CASE reset_message_in
    <2>1. /\ hand \in Msgs /\ msg' = [msg EXCEPT ![hand].status = "pending"]
          /\ answered' = answered \ {hand} /\ UNCHANGED <<rpc, batch, ceiling>>
      BY <1>6 DEF reset_message_in, TypeOK, TypeSweep
    <2>2. msg[hand].status # "absent"
      BY <1>6 DEF reset_message_in, Handed, Arrived
    <2>3. Steady
      BY <1>b, <2>1, <2>2 DEF Steady, MsgRec, TypeOK, TypeSeen
    <2> QED
      BY <2>3, SteadyKeeps
  <1>7. CASE mark_tries_apology_sent
    <2>1. \A m \in Msgs : msg'[m].status = msg[m].status
      BY <1>7, <1>b DEF mark_tries_apology_sent, MsgRec
    <2> QED
      BY <1>7, <2>1, SteadyKeeps DEF mark_tries_apology_sent, Steady, TypeOK, TypeSeen
  <1>8. ASSUME NEW a \in Actors, RestartRemove(a) \/ RestartStop(a) PROVE Fresh'
    BY <1>8, SteadyKeeps DEF RestartRemove, RestartStop, Kill, Steady
  <1>9. ASSUME NEW a \in Actors, RestartBump(a) PROVE Fresh'
    <2>1. PICK v \in rlist[a] :
            msg' = [msg EXCEPT ![v].crashes = Tick(msg[v].crashes),
                               ![v].status = IF Tick(msg[v].crashes) >= Quarantine THEN "failed" ELSE @]
      BY <1>9 DEF RestartBump
    <2>2. v \in Msgs /\ msg[v].status # "absent"
      BY <1>9 DEF RestartBump, TypeOK, TypeRestart, Handed, Arrived
    <2>3. /\ \A m \in Msgs : msg'[m].status = "absent" <=> msg[m].status = "absent"
          /\ \A m \in Msgs : msg'[m].status = "pending" => msg[m].status = "pending"
      BY <2>1, <2>2, <1>b DEF MsgRec
    <2> QED
      BY <1>9, <2>3, SteadyKeeps DEF RestartBump, Steady, TypeOK, TypeSeen
  <1>10. ASSUME NEW a \in Actors, RestartTell(a) PROVE Fresh'
    <2>1. PICK b \in BOOLEAN : msg' = [msg EXCEPT ![rhand[a]].stamped = b]
      BY <1>10, TellStamps
    <2>2. \A m \in Msgs : msg'[m].status = msg[m].status
      BY <2>1, <1>b DEF MsgRec
    <2> QED
      BY <1>10, <2>2, SteadyKeeps DEF RestartTell, Steady, TypeOK, TypeSeen
  <1>11. CASE HostCrash \/ BootClean \/ BootReset
    BY <1>11, SteadyKeeps DEF HostCrash, BootClean, BootReset, Kill, Steady
  <1>12. CASE BootNotice
    <2>1. \A m \in Msgs : msg'[m].status = msg[m].status
      BY <1>12, <1>b DEF BootNotice, MsgRec
    <2> QED
      BY <1>12, <2>1, SteadyKeeps DEF BootNotice, Steady, TypeOK, TypeSeen
  <1>13. ASSUME NEW m \in Msgs, AgeMessage(m) PROVE Fresh'
    <2>1. \A n \in Msgs : msg'[n].status = msg[n].status
      BY <1>13, <1>b DEF AgeMessage, MsgRec
    <2> QED
      BY <1>13, <2>1, SteadyKeeps DEF AgeMessage, Steady, TypeOK, TypeSeen
  <1>14. CASE \/ AgeHeartbeat \/ AgeActive \/ AgeTool \/ \E m \in Msgs : AgeClaim(m)
              \/ UNCHANGED vars
    BY <1>14, SteadyKeeps DEF AgeHeartbeat, AgeActive, AgeTool, AgeClaim, Steady, vars
  <1> QED
    BY <1>1, <1>2, <1>3, <1>4, <1>5, <1>6, <1>7, <1>8, <1>9, <1>10, <1>11, <1>12, <1>13, <1>14
    DEF Next, RunnerStep, SweepStep, RestartStep, BootStep

\* No turn works on a message that a turn has completed, unless the sweep put
\* it back since: neither a poll nor a mid-turn interjection repeats work.
THEOREM WorkIsNotRepeated == Spec => []NoRework
  <1>1. Init => Fresh /\ Handed
    <2>1. Init => Arrived = {} /\ Processing = {}
      BY DEF Init, Arrived, Processing, NoAck
    <2>2. Cardinality({}) = 0 /\ 1..0 = {}
      BY FS_EmptySet
    <2> QED
      BY <2>1, <2>2 DEF Init, Fresh, Numbered, Fetched, Closed, NoRework, Handed, Busy
  <1>2. TypeOK /\ Working /\ Fresh /\ Handed /\ [Next]_vars => (Fresh /\ Handed)'
    BY FreshStep, HandedStep DEF Fresh
  <1>3. Fresh => NoRework
    BY DEF Fresh
  <1> QED
    BY <1>1, <1>2, <1>3, InboundTypeSafety, PTL DEF Spec

-----------------------------------------------------------------------------
(* CrashCountJustified, for turns without tools, where the sweep never      *)
(* restarts and the manager is the only one to count crashes.  The counter  *)
(* may go up by one for a claim that is processing, so every such claim has *)
(* a death (or a host crash) in reserve, unless the runner that holds it is *)
(* still alive, or the manager has just counted it and not yet flipped it.  *)

Sole == tool = "none" /\ ~ overdue /\ rstep["sweep"] = "idle"
InFlight == IF rpc \in {"turn", "mark", "ack"} THEN batch ELSE {}
Owes(m) == Tick(msg[m].crashes) <= deaths[m] + ncrashes
Reserve ==
    /\ CrashCountJustified
    /\ \A m \in Processing : m \in InFlight \/ Owes(m) \/ rhand["manager"] = m
    /\ \A m \in rlist["manager"] : Owes(m)

LEMMA SoleStep ==
    ASSUME TypeOK, ~ Tools, Sole, [Next]_vars
    PROVE  Sole'
  <1> USE DEF Sole, inbox, outbox, runner, sweep, restart, seen
  <1>a. rstep \in [Actors -> {"idle", "remove", "work", "tell", "bury"}] /\ "sweep" \in Actors
    BY DEF TypeOK, TypeRestart, Actors
  <1>1. CASE \/ Arrive \/ RunnerStep \/ TurnReplies \/ Interjection
             \/ set_current_tool \/ clear_current_tool \/ RunnerDies
    BY <1>1 DEF Arrive, RunnerStep, Poll, ack_picked_up, MidTurnStop, TurnEnds, finalize_inbound,
       finalize_acks, emit_terminal_failure_apologies, TurnReplies, Interjection, set_current_tool,
       clear_current_tool, RunnerDies
  <1>2. CASE SweepStep
    <2>1. CASE SweepBegin
      <3>1. UNCHANGED <<tool, rstep>> /\ (overdue' <=> tool = "over")
        BY <2>1 DEF SweepBegin
      <3> QED
        BY <3>1
    <2>2. CASE \/ atomic_reclaim_claim \/ reset_message_in \/ Wake \/ ApologiseStuck
               \/ mark_tries_apology_sent
      BY <2>2 DEF atomic_reclaim_claim, reset_message_in, Wake, ApologiseStuck, mark_tries_apology_sent
    <2>3. CASE SweepEnd
      BY <2>3 DEF SweepEnd
    <2> QED
      BY <1>2, <2>1, <2>2, <2>3 DEF SweepStep
  <1>3. CASE Reconcile \/ SpawnStep \/ MarkRunning
    BY <1>3, <1>a DEF Reconcile, ReconcileSpawn, ReconcileWake, ReconcileCrash, IdleStop, SpawnStep,
       SpawnRefused, SpawnFails, SpawnRuns, MarkRunning
  <1>4. ASSUME NEW a \in Actors, RestartStep(a) PROVE Sole'
    <2>1. a # "sweep"
      <3>1. rstep[a] \in {"remove", "work", "tell", "bury"}
        BY <1>4 DEF RestartStep, RestartRemove, RestartBump, RestartTell, RestartStop
      <3> QED
        BY <3>1
    <2>2. UNCHANGED <<tool, overdue>>
      BY <1>4, <2>1 DEF RestartStep, RestartRemove, RestartBump, RestartTell, RestartStop
    <2>3. \E s : rstep' = [rstep EXCEPT ![a] = s]
      BY <1>4 DEF RestartStep, RestartRemove, RestartBump, RestartTell, RestartStop
    <2> QED
      BY <1>a, <2>1, <2>2, <2>3
  <1>5. CASE HostCrash \/ BootStep
    BY <1>5, <1>a DEF HostCrash, Idle, BootStep, BootClean, BootReset, BootNotice
  <1>6. CASE \/ AgeHeartbeat \/ AgeActive \/ AgeTool \/ \E m \in Msgs : AgeMessage(m) \/ AgeClaim(m)
             \/ UNCHANGED vars
    BY <1>6 DEF AgeHeartbeat, AgeActive, AgeTool, AgeMessage, AgeClaim, vars
  <1> QED
    BY <1>1, <1>2, <1>3, <1>4, <1>5, <1>6 DEF Next

\* The counters are numbers, and one count each keeps them in order.
LEMMA Counters ==
    ASSUME TypeOK
    PROVE  /\ ncrashes \in Nat
           /\ \A m \in Msgs : msg[m].crashes \in 0..Quarantine /\ deaths[m] \in 0..Quarantine
  BY Bounds DEF TypeOK, TypeInbox, TypeSeen, MsgRec

LEMMA TickCovers ==
    ASSUME NEW c \in 0..Quarantine, NEW d \in 0..Quarantine, NEW n \in Nat, c <= d + n
    PROVE  Tick(c) <= Tick(d) + n /\ Tick(c) <= d + (n + 1) /\ d <= Tick(d) /\ c <= Tick(c)
  BY Bounds DEF Tick

\* A step that counts nothing and takes no claim from a live runner.
Idling ==
    /\ \A m \in Msgs : msg'[m].crashes = msg[m].crashes
    /\ UNCHANGED <<deaths, ncrashes, rhand, rlist>>
    /\ Processing' \subseteq Processing
    /\ \A m \in Processing' : m \in InFlight => m \in InFlight'

LEMMA IdlingKeeps == ASSUME TypeOK, Reserve, Idling PROVE Reserve'
  <1>1. \A m \in Msgs : Owes(m) => Owes(m)'
    BY DEF Idling, Owes
  <1>2. Processing \subseteq Msgs /\ rlist["manager"] \subseteq Msgs
    BY DEF Processing, TypeOK, TypeRestart, Actors
  <1>3. CrashCountJustified'
    BY DEF Idling, Reserve, CrashCountJustified
  <1>4. \A m \in Processing' : m \in InFlight' \/ Owes(m)' \/ rhand'["manager"] = m
    BY <1>1, <1>2 DEF Idling, Reserve
  <1>5. \A m \in rlist'["manager"] : Owes(m)'
    BY <1>1, <1>2 DEF Idling, Reserve
  <1> QED
    BY <1>3, <1>4, <1>5 DEF Reserve

\* A death puts one count in reserve for every claim the runner held.
LEMMA KillKeeps ==
    ASSUME TypeOK, Reserve, NEW to \in {"dead", "poll"}, Kill(to), UNCHANGED <<msg, ack, ncrashes, rhand>>,
           \/ UNCHANGED rlist
           \/ rhand["manager"] = NoMsg /\ rlist'["manager"] \subseteq Processing
    PROVE  Reserve'
  <1>1. \A m \in Msgs : deaths'[m] = IF m \in InFlight THEN Tick(deaths[m]) ELSE deaths[m]
    BY DEF Kill, InFlight
  <1>2. Processing' = Processing /\ Processing \subseteq Msgs /\ rlist["manager"] \subseteq Msgs
    BY DEF Processing, TypeOK, TypeRestart, Actors
  <1>3. \A m \in Msgs : /\ msg[m].crashes \in 0..Quarantine /\ deaths[m] \in 0..Quarantine
                        /\ msg[m].crashes <= deaths[m] + ncrashes
    BY Counters DEF Reserve, CrashCountJustified
  <1>4. ncrashes \in Nat /\ \A m \in Msgs : Tick(msg[m].crashes) \in 0..Quarantine
    BY Counters, TickType
  <1>5. ASSUME NEW m \in Msgs
        PROVE  /\ msg'[m].crashes <= deaths'[m] + ncrashes'
               /\ Owes(m) \/ m \in InFlight => Owes(m)'
    <2>1. /\ Tick(msg[m].crashes) <= Tick(deaths[m]) + ncrashes
          /\ deaths[m] <= Tick(deaths[m]) /\ Tick(deaths[m]) \in 0..Quarantine
      BY <1>3, <1>4, TickCovers, TickType
    <2> QED
      BY <1>1, <1>3, <1>4, <2>1, Bounds DEF Owes
  <1>6. CrashCountJustified'
    BY <1>5 DEF CrashCountJustified
  <1>7. \A m \in Processing : Owes(m)' \/ rhand["manager"] = m
    BY <1>2, <1>5 DEF Reserve
  <1>8. \A m \in rlist'["manager"] : Owes(m)'
    <2>1. CASE UNCHANGED rlist
      BY <1>2, <1>5, <2>1 DEF Reserve
    <2>2. CASE rhand["manager"] = NoMsg /\ rlist'["manager"] \subseteq Processing
      <3>1. \A m \in Processing : m # NoMsg
        BY <1>2 DEF Msgs, NoMsg
      <3> QED
        BY <1>7, <2>2, <3>1
    <2> QED
      BY <2>1, <2>2
  <1> QED
    BY <1>2, <1>6, <1>7, <1>8 DEF Reserve

\* The count of a restart is paid from the reserve.
LEMMA BumpKeeps ==
    ASSUME TypeOK, Reserve, RestartBump("manager")
    PROVE  Reserve'
  <1> DEFINE a == "manager"
  <1>0. a \in Actors /\ rlist \in [Actors -> SUBSET Msgs] /\ rhand \in [Actors -> Msgs \cup {NoMsg}]
    BY DEF Actors, TypeOK, TypeRestart
  <1>1. PICK v \in rlist[a] :
          /\ msg' = [msg EXCEPT ![v].crashes = Tick(msg[v].crashes),
                                ![v].status = IF Tick(msg[v].crashes) >= Quarantine
                                              THEN "failed" ELSE @]
          /\ rlist' = [rlist EXCEPT ![a] = @ \ {v}]
          /\ rhand' = [rhand EXCEPT ![a] = v]
    BY DEF RestartBump
  <1>2. v \in Msgs /\ rhand[a] = NoMsg /\ UNCHANGED <<ack, rpc, batch, deaths, ncrashes>>
    BY <1>0 DEF RestartBump, TypeOK, TypeRestart, outbox, runner, seen
  <1>3. msg \in [Msgs -> MsgRec]
    BY DEF TypeOK, TypeInbox
  <1>4. msg'[v].crashes = Tick(msg[v].crashes) /\ \A m \in Msgs : m # v => msg'[m] = msg[m]
    BY <1>1, <1>2, <1>3 DEF MsgRec
  <1>5. rlist'[a] = rlist[a] \ {v} /\ rhand'[a] = v
    BY <1>0, <1>1
  <1>6. Owes(v)
    BY DEF Reserve
  <1>7. CrashCountJustified'
    BY <1>2, <1>4, <1>6 DEF Owes, Reserve, CrashCountJustified
  <1>8. \A m \in Msgs : m # v /\ Owes(m) => Owes(m)'
    BY <1>2, <1>4 DEF Owes
  <1>9. Processing' = Processing /\ Processing \subseteq Msgs /\ InFlight' = InFlight
    BY <1>2 DEF Processing, InFlight
  <1>10. \A m \in Processing : m \in InFlight \/ Owes(m)' \/ rhand'["manager"] = m
    <2>1. \A m \in Processing : m # NoMsg
      BY <1>9 DEF Msgs, NoMsg
    <2> QED
      BY <1>2, <1>5, <1>8, <1>9, <2>1 DEF Reserve
  <1>11. \A m \in rlist'["manager"] : Owes(m)'
    BY <1>0, <1>5, <1>8 DEF Reserve
  <1> QED
    BY <1>7, <1>9, <1>10, <1>11 DEF Reserve

\* A crash of the host is one count in reserve for every message.
LEMMA CrashKeeps == ASSUME TypeOK, Reserve, HostCrash PROVE Reserve'
  <1>1. /\ ncrashes' = ncrashes + 1 /\ UNCHANGED <<msg, ack, rpc, batch, deaths>>
        /\ rlist'["manager"] = {}
    BY DEF HostCrash, inbox, outbox, runner, Actors
  <1>2. ASSUME NEW m \in Msgs
        PROVE  Owes(m)' /\ msg[m].crashes <= deaths[m] + ncrashes'
    <2>1. /\ msg[m].crashes \in 0..Quarantine /\ deaths[m] \in 0..Quarantine /\ ncrashes \in Nat
          /\ msg[m].crashes <= deaths[m] + ncrashes
      BY Counters DEF Reserve, CrashCountJustified
    <2>2. Tick(msg[m].crashes) <= deaths[m] + (ncrashes + 1)
      BY <2>1, TickCovers
    <2> QED
      BY <1>1, <2>1, <2>2, Bounds DEF Owes
  <1>3. Processing' \subseteq Msgs
    BY DEF Processing
  <1> QED
    BY <1>1, <1>2, <1>3 DEF Reserve, CrashCountJustified

LEMMA ReserveStep ==
    ASSUME TypeOK, Working, Sole, Reserve, [Next]_vars
    PROVE  Reserve'
  <1> USE DEF inbox, outbox, runner, sweep, restart, seen
  <1>a. msg \in [Msgs -> MsgRec] /\ ack \in [Msgs -> AckRec]
    BY DEF TypeOK, TypeInbox, TypeOutbox
  <1>1. CASE Arrive
    <2>1. \A m \in Msgs : msg'[m].crashes = msg[m].crashes
      BY <1>1, <1>a DEF Arrive, MsgRec
    <2> QED
      BY <1>1, <2>1, IdlingKeeps DEF Arrive, Idling, Processing, InFlight
  <1>2. CASE Poll
    <2>1. \A m \in Msgs : msg'[m].crashes = msg[m].crashes
      BY <1>2, <1>a DEF Poll, MsgRec
    <2> QED
      BY <1>2, <2>1, IdlingKeeps DEF Poll, Idling, Processing, InFlight
  <1>3. CASE ack_picked_up
    <2>1. /\ rpc = "claim" /\ rpc' = "turn"
          /\ UNCHANGED <<msg, batch, deaths, ncrashes, rhand, rlist>>
      BY <1>3 DEF ack_picked_up
    <2>2. Processing' \subseteq Processing \cup batch
      BY <1>3, <1>a DEF ack_picked_up, Processing
    <2>3. InFlight = {} /\ InFlight' = batch
      BY <2>1 DEF InFlight
    <2> QED
      BY <2>1, <2>2, <2>3 DEF Reserve, CrashCountJustified, Owes
  <1>4. CASE MidTurnStop
    <2>1. \A m \in Msgs : msg'[m].crashes = msg[m].crashes
      BY <1>4, <1>a DEF MidTurnStop, MsgRec
    <2> QED
      BY <1>4, <2>1, IdlingKeeps DEF MidTurnStop, Idling, Processing, InFlight
  <1>5. CASE Interjection \/ finalize_inbound
    <2>1. \A m \in Msgs : msg'[m].crashes = msg[m].crashes
      BY <1>5, <1>a DEF Interjection, finalize_inbound, MsgRec
    <2> QED
      BY <1>5, <2>1, IdlingKeeps DEF Interjection, finalize_inbound, Idling, Processing, InFlight
  <1>6. CASE \/ TurnEnds \/ emit_terminal_failure_apologies \/ TurnReplies
             \/ set_current_tool \/ clear_current_tool
    BY <1>6, IdlingKeeps DEF TurnEnds, emit_terminal_failure_apologies, TurnReplies, set_current_tool,
       clear_current_tool, Idling, Processing, InFlight
  <1>7. CASE finalize_acks
    <2>1. Processing' = Processing \ batch
      BY <1>7, <1>a DEF finalize_acks, Processing
    <2> QED
      BY <1>7, <2>1, IdlingKeeps DEF finalize_acks, Idling, InFlight
  <1>8. CASE RunnerDies \/ IdleStop \/ SpawnRuns \/ BootClean
    BY <1>8, KillKeeps DEF RunnerDies, IdleStop, SpawnRuns, BootClean
  <1>9. CASE SpawnFails
    <2>1. CASE Kill("dead")
      BY <1>9, <2>1, KillKeeps DEF SpawnFails
    <2>2. CASE UNCHANGED <<runner, deaths>>
      BY <1>9, <2>2, IdlingKeeps DEF SpawnFails, Idling, Processing, InFlight
    <2> QED
      BY <1>9, <2>1, <2>2 DEF SpawnFails
  <1>10. CASE SweepBegin \/ Wake \/ ApologiseStuck \/ SweepEnd
    BY <1>10, IdlingKeeps DEF SweepBegin, Wake, ApologiseStuck, SweepEnd, Idling, Processing, InFlight
  <1>11. CASE atomic_reclaim_claim
    <2>1. Processing' \subseteq Processing
      BY <1>11, <1>a DEF atomic_reclaim_claim, Processing, NoAck, AckRec
    <2> QED
      BY <1>11, <2>1, IdlingKeeps DEF atomic_reclaim_claim, Idling, InFlight
  <1>12. CASE reset_message_in \/ mark_tries_apology_sent
    <2>1. \A m \in Msgs : msg'[m].crashes = msg[m].crashes
      BY <1>12, <1>a DEF reset_message_in, mark_tries_apology_sent, MsgRec
    <2> QED
      BY <1>12, <2>1, IdlingKeeps DEF reset_message_in, mark_tries_apology_sent, Idling, Processing,
         InFlight
  <1>13. CASE ReconcileSpawn \/ ReconcileWake \/ ReconcileCrash \/ SpawnRefused \/ MarkRunning
    BY <1>13, IdlingKeeps DEF ReconcileSpawn, ReconcileWake, ReconcileCrash, SpawnRefused, MarkRunning,
       Idling, Processing, InFlight
  <1>14. ASSUME NEW a \in Actors, RestartStep(a) PROVE Reserve'
    <2>1. a = "manager"
      BY <1>14 DEF Actors, Sole, RestartStep, RestartRemove, RestartBump, RestartTell, RestartStop
    <2>2. CASE RestartRemove("manager")
      <3>1. rhand["manager"] = NoMsg /\ rlist'["manager"] = Processing
        BY <2>2 DEF RestartRemove, TypeOK, TypeRestart, Actors
      <3> QED
        BY <2>2, <3>1, KillKeeps DEF RestartRemove
    <2>3. CASE RestartBump("manager")
      BY <2>3, BumpKeeps
    <2>4. CASE RestartTell("manager")
      <3>1. PICK b \in BOOLEAN : msg' = [msg EXCEPT ![rhand["manager"]].stamped = b]
        BY <2>4, TellStamps DEF Actors
      <3>2. \A m \in Msgs : msg'[m].crashes = msg[m].crashes
        BY <3>1, <1>a DEF MsgRec
      <3>3. UNCHANGED <<rpc, batch, deaths, ncrashes, rlist>>
        BY <2>4 DEF RestartTell
      <3>4. Processing' = Processing \ {rhand["manager"]} /\ Processing \subseteq Msgs
        BY <2>4, <1>a DEF RestartTell, Processing, AckRec
      <3>5. InFlight' = InFlight /\ \A m \in Msgs : Owes(m) => Owes(m)'
        BY <3>2, <3>3 DEF InFlight, Owes
      <3>6. \A m \in Processing' : m \in InFlight' \/ Owes(m)'
        BY <3>4, <3>5 DEF Reserve
      <3>7. rlist["manager"] \subseteq Msgs
        BY DEF TypeOK, TypeRestart, Actors
      <3>8. \A m \in rlist'["manager"] : Owes(m)'
        BY <3>3, <3>5, <3>7 DEF Reserve
      <3>9. CrashCountJustified'
        BY <3>2, <3>3 DEF Reserve, CrashCountJustified
      <3> QED
        BY <3>6, <3>8, <3>9 DEF Reserve
    <2>5. CASE RestartStop("manager")
      BY <2>5, IdlingKeeps DEF RestartStop, Idling, Processing, InFlight
    <2> QED
      BY <1>14, <2>1, <2>2, <2>3, <2>4, <2>5 DEF RestartStep
  <1>15. CASE HostCrash
    BY <1>15, CrashKeeps
  <1>16. CASE BootReset
    BY <1>16, IdlingKeeps DEF BootReset, Idling, Processing, InFlight
  <1>17. CASE BootNotice
    <2>1. \A m \in Msgs : msg'[m].crashes = msg[m].crashes
      <3>1. CASE UNCHANGED msg
        BY <3>1
      <3>2. CASE msg' = [m \in Msgs |-> IF m \in Processing THEN [msg[m] EXCEPT !.stamped = TRUE]
                                        ELSE msg[m]]
        BY <1>a, <3>2 DEF MsgRec
      <3> QED
        BY <1>17, <3>1, <3>2 DEF BootNotice
    <2>2. Processing' \subseteq Processing
      BY <1>17 DEF BootNotice, Processing
    <2> QED
      BY <1>17, <2>1, <2>2, IdlingKeeps DEF BootNotice, Idling, InFlight
  <1>18. ASSUME NEW m \in Msgs, AgeMessage(m) PROVE Reserve'
    <2>1. \A n \in Msgs : msg'[n].crashes = msg[n].crashes
      BY <1>18, <1>a DEF AgeMessage, MsgRec
    <2> QED
      BY <1>18, <2>1, IdlingKeeps DEF AgeMessage, Idling, Processing, InFlight
  <1>19. ASSUME NEW m \in Msgs, AgeClaim(m) PROVE Reserve'
    <2>1. Processing' \subseteq Processing
      BY <1>19, <1>a DEF AgeClaim, Processing, AckRec
    <2> QED
      BY <1>19, <2>1, IdlingKeeps DEF AgeClaim, Idling, InFlight
  <1>20. CASE AgeHeartbeat \/ AgeActive \/ AgeTool \/ UNCHANGED vars
    BY <1>20, IdlingKeeps DEF AgeHeartbeat, AgeActive, AgeTool, vars, Idling, Processing, InFlight
  <1> QED
    BY <1>1, <1>2, <1>3, <1>4, <1>5, <1>6, <1>7, <1>8, <1>9, <1>10, <1>11, <1>12, <1>13, <1>14, <1>15,
       <1>16, <1>17, <1>18, <1>19, <1>20
    DEF Next, RunnerStep, SweepStep, Reconcile, SpawnStep, BootStep

\* While turns run no tools, and so no second task restarts the container, a
\* message is charged only with runner deaths it was in flight for and with
\* host crashes: none is quarantined for the crashes of another.
THEOREM CrashesAreJustified == ~ Tools => (Spec => []CrashCountJustified)
  <1> SUFFICES ASSUME ~ Tools PROVE Spec => []CrashCountJustified
    OBVIOUS
  <1>1. Init => Sole /\ Reserve
    BY Bounds DEF Init, Sole, Reserve, CrashCountJustified, Processing, NoAck, Idle, Actors
  <1>2. TypeOK /\ Working /\ Sole /\ Reserve /\ [Next]_vars => (Sole /\ Reserve)'
    BY SoleStep, ReserveStep
  <1>3. Reserve => CrashCountJustified
    BY DEF Reserve
  <1> QED
    BY <1>1, <1>2, <1>3, InboundTypeSafety, PTL DEF Spec

=============================================================================
