------------------------------- MODULE Outbox -------------------------------
(***************************************************************************)
(* What outbound delivery promises about a session's messages, with loops, *)
(* claims, retries and crashes hidden.  A message is written once, gets at *)
(* most one verdict, keeps it for ever, and is acknowledged only after the *)
(* platform took all of it.  The platform may take a message any number of *)
(* times, before or after the verdict: delivery is at least once.          *)
(***************************************************************************)
CONSTANT Ids

VARIABLES
    verdict,  \* "absent", "pending", "ok" or "failed"
    taken     \* messages the platform has taken in full at least once

Init == verdict = [m \in Ids |-> "absent"] /\ taken = {}

\* A message with nothing in it counts as taken when it is written.
Write(m) ==
    /\ verdict[m] = "absent"
    /\ verdict' = [verdict EXCEPT ![m] = "pending"]
    /\ taken' \in {taken, taken \cup {m}}

Take(m) == verdict[m] # "absent" /\ taken' = taken \cup {m} /\ UNCHANGED verdict

Acknowledge(m) ==
    /\ verdict[m] = "pending" /\ m \in taken
    /\ verdict' = [verdict EXCEPT ![m] = "ok"]
    /\ UNCHANGED taken

GiveUp(m) ==
    /\ verdict[m] = "pending"
    /\ verdict' = [verdict EXCEPT ![m] = "failed"]
    /\ UNCHANGED taken

Next == \E m \in Ids : Write(m) \/ Take(m) \/ Acknowledge(m) \/ GiveUp(m)

Spec == Init /\ [][Next]_<<verdict, taken>>
============================================================================
