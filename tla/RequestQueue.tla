---------------------------- MODULE RequestQueue ----------------------------
(* What the API and the worker rely on of the queue of requests: a request   *)
(* is in one place and never vanishes; it leaves the queue by the answer of  *)
(* the consumer that has it, and comes back if that consumer goes away.      *)
CONSTANT Messages

VARIABLES
    waiting,
    taken,   \* delivered to a consumer that has not answered
    settled  \* acknowledged, dead-lettered, or never accepted

queueVars == <<waiting, taken, settled>>

QueueInit ==
    /\ waiting \in SUBSET Messages
    /\ taken = {} /\ settled = {}

Unsent == Messages \ (waiting \cup taken \cup settled)

Accept(m) ==
    /\ m \in Unsent
    /\ waiting' = waiting \cup {m}
    /\ UNCHANGED <<taken, settled>>

\* The broker does not take it.
Decline(m) ==
    /\ m \in Unsent
    /\ settled' = settled \cup {m}
    /\ UNCHANGED <<waiting, taken>>

Take(m) ==
    /\ m \in waiting
    /\ waiting' = waiting \ {m}
    /\ taken' = taken \cup {m}
    /\ UNCHANGED settled

Settle(m) ==
    /\ m \in taken
    /\ taken' = taken \ {m}
    /\ settled' = settled \cup {m}
    /\ UNCHANGED waiting

\* A connection or a process is gone; its messages are delivered again.
GiveBack(S) ==
    /\ S \subseteq taken
    /\ taken' = taken \ S
    /\ waiting' = waiting \cup S
    /\ UNCHANGED settled

QueueNext ==
    \/ \E m \in Messages : Accept(m) \/ Decline(m) \/ Take(m) \/ Settle(m)
    \/ \E S \in SUBSET taken : GiveBack(S)

QueueSpec == QueueInit /\ [][QueueNext]_queueVars
=============================================================================
