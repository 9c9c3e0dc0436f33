--------------------------- MODULE ParkingReplicas ---------------------------
(* The same backend, with what its queue workers do at the same time kept   *)
(* on record. canCreateReservation and the INSERT are separate statements,  *)
(* and nothing but the service's own replicas, or the prefetch of one of    *)
(* them, decides how many executions stand between the two at once.         *)
EXTENDS ParkingInvariant

VARIABLES
    since,   \* history: the rows inserted since a worker's execution began
    overlaps \* history: pairs of rows such that the execution that inserted
             \* the second had begun when the first was inserted

replicaVars == <<vars, since, overlaps>>

NewRows == {r \in Resvs : res[r].status = "NONE" /\ res'[r].status # "NONE"}

Ending == {w \in Workers : worker[w].pc = "insert" /\ worker'[w].pc = "idle"}

Record ==
    /\ since' = [w \in Workers |->
                   IF worker'[w].pc = "idle" THEN {}
                                             ELSE since[w] \cup NewRows]
    /\ overlaps' = overlaps \cup
         {{q, r} : q \in UNION {since[w] : w \in Ending}, r \in NewRows}

ReplicasInit ==
    /\ Init
    /\ since = [w \in Workers |-> {}]
    /\ overlaps = {}

ReplicasSpec == ReplicasInit /\ [][Next /\ Record]_replicaVars

-----------------------------------------------------------------------------
\* A user has two PENDING reservations only when the executions that inserted
\* them overlapped: the later one had asked findActiveByUser before the earlier
\* INSERT. However long ago that was, and whatever was cancelled, entered or
\* swept meanwhile, executions that follow one another never leave two.
TwoPendingOnlyByOverlap ==
    \A r1, r2 \in Resvs :
        /\ res[r1].status = "PENDING" /\ res[r2].status = "PENDING"
        /\ res[r1].user = res[r2].user
        => r1 = r2 \/ {r1, r2} \in overlaps

\* What a running execution may rely on: a PENDING row of its user is one that
\* it could not have seen when it asked.
UnseenPending ==
    \A w \in Workers : worker[w].pc # "idle" =>
        \A r \in Resvs :
            /\ res[r].status = "PENDING" /\ res[r].user = worker[w].user
            => r \in since[w]
=============================================================================
