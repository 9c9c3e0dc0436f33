--------------------------- MODULE Backend_proofs ---------------------------
(* What the backend's own mechanisms promise, each for every value of its    *)
(* constants: the circuit breaker for any number of calls, any threshold and *)
(* any pair of timeouts in the right order; the consumer of requests for any *)
(* number of connections and requests; the assignment of slots for any       *)
(* branches, slots, types and distances. The three share no state.           *)
EXTENDS CircuitBreaker, RabbitConnection, SlotAssignment,
        FiniteSetTheorems, WellFoundedInduction, TLAPS

-----------------------------------------------------------------------------
(* CircuitBreaker: old calls are over when a probe is let through.           *)

\* Calls that run while the circuit is open were admitted before it opened.
OldCallsOnly ==
    state = "OPEN" => \A c \in running : elapsed <= age[c]

\* What the runs check, strengthened by the ages of the old calls.
BreakerInvariant ==
    /\ BreakerTypeOK
    /\ FlagIsHonest /\ ClosedMeansFewFailures
    /\ OldCallsOnly /\ OnlyTheProbeRuns

\* The breaker starts closed, with nothing running.
LEMMA InitBreaker == BreakerInit => BreakerInvariant
<1> SUFFICES ASSUME BreakerInit
             PROVE  BreakerInvariant
  OBVIOUS
<1>1. BreakerTypeOK
  <2>1. probeInFlight \in BOOLEAN /\ healthy \in BOOLEAN
    BY DEF BreakerInit
  <2> QED
    BY <2>1, CircuitBreakerAssumption DEF BreakerInit, BreakerTypeOK
<1>2. FlagIsHonest
  BY DEF BreakerInit, FlagIsHonest
<1>3. ClosedMeansFewFailures /\ OldCallsOnly /\ OnlyTheProbeRuns
  BY CircuitBreakerAssumption
  DEF BreakerInit, ClosedMeansFewFailures, OldCallsOnly, OnlyTheProbeRuns
<1> QED
  BY <1>1, <1>2, <1>3 DEF BreakerInvariant

\* When the circuit has been open for ResetTimeout, nothing runs any more:
\* that is what CallTimeout < ResetTimeout is for.
LEMMA OpenLongEnough ==
    ASSUME BreakerInvariant, state = "OPEN", elapsed >= ResetTimeout
    PROVE  running = {}
  <1>1. \A c \in running : elapsed <= age[c] /\ age[c] <= CallTimeout
    BY DEF BreakerInvariant, OldCallsOnly, BreakerTypeOK
  <1>2. CallTimeout < elapsed /\ elapsed \in Nat /\ CallTimeout \in Nat
    BY CircuitBreakerAssumption DEF BreakerInvariant, BreakerTypeOK
  <1>3. \A c \in running : age[c] \in Nat
    BY CircuitBreakerAssumption DEF BreakerInvariant, BreakerTypeOK
  <1> QED
    BY <1>1, <1>2, <1>3

\* A probe is admitted only when no call runs.
LEMMA ProbeRunsAlone ==
    ASSUME BreakerInvariant, NEW c \in Calls, ExecuteProbe(c), ~probeInFlight
    PROVE  running' = {c}
  <1>1. state = "OPEN"
    BY DEF BreakerInvariant, BreakerTypeOK, FlagIsHonest, ExecuteProbe
  <1>2. running = {}
    BY <1>1, OpenLongEnough DEF ExecuteProbe
  <1> QED
    BY <1>2 DEF ExecuteProbe, Begin

\* Every step of a call, of time and of the target keeps the invariant.
LEMMA BreakerStep ==
    BreakerInvariant /\ [BreakerNext]_breakerVars => BreakerInvariant'
<1> SUFFICES ASSUME BreakerInvariant, [BreakerNext]_breakerVars
             PROVE  BreakerInvariant'
  OBVIOUS
<1> USE CircuitBreakerAssumption
<1>1. ASSUME NEW c \in Calls, ExecuteClosed(c)
      PROVE  BreakerInvariant'
  <2>1. BreakerTypeOK'
    BY <1>1
    DEF BreakerInvariant, BreakerTypeOK, ExecuteClosed, Begin, breakerFields
  <2>2. FlagIsHonest'
    BY <1>1
    DEF BreakerInvariant, FlagIsHonest, ExecuteClosed, Begin, breakerFields
  <2>3. (ClosedMeansFewFailures /\ OldCallsOnly /\ OnlyTheProbeRuns)'
    BY <1>1
    DEF BreakerInvariant, BreakerTypeOK, ClosedMeansFewFailures, OldCallsOnly,
        OnlyTheProbeRuns, ExecuteClosed, Begin, breakerFields
  <2> QED
    BY <2>1, <2>2, <2>3 DEF BreakerInvariant
<1>2. ASSUME NEW c \in Calls, ExecuteProbe(c), ~probeInFlight
      PROVE  BreakerInvariant'
  <2>1. running' = {c}
    BY <1>2, ProbeRunsAlone
  <2>2. BreakerTypeOK'
    BY <1>2 DEF BreakerInvariant, BreakerTypeOK, ExecuteProbe, Begin
  <2>3. FlagIsHonest'
    BY <1>2 DEF FlagIsHonest, ExecuteProbe
  <2>4. ClosedMeansFewFailures'
    BY <1>2 DEF BreakerInvariant, ClosedMeansFewFailures, ExecuteProbe
  <2>5. (OldCallsOnly /\ OnlyTheProbeRuns)'
    BY <1>2, <2>1 DEF ExecuteProbe, OldCallsOnly, OnlyTheProbeRuns
  <2> QED
    BY <2>2, <2>3, <2>4, <2>5 DEF BreakerInvariant
<1>3. ASSUME NEW c \in Calls, Succeed(c)
      PROVE  BreakerInvariant'
  <2>1. BreakerTypeOK'
    <3>1. probeInFlight' \in BOOLEAN
      BY <1>3 DEF Succeed
    <3>2. running' \in SUBSET Calls /\ atRisk' \in SUBSET running'
      BY <1>3 DEF BreakerInvariant, BreakerTypeOK, Succeed, End
    <3> QED
      BY <1>3, <3>1, <3>2 DEF BreakerInvariant, BreakerTypeOK, Succeed, End
  <2>2. FlagIsHonest'
    BY <1>3 DEF BreakerInvariant, FlagIsHonest, Succeed, End
  <2>3. (ClosedMeansFewFailures /\ OldCallsOnly /\ OnlyTheProbeRuns)'
    BY <1>3
    DEF BreakerInvariant, BreakerTypeOK, ClosedMeansFewFailures, OldCallsOnly,
        OnlyTheProbeRuns, Succeed, End
  <2> QED
    BY <2>1, <2>2, <2>3 DEF BreakerInvariant
<1>4. ASSUME NEW c \in Calls, Fail(c)
      PROVE  BreakerInvariant'
  <2>1. BreakerTypeOK'
    <3>1. probeInFlight' \in BOOLEAN
      BY <1>4 DEF Fail
    <3>2. running' \in SUBSET Calls /\ atRisk' \in SUBSET running'
      BY <1>4 DEF BreakerInvariant, BreakerTypeOK, Fail, End
    <3> QED
      BY <1>4, <3>1, <3>2 DEF BreakerInvariant, BreakerTypeOK, Fail, End
  <2>2. ClosedMeansFewFailures'
    BY <1>4 DEF BreakerInvariant, BreakerTypeOK, ClosedMeansFewFailures, Fail
  <2>3. state' # "HALF_OPEN"
    BY <1>4 DEF Fail
  <2>4. FlagIsHonest'
    BY <1>4, <2>3 DEF FlagIsHonest, Fail
  <2>5. state' = "OPEN" => elapsed' = 0
    BY <1>4 DEF BreakerInvariant, BreakerTypeOK, ClosedMeansFewFailures, Fail
  <2>6. \A d \in running' : age'[d] \in Nat
    BY <2>1 DEF BreakerTypeOK
  <2>7. (OldCallsOnly /\ OnlyTheProbeRuns)'
    BY <2>3, <2>5, <2>6 DEF OldCallsOnly, OnlyTheProbeRuns
  <2> QED
    BY <2>1, <2>2, <2>4, <2>7 DEF BreakerInvariant
<1>5. CASE Tick
  <2>1. BreakerTypeOK'
    BY <1>5 DEF BreakerInvariant, BreakerTypeOK, Tick
  <2>2. FlagIsHonest'
    BY <1>5 DEF BreakerInvariant, FlagIsHonest, Tick
  <2>3. (ClosedMeansFewFailures /\ OldCallsOnly /\ OnlyTheProbeRuns)'
    BY <1>5
    DEF BreakerInvariant, BreakerTypeOK, ClosedMeansFewFailures, OldCallsOnly,
        OnlyTheProbeRuns, Tick
  <2> QED
    BY <2>1, <2>2, <2>3 DEF BreakerInvariant
<1>6. CASE GoDown
  <2>1. BreakerTypeOK'
    BY <1>6 DEF BreakerInvariant, BreakerTypeOK, GoDown, breakerFields
  <2>2. FlagIsHonest'
    BY <1>6 DEF BreakerInvariant, FlagIsHonest, GoDown, breakerFields
  <2>3. (ClosedMeansFewFailures /\ OldCallsOnly /\ OnlyTheProbeRuns)'
    BY <1>6
    DEF BreakerInvariant, BreakerTypeOK, ClosedMeansFewFailures, OldCallsOnly,
        OnlyTheProbeRuns, GoDown, breakerFields
  <2> QED
    BY <2>1, <2>2, <2>3 DEF BreakerInvariant
<1>7. CASE ComeBack
  <2>1. BreakerTypeOK'
    BY <1>7 DEF BreakerInvariant, BreakerTypeOK, ComeBack, breakerFields
  <2>2. FlagIsHonest'
    BY <1>7 DEF BreakerInvariant, FlagIsHonest, ComeBack, breakerFields
  <2>3. (ClosedMeansFewFailures /\ OldCallsOnly /\ OnlyTheProbeRuns)'
    BY <1>7
    DEF BreakerInvariant, BreakerTypeOK, ClosedMeansFewFailures, OldCallsOnly,
        OnlyTheProbeRuns, ComeBack, breakerFields
  <2> QED
    BY <2>1, <2>2, <2>3 DEF BreakerInvariant
<1>8. CASE UNCHANGED breakerVars
  <2>1. BreakerTypeOK'
    BY <1>8 DEF BreakerInvariant, BreakerTypeOK, breakerVars, breakerFields
  <2>2. FlagIsHonest'
    BY <1>8 DEF BreakerInvariant, FlagIsHonest, breakerVars, breakerFields
  <2>3. (ClosedMeansFewFailures /\ OldCallsOnly /\ OnlyTheProbeRuns)'
    BY <1>8
    DEF BreakerInvariant, BreakerTypeOK, ClosedMeansFewFailures, OldCallsOnly,
        OnlyTheProbeRuns, breakerVars, breakerFields
  <2> QED
    BY <2>1, <2>2, <2>3 DEF BreakerInvariant
<1>9. ASSUME NEW c \in Calls, ExecuteProbe(c), probeInFlight
      PROVE  BreakerInvariant'
  <2>1. state = "HALF_OPEN"
    BY <1>9 DEF BreakerInvariant, FlagIsHonest
  <2>2. probeInFlight = TRUE
    BY <1>9 DEF BreakerInvariant, BreakerTypeOK
  <2>3. UNCHANGED breakerVars
    BY <1>9, <2>1, <2>2 DEF ExecuteProbe, breakerVars, breakerFields
  <2> QED
    BY <2>3, <1>8
<1> QED
  BY <1>1, <1>2, <1>3, <1>4, <1>5, <1>6, <1>7, <1>8, <1>9
  DEF BreakerNext, Execute, Return

\* The invariant the others follow from.
THEOREM BreakerInvariantHolds == BreakerSpec => []BreakerInvariant
  BY InitBreaker, BreakerStep, PTL DEF BreakerSpec

\* The breaker's fields and its calls keep their types.
THEOREM BreakerType == BreakerSpec => []BreakerTypeOK
  <1>1. BreakerInvariant => BreakerTypeOK
    BY DEF BreakerInvariant
  <1> QED
    BY <1>1, BreakerInvariantHolds, PTL

\* With CallTimeout < ResetTimeout, one call of ours at most reaches a target
\* that is being probed, however many were running when the circuit opened.
THEOREM OneProbeTheorem == BreakerSpec => []OnlyTheProbeRuns
  <1>1. BreakerInvariant => OnlyTheProbeRuns
    BY DEF BreakerInvariant
  <1> QED
    BY <1>1, BreakerInvariantHolds, PTL

\* probeInFlight never stays up without a probe.
THEOREM FlagTheorem == BreakerSpec => []FlagIsHonest
  <1>1. BreakerInvariant => FlagIsHonest
    BY DEF BreakerInvariant
  <1> QED
    BY <1>1, BreakerInvariantHolds, PTL

\* A closed circuit has seen fewer failures in a row than the threshold.
THEOREM FailuresTheorem == BreakerSpec => []ClosedMeansFewFailures
  <1>1. BreakerInvariant => ClosedMeansFewFailures
    BY DEF BreakerInvariant
  <1> QED
    BY <1>1, BreakerInvariantHolds, PTL

-----------------------------------------------------------------------------
(* RabbitConnection: what becomes of a delivery, and who reconnects.         *)

\* A connection is set up with nothing left over from an earlier one, and what
\* the broker and the handler think of a delivery agrees while it is consumed.
DeliveriesAgree ==
    \A i \in Conns :
        /\ conn[i] \in {"opening", "open"} => handling[i] = None
        /\ conn[i] = "consuming" => handling[i] = unacked[i]
        /\ conn[i] # "consuming" => unacked[i] = None

\* The strengthened invariant: everything the theorems below follow from.
Inductive == TypeOK /\ DeliveriesAgree /\ AckedWasProcessed

\* A process that has just started satisfies the invariant.
LEMMA InitInductive == Init => Inductive
  BY DEF Init, Inductive, TypeOK, ConnStates, DeliveriesAgree,
      AckedWasProcessed

\* Giving back what was unacknowledged keeps the broker's queues well typed.
LEMMA RequeueType ==
    ASSUME TypeOK, NEW S \in SUBSET Conns, Requeue(S)
    PROVE  /\ ready' \subseteq Messages
           /\ unacked' \in [Conns -> Messages \cup {None}]
  BY DEF TypeOK, Requeue

\* A restart forgets every handler and gives back every delivery, so that the
\* two agree again, whatever the process was doing.
LEMMA RestartInductive ==
    ASSUME Inductive, NEW j \in Conns, Restart(j),
           processed \subseteq processed', processed' \subseteq Messages
    PROVE  Inductive'
<1>1. TypeOK'
  <2>1. /\ ready' \subseteq Messages
        /\ unacked' \in [Conns -> Messages \cup {None}]
    BY RequeueType DEF Restart, Inductive
  <2> QED
    BY <2>1 DEF Inductive, TypeOK, Restart, ConnStates
<1>2. DeliveriesAgree'
  BY DEF Restart, Requeue, DeliveriesAgree
<1>3. AckedWasProcessed'
  BY DEF Inductive, AckedWasProcessed, Restart
<1> QED
  BY <1>1, <1>2, <1>3 DEF Inductive

\* Every step of the process, of the broker and of the faults keeps it.
LEMMA StepInductive == Inductive /\ [Next]_vars => Inductive'
<1> SUFFICES ASSUME Inductive, [Next]_vars
             PROVE  Inductive'
  OBVIOUS
<1> USE RabbitAssumption DEF Inductive
<1>1. ASSUME NEW i \in Conns, OpenSucceeds(i)
      PROVE  Inductive'
  <2>1. TypeOK'
    BY <1>1 DEF TypeOK, ConnStates, OpenSucceeds, fields, broker, history
  <2>2. DeliveriesAgree'
    BY <1>1 DEF TypeOK, DeliveriesAgree, OpenSucceeds, fields, broker, history
  <2>3. AckedWasProcessed'
    BY <1>1 DEF TypeOK, DeliveriesAgree, AckedWasProcessed, OpenSucceeds,
        fields, broker, history
  <2> QED
    BY <2>1, <2>2, <2>3
<1>2. ASSUME NEW i \in Conns, OpenFails(i)
      PROVE  Inductive'
  <2>1. TypeOK'
    BY <1>2 DEF TypeOK, ConnStates, OpenFails, fields, broker, history
  <2>2. DeliveriesAgree'
    BY <1>2 DEF TypeOK, DeliveriesAgree, OpenFails, fields, broker, history
  <2>3. AckedWasProcessed'
    BY <1>2 DEF TypeOK, DeliveriesAgree, AckedWasProcessed, OpenFails,
        fields, broker, history
  <2> QED
    BY <2>1, <2>2, <2>3
<1>3. ASSUME NEW i \in Conns, Subscribe(i)
      PROVE  Inductive'
  <2>1. TypeOK'
    BY <1>3 DEF TypeOK, ConnStates, Subscribe, fields, broker, history
  <2>2. DeliveriesAgree'
    BY <1>3 DEF TypeOK, DeliveriesAgree, Subscribe, fields, broker, history
  <2>3. AckedWasProcessed'
    BY <1>3 DEF TypeOK, DeliveriesAgree, AckedWasProcessed, Subscribe,
        fields, broker, history
  <2> QED
    BY <2>1, <2>2, <2>3
<1>4. ASSUME NEW i \in Conns, OnClose(i)
      PROVE  Inductive'
  <2>1. TypeOK'
    BY <1>4 DEF TypeOK, ConnStates, OnClose, fields, broker, history
  <2>2. DeliveriesAgree'
    BY <1>4 DEF TypeOK, DeliveriesAgree, OnClose, fields, broker, history
  <2>3. AckedWasProcessed'
    BY <1>4 DEF TypeOK, DeliveriesAgree, AckedWasProcessed, OnClose, fields,
        broker, history
  <2> QED
    BY <2>1, <2>2, <2>3
<1>5. ASSUME NEW i \in Conns, TimerFires(i)
      PROVE  Inductive'
  <2>1. TypeOK'
    BY <1>5 DEF TypeOK, ConnStates, TimerFires, fields, broker, history,
        Connect, Unused
  <2>2. DeliveriesAgree'
    BY <1>5 DEF TypeOK, DeliveriesAgree, TimerFires, fields, broker, history,
        Connect, Unused
  <2>3. AckedWasProcessed'
    BY <1>5 DEF TypeOK, DeliveriesAgree, AckedWasProcessed, TimerFires,
        fields, broker, history, Connect, Unused
  <2> QED
    BY <2>1, <2>2, <2>3
<1>6. ASSUME NEW i \in Conns, Publish(i)
      PROVE  Inductive'
  <2>1. TypeOK'
    BY <1>6 DEF TypeOK, ConnStates, Publish, fields, broker, history,
        Connect, Unused
  <2>2. DeliveriesAgree'
    BY <1>6 DEF TypeOK, DeliveriesAgree, Publish, fields, broker, history,
        Connect, Unused
  <2>3. AckedWasProcessed'
    BY <1>6 DEF TypeOK, DeliveriesAgree, AckedWasProcessed, Publish, fields,
        broker, history, Connect, Unused
  <2> QED
    BY <2>1, <2>2, <2>3
<1>7. CASE PublishLate
  <2>1. TypeOK'
    BY <1>7 DEF TypeOK, ConnStates, PublishLate, fields, broker, history
  <2>2. DeliveriesAgree'
    BY <1>7 DEF TypeOK, DeliveriesAgree, PublishLate, fields, broker, history
  <2>3. AckedWasProcessed'
    BY <1>7 DEF TypeOK, DeliveriesAgree, AckedWasProcessed, PublishLate,
        fields, broker, history
  <2> QED
    BY <2>1, <2>2, <2>3
<1>8. ASSUME NEW i \in Conns, NEW m \in Messages, Deliver(i, m)
      PROVE  Inductive'
  <2>1. TypeOK'
    BY <1>8 DEF TypeOK, ConnStates, Deliver, fields, broker, history
  <2>2. DeliveriesAgree'
    BY <1>8 DEF TypeOK, DeliveriesAgree, Deliver, fields, broker, history
  <2>3. AckedWasProcessed'
    BY <1>8 DEF TypeOK, DeliveriesAgree, AckedWasProcessed, Deliver, fields,
        broker, history
  <2> QED
    BY <2>1, <2>2, <2>3
<1>9. ASSUME NEW i \in Conns, HandleSucceeds(i)
      PROVE  Inductive'
  <2>1. TypeOK'
    BY <1>9 DEF TypeOK, ConnStates, HandleSucceeds, fields, broker, history
  <2>2. DeliveriesAgree'
    BY <1>9 DEF TypeOK, DeliveriesAgree, HandleSucceeds, fields, broker,
        history
  <2>3. AckedWasProcessed'
    BY <1>9 DEF TypeOK, DeliveriesAgree, AckedWasProcessed, HandleSucceeds,
        fields, broker, history
  <2> QED
    BY <2>1, <2>2, <2>3
<1>10. ASSUME NEW i \in Conns, HandleFails(i)
       PROVE  Inductive'
  <2>1. TypeOK'
    BY <1>10 DEF TypeOK, ConnStates, HandleFails, fields, broker, history
  <2>2. DeliveriesAgree'
    BY <1>10 DEF TypeOK, DeliveriesAgree, HandleFails, fields, broker, history
  <2>3. AckedWasProcessed'
    BY <1>10 DEF TypeOK, DeliveriesAgree, AckedWasProcessed, HandleFails,
        fields, broker, history
  <2> QED
    BY <2>1, <2>2, <2>3
<1>11. CASE BrokerStops
  <2>0. Requeue(Conns)
    BY <1>11 DEF BrokerStops
  <2>1. TypeOK'
    <3>1. /\ ready' \subseteq Messages
          /\ unacked' \in [Conns -> Messages \cup {None}]
      BY <2>0, RequeueType
    <3> QED
      BY <1>11, <3>1 DEF TypeOK, ConnStates, BrokerStops, fields, broker,
          history, Alive
  <2>2. DeliveriesAgree'
    BY <1>11 DEF TypeOK, DeliveriesAgree, Requeue, BrokerStops, fields,
        broker, history, Alive
  <2>3. AckedWasProcessed'
    BY <1>11 DEF TypeOK, DeliveriesAgree, AckedWasProcessed, BrokerStops,
        fields, broker, history, Alive
  <2> QED
    BY <2>1, <2>2, <2>3
<1>12. CASE BrokerStarts
  <2>1. TypeOK'
    BY <1>12 DEF TypeOK, ConnStates, BrokerStarts, fields, broker, history
  <2>2. DeliveriesAgree'
    BY <1>12 DEF TypeOK, DeliveriesAgree, BrokerStarts, fields, broker, history
  <2>3. AckedWasProcessed'
    BY <1>12 DEF TypeOK, DeliveriesAgree, AckedWasProcessed, BrokerStarts,
        fields, broker, history
  <2> QED
    BY <2>1, <2>2, <2>3
<1>13. CASE CalmDown
  <2>1. TypeOK'
    BY <1>13 DEF TypeOK, ConnStates, CalmDown, fields, broker, history
  <2>2. DeliveriesAgree'
    BY <1>13 DEF TypeOK, DeliveriesAgree, CalmDown, fields, broker, history
  <2>3. AckedWasProcessed'
    BY <1>13 DEF TypeOK, DeliveriesAgree, AckedWasProcessed, CalmDown,
        fields, broker, history
  <2> QED
    BY <2>1, <2>2, <2>3
<1>14. ASSUME NEW i \in Conns, ConnectionLost(i)
       PROVE  Inductive'
  <2>0. Requeue({i})
    BY <1>14 DEF ConnectionLost
  <2>1. TypeOK'
    <3>1. /\ ready' \subseteq Messages
          /\ unacked' \in [Conns -> Messages \cup {None}]
      BY <2>0, RequeueType
    <3> QED
      BY <1>14, <3>1
      DEF TypeOK, ConnStates, ConnectionLost, fields, broker, history, Alive
  <2>2. DeliveriesAgree'
    BY <1>14 DEF TypeOK, DeliveriesAgree, Requeue, ConnectionLost, fields,
        broker, history, Alive
  <2>3. AckedWasProcessed'
    BY <1>14 DEF TypeOK, DeliveriesAgree, AckedWasProcessed, ConnectionLost,
        fields, broker, history, Alive
  <2> QED
    BY <2>1, <2>2, <2>3
<1>15. ASSUME NEW i \in Conns, ChannelClosed(i)
       PROVE  Inductive'
  <2>0. Requeue({i})
    BY <1>15 DEF ChannelClosed
  <2>1. TypeOK'
    <3>1. /\ ready' \subseteq Messages
          /\ unacked' \in [Conns -> Messages \cup {None}]
      BY <2>0, RequeueType
    <3> QED
      BY <1>15, <3>1 DEF TypeOK, ConnStates, ChannelClosed, fields, broker,
          history
  <2>2. DeliveriesAgree'
    BY <1>15 DEF TypeOK, DeliveriesAgree, Requeue, ChannelClosed, fields,
        broker, history
  <2>3. AckedWasProcessed'
    BY <1>15 DEF TypeOK, DeliveriesAgree, AckedWasProcessed, ChannelClosed,
        fields, broker, history
  <2> QED
    BY <2>1, <2>2, <2>3
<1>16. CASE UNCHANGED vars
  <2>1. TypeOK'
    BY <1>16 DEF TypeOK, ConnStates, vars, fields, broker, history
  <2>2. DeliveriesAgree'
    BY <1>16 DEF TypeOK, DeliveriesAgree, vars, fields, broker, history
  <2>3. AckedWasProcessed'
    BY <1>16 DEF TypeOK, DeliveriesAgree, AckedWasProcessed, vars, fields,
        broker, history
  <2> QED
    BY <2>1, <2>2, <2>3
<1>20. ASSUME NEW i \in Conns, NEW j \in Conns, HandleOnClosedChannel(i, j)
       PROVE  Inductive'
  <2>1. processed \subseteq processed' /\ processed' \subseteq Messages
    BY <1>20 DEF HandleOnClosedChannel, TypeOK
  <2> QED
    BY <1>20, <2>1, RestartInductive DEF HandleOnClosedChannel
<1>21. ASSUME NEW i \in Conns, ProcessDies(i)
       PROVE  Inductive'
  <2>1. processed \subseteq processed' /\ processed' \subseteq Messages
    BY <1>21 DEF ProcessDies, TypeOK
  <2> QED
    BY <1>21, <2>1, RestartInductive DEF ProcessDies
<1> QED
  BY <1>1, <1>2, <1>3, <1>4, <1>5, <1>6, <1>7, <1>8, <1>9, <1>10, <1>11,
     <1>12, <1>13, <1>14, <1>15, <1>16, <1>20, <1>21
  DEF Next, Reconnect, Handle

\* What the others follow from.
THEOREM DeliveriesTheorem == Spec => []Inductive
  BY InitInductive, StepInductive, PTL DEF Spec

\* The fields, the connections and the queues keep their types.
THEOREM ConnectionType == Spec => []TypeOK
  <1>1. Inductive => TypeOK
    BY DEF Inductive
  <1> QED
    BY <1>1, DeliveriesTheorem, PTL

\* A request that left the queue with an ack was processed to the end, however
\* many connections and processes died meanwhile.
THEOREM AckedTheorem == Spec => []AckedWasProcessed
  <1>1. Inductive => AckedWasProcessed
    BY DEF Inductive
  <1> QED
    BY <1>1, DeliveriesTheorem, PTL

\* A request the broker waits an answer for is being handled.
THEOREM UnackedTheorem == Spec => []UnackedIsHandled
  <1>1. Inductive => UnackedIsHandled
    BY DEF Inductive, DeliveriesAgree, UnackedIsHandled
  <1> QED
    BY <1>1, DeliveriesTheorem, PTL

-----------------------------------------------------------------------------
\* The first attempt is on its way when the process starts.
LEMMA InitReconnects == Init => SomebodyReconnects
  BY RabbitAssumption DEF Init, SomebodyReconnects, Deaf

\* Every step that takes a subscription away leaves an attempt under way, or
\* leaves the worker deaf.
LEMMA StepReconnects ==
    TypeOK /\ SomebodyReconnects /\ [Next]_vars => SomebodyReconnects'
<1> SUFFICES ASSUME TypeOK, SomebodyReconnects, [Next]_vars
             PROVE  SomebodyReconnects'
  OBVIOUS
<1> USE RabbitAssumption
<1>1. ASSUME NEW i \in Conns, OpenSucceeds(i)
      PROVE  SomebodyReconnects'
  BY <1>1 DEF TypeOK, SomebodyReconnects, Deaf, OpenSucceeds, fields, history
<1>2. ASSUME NEW i \in Conns, OpenFails(i)
      PROVE  SomebodyReconnects'
  BY <1>2 DEF TypeOK, SomebodyReconnects, Deaf, OpenFails, fields, history
<1>3. ASSUME NEW i \in Conns, Subscribe(i)
      PROVE  SomebodyReconnects'
  BY <1>3 DEF TypeOK, SomebodyReconnects, Deaf, Subscribe, fields, history
<1>4. ASSUME NEW i \in Conns, OnClose(i)
      PROVE  SomebodyReconnects'
  BY <1>4 DEF TypeOK, SomebodyReconnects, Deaf, OnClose, fields, history
<1>5. ASSUME NEW i \in Conns, TimerFires(i)
      PROVE  SomebodyReconnects'
  BY <1>5 DEF TypeOK, SomebodyReconnects, Deaf, TimerFires, fields, history,
      Connect, Unused
<1>6. ASSUME NEW i \in Conns, Publish(i)
      PROVE  SomebodyReconnects'
  BY <1>6 DEF TypeOK, SomebodyReconnects, Deaf, Publish, fields, history,
      Connect, Unused
<1>7. CASE PublishLate
  BY <1>7 DEF TypeOK, SomebodyReconnects, Deaf, PublishLate, fields, history
<1>8. ASSUME NEW i \in Conns, NEW m \in Messages, Deliver(i, m)
      PROVE  SomebodyReconnects'
  BY <1>8 DEF TypeOK, SomebodyReconnects, Deaf, Deliver, fields, history
<1>9. ASSUME NEW i \in Conns, HandleSucceeds(i)
      PROVE  SomebodyReconnects'
  BY <1>9 DEF TypeOK, SomebodyReconnects, Deaf, HandleSucceeds, fields
<1>10. ASSUME NEW i \in Conns, HandleFails(i)
       PROVE  SomebodyReconnects'
  BY <1>10 DEF TypeOK, SomebodyReconnects, Deaf, HandleFails, fields, history
<1>11. CASE BrokerStops
  BY <1>11 DEF TypeOK, SomebodyReconnects, Deaf, BrokerStops, fields,
      history, Alive
<1>12. CASE BrokerStarts
  BY <1>12 DEF TypeOK, SomebodyReconnects, Deaf, BrokerStarts, fields, history
<1>13. CASE CalmDown
  BY <1>13 DEF TypeOK, SomebodyReconnects, Deaf, CalmDown, fields, history
<1>14. ASSUME NEW i \in Conns, ConnectionLost(i)
       PROVE  SomebodyReconnects'
  BY <1>14 DEF TypeOK, SomebodyReconnects, Deaf, ConnectionLost, fields,
      history, Alive
<1>15. ASSUME NEW i \in Conns, ChannelClosed(i)
       PROVE  SomebodyReconnects'
  BY <1>15 DEF TypeOK, SomebodyReconnects, Deaf, ChannelClosed, fields,
      history
<1>16. CASE UNCHANGED vars
  BY <1>16 DEF TypeOK, SomebodyReconnects, Deaf, vars, fields, history
<1>17. ASSUME NEW j \in Conns, Restart(j)
       PROVE  SomebodyReconnects'
  BY <1>17 DEF TypeOK, SomebodyReconnects, Deaf, Restart
<1> QED
  BY <1>1, <1>2, <1>3, <1>4, <1>5, <1>6, <1>7, <1>8, <1>9, <1>10, <1>11,
     <1>12, <1>13, <1>14, <1>15, <1>16, <1>17
  DEF Next, Reconnect, Handle, HandleOnClosedChannel, ProcessDies

\* A worker that is not deaf has, whenever it consumes nothing, an attempt to
\* connect under way that is repeated if it fails.
THEOREM ReconnectTheorem == Spec => []SomebodyReconnects
  <1>1. Inductive => TypeOK
    BY DEF Inductive
  <1> QED
    BY <1>1, InitReconnects, StepReconnects, DeliveriesTheorem, PTL DEF Spec

-----------------------------------------------------------------------------
(* SlotAssignment: there is a nearest and a best branch to choose.           *)

\* A set that is finite and not empty has a least element in any total
\* preorder: one that lacks it has a smaller subset that lacks it too.
LEMMA LeastExists ==
    ASSUME NEW S, IsFiniteSet(S), S # {}, NEW R,
           \A x, y \in S : <<x, y>> \in R \/ <<y, x>> \in R,
           \A x, y, z \in S :
               <<x, y>> \in R /\ <<y, z>> \in R => <<x, z>> \in R
    PROVE  \E m \in S : \A x \in S : <<m, x>> \in R
<1> DEFINE Least(T) == \E m \in T : \A x \in T : <<m, x>> \in R
           Bad == {T \in SUBSET S : T # {} /\ ~Least(T)}
<1>1. IsWellFoundedOn(StrictSubsetOrdering(S), SUBSET S)
  BY FS_StrictSubsetOrderingWellFounded, FS_FiniteSubsetsOfFinite
<1>2. ASSUME Bad # {}
      PROVE  FALSE
  <2>1. Bad \subseteq SUBSET S
    OBVIOUS
  <2>2. PICK T \in Bad : \A U \in Bad : ~(<<U, T>> \in StrictSubsetOrdering(S))
    <3> HIDE DEF Bad
    <3> QED
      BY <1>1, <1>2, <2>1, WFMin
  <2>3. \A U \in SUBSET T : U # T => U \notin Bad
    BY <2>2 DEF StrictSubsetOrdering
  <2>4. PICK t \in T : TRUE
    BY <2>2
  <2>5. T \in SUBSET S /\ t \in S /\ ~Least(T)
    BY <2>2, <2>4
  <2> DEFINE U == T \ {t}
  <2>6. CASE U = {}
    <3>1. T = {t}
      BY <2>4, <2>6
    <3> QED
      BY <2>5, <3>1
  <2>7. CASE U # {}
    <3>1. Least(U)
      <4>1. U \in SUBSET T /\ U # T
        BY <2>4
      <4>2. U \notin Bad
        <5> HIDE DEF Bad, U
        <5> QED
          BY <2>3, <4>1
      <4> HIDE DEF U, Least
      <4> QED
        BY <2>5, <2>7, <4>1, <4>2
    <3>2. PICK m \in U : \A x \in U : <<m, x>> \in R
      BY <3>1
    <3>3. CASE <<m, t>> \in R
      BY <2>5, <3>2, <3>3
    <3>4. CASE <<t, m>> \in R
      <4>1. \A x \in U : <<t, x>> \in R
        BY <2>5, <3>2, <3>4
      <4>2. <<t, t>> \in R
        BY <2>5
      <4> QED
        BY <2>4, <2>5, <4>1, <4>2
    <3> QED
      BY <2>5, <3>2, <3>3, <3>4
  <2> QED
    BY <2>6, <2>7
<1>3. S \notin Bad
  BY <1>2
<1> QED
  BY <1>3

\* A sequence has finitely many elements.
LEMMA ElementsAreFinite ==
    ASSUME NEW S, NEW s \in Seq(S)
    PROVE  IsFiniteSet(ToSet(s))
<1>1. DOMAIN s = 1..Len(s) /\ Len(s) \in Nat
  OBVIOUS
<1>2. s \in Surjection(1..Len(s), ToSet(s))
  BY <1>1 DEF Surjection, ToSet
<1>3. IsFiniteSet(1..Len(s))
  BY <1>1, FS_Interval
<1> QED
  BY <1>2, <1>3, FS_Surjection

\* The numbers that branches are compared by.
LEMMA BranchNumbers ==
    /\ IsFiniteSet(Branches)
    /\ \A b \in Branches :
          Position(b) \in Nat /\ Total(b) \in Nat /\ Taken(b) \in Nat
    /\ request.branch \in Branches => \A b \in Branches : Km(b) \in Nat
<1>1. IsFiniteSet(Branches)
  BY ElementsAreFinite, SlotAssignmentAssumption DEF Branches
<1>2. ASSUME NEW b \in Branches
      PROVE  Position(b) \in Nat
  <2>1. DOMAIN ByName \subseteq Nat
    <3>1. ByName \in Seq(Branches)
      BY SlotAssignmentAssumption
    <3> QED
      BY <3>1
  <2>2. \E i \in DOMAIN ByName : ByName[i] = b
    BY DEF Branches, ToSet
  <2> QED
    BY <2>1, <2>2 DEF Position
<1>3. ASSUME NEW b \in Branches
      PROVE  Total(b) \in Nat /\ Taken(b) \in Nat
  <2>1. SlotsOf[b] \in Seq(Slots)
    BY SlotAssignmentAssumption
  <2> DEFINE T == {s \in ToSet(SlotsOf[b]) :
                      slotStatus[s] \in {"OCUPADA", "RESERVADA"}}
  <2>2. T \in SUBSET ToSet(SlotsOf[b])
    OBVIOUS
  <2>3. IsFiniteSet(T)
    BY <2>1, <2>2, ElementsAreFinite, FS_Subset
  <2>4. Cardinality(T) \in Nat
    BY <2>3, FS_CardinalityType
  <2> QED
    BY <2>1, <2>4 DEF Total, Taken
<1>4. request.branch \in Branches => \A b \in Branches : Km(b) \in Nat
  BY SlotAssignmentAssumption DEF Km
<1> QED
  BY <1>1, <1>2, <1>3, <1>4

\* Of several branches there is one that the default policy asks first.
LEMMA NearestExists ==
    ASSUME request.branch \in Branches, NEW T \in SUBSET Branches, T # {}
    PROVE  \E b \in T : \A c \in T : Nearer(b, c)
<1> DEFINE R == {p \in T \X T : Nearer(p[1], p[2])}
<1>1. \A b, c \in T : <<b, c>> \in R <=> Nearer(b, c)
  OBVIOUS
<1>2. IsFiniteSet(T)
  BY BranchNumbers, FS_Subset
<1>3. \A b, c \in T : Nearer(b, c) \/ Nearer(c, b)
  BY BranchNumbers DEF Nearer
<1>4. \A b, c, d \in T : Nearer(b, c) /\ Nearer(c, d) => Nearer(b, d)
  BY BranchNumbers DEF Nearer
<1> HIDE DEF R
<1>5. \E b \in T : \A c \in T : <<b, c>> \in R
  BY <1>1, <1>2, <1>3, <1>4, LeastExists
<1> QED
  BY <1>1, <1>5

\* Fractions are compared by their cross products.
LEMMA FractionsCompare ==
    ASSUME NEW x \in Nat, NEW y \in Nat, NEW z \in Nat,
           NEW l \in Nat, NEW m \in Nat, NEW n \in Nat,
           l > 0, m > 0, n > 0, x * m <= y * l, y * n <= z * m
    PROVE  /\ x * n <= z * l
           /\ x * n = z * l => x * m = y * l /\ y * n = z * m
<1>1. (x * n) * m <= (y * l) * n
  <2>1. (x * m) * n <= (y * l) * n
    OBVIOUS
  <2> QED
    BY <2>1
<1>2. (y * n) * l <= (z * l) * m
  <2>1. (y * n) * l <= (z * m) * l
    OBVIOUS
  <2> QED
    BY <2>1
<1>3. (y * l) * n = (y * n) * l
  OBVIOUS
<1>4. (x * n) * m <= (z * l) * m
  BY <1>1, <1>2, <1>3
<1>5. ASSUME NEW a \in Nat, NEW b \in Nat, a * m <= b * m
      PROVE  a <= b
  BY <1>5
<1>6. x * n <= z * l
  BY <1>4, <1>5
<1>7. ASSUME x * n = z * l
      PROVE  x * m = y * l /\ y * n = z * m
  <2>1. (x * m) * n = (y * l) * n /\ (y * n) * l = (z * m) * l
    BY <1>1, <1>2, <1>3, <1>7
  <2> QED
    BY <2>1
<1> QED
  BY <1>6, <1>7

\* Of several branches that have slots there is one that scores the least.
LEMMA BestExists ==
    ASSUME request.branch \in Branches, NEW T \in SUBSET Branches, T # {},
           \A b \in T : Total(b) > 0
    PROVE  \E b \in T : \A c \in T : Better(b, c)
<1> DEFINE R == {p \in T \X T : Better(p[1], p[2])}
<1>1. \A b, c \in T : <<b, c>> \in R <=> Better(b, c)
  OBVIOUS
<1>2. IsFiniteSet(T)
  BY BranchNumbers, FS_Subset
<1>3. \A b \in T : Score(b) \in Nat /\ Total(b) \in Nat /\ Position(b) \in Nat
  <2>1. \A k, n, p, t \in Nat : k * n + p * t \in Nat
    OBVIOUS
  <2>2. \A b \in T : /\ Km(b) \in Nat /\ Total(b) \in Nat
                   /\ Taken(b) \in Nat /\ Position(b) \in Nat
    BY BranchNumbers
  <2>3. Penalty \in Nat
    BY SlotAssignmentAssumption
  <2> QED
    BY <2>1, <2>2, <2>3 DEF Score
<1>4. \A b, c \in T : Score(b) * Total(c) \in Nat
  BY <1>3
<1>5. \A b, c \in T : Better(b, c) \/ Better(c, b)
  BY <1>3, <1>4 DEF Better
<1>6. ASSUME NEW b \in T, NEW c \in T, NEW d \in T, Better(b, c), Better(c, d)
      PROVE  Better(b, d)
  <2>1. /\ Score(b) * Total(c) <= Score(c) * Total(b)
        /\ Score(c) * Total(d) <= Score(d) * Total(c)
    BY <1>4, <1>6 DEF Better
  <2>2. /\ Score(b) * Total(d) <= Score(d) * Total(b)
        /\ Score(b) * Total(d) = Score(d) * Total(b) =>
              /\ Score(b) * Total(c) = Score(c) * Total(b)
              /\ Score(c) * Total(d) = Score(d) * Total(c)
    BY <1>3, <2>1, FractionsCompare
  <2>3. CASE Score(b) * Total(d) = Score(d) * Total(b)
    <3>1. Position(b) <= Position(c) /\ Position(c) <= Position(d)
      BY <1>4, <1>6, <2>2, <2>3 DEF Better
    <3> QED
      BY <1>3, <2>3, <3>1 DEF Better
  <2>4. CASE Score(b) * Total(d) # Score(d) * Total(b)
    BY <1>4, <2>2, <2>4 DEF Better
  <2> QED
    BY <2>3, <2>4
<1> HIDE DEF R
<1>7. \E b \in T : \A c \in T : <<b, c>> \in R
  BY <1>1, <1>2, <1>5, <1>6, LeastExists
<1> QED
  BY <1>1, <1>7

-----------------------------------------------------------------------------
(* SlotAssignment: what the execution under way knows.                       *)

\* It saw every branch that has room with room, and every full one full.
BranchesAreWatched ==
    pc \in {"claim", "ask", "rank"} => \A b \in Branches :
        b \in (IF HasAvailability(b) THEN hadRoom ELSE wasFull)

\* As long as nobody interferes there is nothing else to see.
NothingHasChanged ==
    quiet /\ pc # "idle" => \A b \in Branches :
        /\ b \in hadRoom <=> HasAvailability(b)
        /\ b \in wasFull <=> ~HasAvailability(b)

\* A branch that has been asked and is no candidate was full.
AskedBranchesWereFull ==
    /\ pc \in {"idle", "claim"} =>
          toAsk = {} /\ candidates = {} /\ suggested = Null
    /\ pc \in {"ask", "rank"} =>
          /\ request.branch \in wasFull /\ suggested = Null
          /\ request.branch \notin toAsk \cup candidates
          /\ candidates \subseteq hadRoom
          /\ \A b \in Branches \ {request.branch} :
                b \in toAsk \cup candidates \cup wasFull
          /\ strategy = "default" => candidates = {}
    /\ pc = "ask" => toAsk # {}
    /\ pc = "rank" =>
          toAsk = {} /\ candidates # {} /\ strategy = "balanced"
    /\ pc = "answered" /\ request.branch = Null => suggested = Null

\* Only a branch that has slots has room.
RoomTakesSlots == \A b \in hadRoom : Total(b) > 0

AssignmentInvariant ==
    /\ AssignmentTypeOK
    /\ BranchesAreWatched /\ NothingHasChanged
    /\ AskedBranchesWereFull /\ RoomTakesSlots
    /\ SuggestionHolds /\ BestWhenQuiet

\* No execution is under way.
LEMMA InitAssignment == AssignmentInit => AssignmentInvariant
<1> SUFFICES ASSUME AssignmentInit
             PROVE  AssignmentInvariant
  OBVIOUS
<1>1. AssignmentTypeOK
  BY DEF AssignmentInit, AssignmentTypeOK, SlotStates
<1>2. BranchesAreWatched /\ NothingHasChanged /\ AskedBranchesWereFull
  BY DEF AssignmentInit, BranchesAreWatched, NothingHasChanged,
     AskedBranchesWereFull
<1>3. RoomTakesSlots /\ SuggestionHolds /\ BestWhenQuiet
  BY DEF AssignmentInit, RoomTakesSlots, SuggestionHolds, BestWhenQuiet
<1> QED
  BY <1>1, <1>2, <1>3 DEF AssignmentInvariant

\* A branch with a free slot has a slot.
LEMMA RoomIsSlots == \A b \in Branches : \A t : Free(b, t) # {} => Total(b) > 0
<1> SUFFICES ASSUME NEW b \in Branches, NEW t, Free(b, t) # {}
             PROVE  Total(b) > 0
  OBVIOUS
<1>1. PICK s \in ToSet(SlotsOf[b]) : TRUE
  BY DEF Free
<1>2. SlotsOf[b] \in Seq(Slots)
  BY SlotAssignmentAssumption
<1>3. DOMAIN SlotsOf[b] = 1..Len(SlotsOf[b]) /\ Len(SlotsOf[b]) \in Nat
  BY <1>2
<1>4. \E i \in 1..Len(SlotsOf[b]) : TRUE
  BY <1>1, <1>3 DEF ToSet
<1> QED
  BY <1>3, <1>4 DEF Total

\* The same after a step.
LEMMA RoomIsSlotsNext ==
    (\A b \in Branches : \A t : Free(b, t) # {} => Total(b) > 0)'
  BY RoomIsSlots, PTL

\* Whoever else writes slots, all that the execution loses is its quiet.
LEMMA OthersAreWatched ==
    AssignmentTypeOK /\ Others =>
        Watch /\ slotStatus' \in [Slots -> SlotStates]
<1> SUFFICES ASSUME AssignmentTypeOK, Others
             PROVE  Watch /\ slotStatus' \in [Slots -> SlotStates]
  OBVIOUS
<1> USE DEF SlotStates
<1>0. slotStatus \in [Slots -> SlotStates]
  BY DEF AssignmentTypeOK
<1>1. ASSUME NEW b \in Branches, NEW t, OthersClaim(b, t)
      PROVE  Watch /\ slotStatus' \in [Slots -> SlotStates]
  BY <1>0, <1>1 DEF OthersClaim, Claim, Write
<1>2. ASSUME NEW s \in Slots,
             NEW status \in {"DISPONIBLE", "OCUPADA", "NO_DISPONIBLE"},
             UpdateStatus(s, status)
      PROVE  Watch /\ slotStatus' \in [Slots -> SlotStates]
  BY <1>0, <1>2 DEF UpdateStatus, Write
<1>3. ASSUME NEW b \in Branches, MarkAllOccupied(b)
      PROVE  Watch /\ slotStatus' \in [Slots -> SlotStates]
  BY <1>0, <1>3 DEF MarkAllOccupied
<1> QED
  BY <1>1, <1>2, <1>3 DEF Others

\* A step of somebody else keeps the invariant.
LEMMA WatchKeeps == AssignmentInvariant /\ Others => AssignmentInvariant'
<1> SUFFICES ASSUME AssignmentInvariant, Others
             PROVE  AssignmentInvariant'
  OBVIOUS
<1>1. /\ UNCHANGED <<strategy, pc, request, toAsk, candidates, suggested>>
      /\ quiet' = FALSE
      /\ IF pc \in {"claim", "ask", "rank"}
         THEN /\ hadRoom' = hadRoom \cup {b \in Branches : HasAvailability(b)'}
              /\ wasFull' =
                    wasFull \cup {b \in Branches : ~HasAvailability(b)'}
         ELSE UNCHANGED <<hadRoom, wasFull>>
      /\ slotStatus' \in [Slots -> SlotStates]
  BY OthersAreWatched DEF AssignmentInvariant, Watch
<1>2. AssignmentTypeOK'
  BY <1>1 DEF AssignmentInvariant, AssignmentTypeOK
<1>3. BranchesAreWatched'
  BY <1>1 DEF BranchesAreWatched
<1>4. NothingHasChanged' /\ BestWhenQuiet'
  BY <1>1 DEF NothingHasChanged, BestWhenQuiet
<1>5. AskedBranchesWereFull'
  BY <1>1 DEF AssignmentInvariant, AssignmentTypeOK, AskedBranchesWereFull
<1>6. RoomTakesSlots'
  <2>1. \A b \in Branches : HasAvailability(b)' => Total(b) > 0
    BY RoomIsSlotsNext DEF HasAvailability, Total
  <2> QED
    BY <1>1, <2>1 DEF AssignmentInvariant, RoomTakesSlots, Total
<1>7. SuggestionHolds'
  BY <1>1 DEF AssignmentInvariant, SuggestionHolds, Km
<1> QED
  BY <1>2, <1>3, <1>4, <1>5, <1>6, <1>7 DEF AssignmentInvariant

\* A step of the execution that writes no slot changes no availability.
LEMMA SlotsStandStill ==
    ASSUME slotStatus' = slotStatus, request' = request
    PROVE  /\ \A b \in Branches : HasAvailability(b)' <=> HasAvailability(b)
           /\ \A b \in Branches : Km(b)' = Km(b)
  BY DEF HasAvailability, Free, Km

\* An execution starts with what it can see at that instant.
LEMMA StartKeeps ==
    ASSUME AssignmentInvariant, NEW branch \in Branches \cup {Null},
           NEW type \in Types \cup {Null}, Start(branch, type)
    PROVE  AssignmentInvariant'
<1>1. /\ pc' = "claim" /\ request' = [branch |-> branch, type |-> type]
      /\ hadRoom' = {b \in Branches : Free(b, type) # {}}
      /\ wasFull' = Branches \ hadRoom' /\ quiet' = TRUE
      /\ UNCHANGED <<slotStatus, strategy, toAsk, candidates, suggested>>
      /\ pc = "idle"
  BY DEF Start, slots
<1>2. \A b \in Branches : HasAvailability(b)' <=> b \in hadRoom'
  BY <1>1 DEF HasAvailability, Free
<1>3. AssignmentTypeOK'
  BY <1>1 DEF AssignmentInvariant, AssignmentTypeOK
<1>4. BranchesAreWatched' /\ NothingHasChanged'
  BY <1>1, <1>2 DEF BranchesAreWatched, NothingHasChanged
<1>5. AskedBranchesWereFull'
  BY <1>1 DEF AssignmentInvariant, AskedBranchesWereFull
<1>6. RoomTakesSlots'
  BY <1>1, RoomIsSlots DEF RoomTakesSlots, Total
<1>7. SuggestionHolds' /\ BestWhenQuiet'
  BY <1>1 DEF SuggestionHolds, BestWhenQuiet
<1> QED
  BY <1>3, <1>4, <1>5, <1>6, <1>7 DEF AssignmentInvariant

\* An execution that is over knows nothing.
LEMMA ForgetKeeps ==
    ASSUME AssignmentInvariant, Forget, strategy' = strategy,
           slotStatus' \in [Slots -> SlotStates]
    PROVE  AssignmentInvariant'
<1>1. AssignmentTypeOK'
  BY DEF AssignmentInvariant, AssignmentTypeOK, Forget
<1>2. BranchesAreWatched' /\ NothingHasChanged' /\ AskedBranchesWereFull'
  BY DEF Forget, BranchesAreWatched, NothingHasChanged, AskedBranchesWereFull
<1>3. RoomTakesSlots' /\ SuggestionHolds' /\ BestWhenQuiet'
  BY DEF Forget, RoomTakesSlots, SuggestionHolds, BestWhenQuiet
<1> QED
  BY <1>1, <1>2, <1>3 DEF AssignmentInvariant

\* The claim of the execution itself.
LEMMA AssignedKeeps == AssignmentInvariant /\ Assigned => AssignmentInvariant'
<1> SUFFICES ASSUME AssignmentInvariant, Assigned
             PROVE  AssignmentInvariant'
  OBVIOUS
<1>1. slotStatus' \in [Slots -> SlotStates]
  BY DEF AssignmentInvariant, AssignmentTypeOK, Assigned, Claim, Write,
     SlotStates
<1> QED
  BY <1>1, ForgetKeeps DEF Assigned

\* There is nothing to claim: the branch was full at that instant.
LEMMA LookElsewhereKeeps ==
    AssignmentInvariant /\ LookElsewhere => AssignmentInvariant'
<1> SUFFICES ASSUME AssignmentInvariant, LookElsewhere
             PROVE  AssignmentInvariant'
  OBVIOUS
<1>1. /\ pc = "claim"
      /\ request.branch # Null => ~HasAvailability(request.branch)
      /\ toAsk' = IF request.branch = Null THEN {}
                                           ELSE Branches \ {request.branch}
      /\ pc' = IF toAsk' = {} THEN "answered" ELSE "ask"
      /\ UNCHANGED <<slotStatus, strategy, request, candidates, suggested,
                     hadRoom, wasFull, quiet>>
  BY DEF LookElsewhere, slots, noted
<1>2. /\ AssignmentTypeOK /\ BranchesAreWatched /\ NothingHasChanged
      /\ AskedBranchesWereFull /\ RoomTakesSlots
  BY DEF AssignmentInvariant
<1>3. request.branch \in Branches \cup {Null}
  BY <1>2 DEF AssignmentTypeOK
<1>4. \A b \in Branches : HasAvailability(b)' <=> HasAvailability(b)
  BY <1>1, SlotsStandStill
<1>5. candidates = {} /\ suggested = Null
  BY <1>1, <1>2 DEF AskedBranchesWereFull
<1>6. request.branch # Null => request.branch \in wasFull
  BY <1>1, <1>2, <1>3 DEF BranchesAreWatched
<1>7. AssignmentTypeOK'
  BY <1>1, <1>2 DEF AssignmentTypeOK
<1>8. BranchesAreWatched' /\ NothingHasChanged'
  BY <1>1, <1>2, <1>4 DEF BranchesAreWatched, NothingHasChanged
<1>9. AskedBranchesWereFull'
  BY <1>1, <1>3, <1>5, <1>6 DEF AskedBranchesWereFull
<1>10. RoomTakesSlots'
  BY <1>1, <1>2 DEF RoomTakesSlots, Total
<1>11. SuggestionHolds'
  <2>1. pc' = "answered" /\ request.branch # Null
            => Branches = {request.branch}
    BY <1>1, <1>3
  <2>2. wasFull \subseteq Branches
    BY <1>2 DEF AssignmentTypeOK
  <2> QED
    BY <1>1, <1>5, <1>6, <2>1, <2>2 DEF SuggestionHolds
<1>12. BestWhenQuiet'
  BY <1>1, <1>5 DEF BestWhenQuiet
<1> QED
  BY <1>7, <1>8, <1>9, <1>10, <1>11, <1>12 DEF AssignmentInvariant

\* The default policy: those that are nearer than the one that it suggests have
\* been asked before.
LEMMA AskNearestKeeps ==
    AssignmentInvariant /\ AskNearest => AssignmentInvariant'
<1> SUFFICES ASSUME AssignmentInvariant, AskNearest
             PROVE  AssignmentInvariant'
  OBVIOUS
<1>0. /\ AssignmentTypeOK /\ BranchesAreWatched /\ NothingHasChanged
      /\ AskedBranchesWereFull /\ RoomTakesSlots
  BY DEF AssignmentInvariant
<1>1. /\ pc = "ask" /\ strategy = "default"
      /\ UNCHANGED <<slotStatus, strategy, request, candidates, hadRoom,
                     wasFull, quiet>>
  BY DEF AskNearest, slots, noted
<1>2. /\ request.branch \in wasFull /\ suggested = Null
      /\ request.branch \notin toAsk /\ candidates = {} /\ toAsk # {}
      /\ \A b \in Branches \ {request.branch} : b \in toAsk \cup wasFull
      /\ wasFull \subseteq Branches /\ hadRoom \subseteq Branches
      /\ toAsk \subseteq Branches
  BY <1>0, <1>1 DEF AskedBranchesWereFull, AssignmentTypeOK
<1>3. request.branch \in Branches
  BY <1>2
<1>first. PICK b : b = CHOOSE x \in toAsk : \A c \in toAsk : Nearer(x, c)
  OBVIOUS
<1>4. b \in toAsk /\ \A c \in toAsk : Nearer(b, c)
  BY <1>2, <1>3, <1>first, NearestExists
<1>5. /\ IF HasAvailability(b)
         THEN suggested' = b /\ UNCHANGED toAsk
         ELSE toAsk' = toAsk \ {b} /\ UNCHANGED suggested
      /\ pc' = IF HasAvailability(b) \/ toAsk' = {} THEN "answered" ELSE "ask"
  BY <1>first DEF AskNearest
<1>6. /\ \A c \in Branches : HasAvailability(c)' <=> HasAvailability(c)
      /\ \A c \in Branches : Km(c)' = Km(c)
  BY <1>1, SlotsStandStill
<1>7. b \in IF HasAvailability(b) THEN hadRoom ELSE wasFull
  BY <1>0, <1>1, <1>2, <1>4 DEF BranchesAreWatched
<1>8. AssignmentTypeOK'
  BY <1>0, <1>1, <1>2, <1>4, <1>5 DEF AssignmentTypeOK
<1>9. BranchesAreWatched' /\ NothingHasChanged'
  <2>1. pc' \in {"ask", "answered"}
    BY <1>5
  <2> QED
    BY <1>0, <1>1, <1>6, <2>1 DEF BranchesAreWatched, NothingHasChanged
<1>10. AskedBranchesWereFull'
  BY <1>1, <1>2, <1>3, <1>4, <1>5, <1>7, SlotAssignmentAssumption
  DEF AskedBranchesWereFull
<1>11. RoomTakesSlots'
  BY <1>0, <1>1 DEF RoomTakesSlots, Total
<1>12. \A c \in Branches \ {request.branch} : Km(c) < Km(b) => c \in wasFull
  <2>1. \A c \in Branches : Km(c) \in Nat
    BY <1>3, BranchNumbers
  <2>2. \A c \in toAsk : Km(b) <= Km(c)
    BY <1>2, <1>4, <2>1 DEF Nearer
  <2> QED
    BY <1>2, <1>4, <2>1, <2>2
<1>13. SuggestionHolds'
  <2>1. CASE HasAvailability(b)
    <3>1. suggested' = b /\ b \in hadRoom' /\ request.branch \in wasFull' \ {b}
      BY <1>1, <1>2, <1>4, <1>5, <1>7, <2>1
    <3>2. \A c \in Branches \ {request'.branch} :
              Km(c)' < Km(b)' => c \in wasFull'
      BY <1>1, <1>2, <1>4, <1>6, <1>12
    <3> QED
      BY <1>1, <3>1, <3>2 DEF SuggestionHolds, Km
  <2>2. CASE ~HasAvailability(b)
    <3>1. suggested' = Null /\ (pc' = "answered" => wasFull' = Branches)
      BY <1>1, <1>2, <1>4, <1>5, <1>7, <2>2
    <3> QED
      BY <3>1 DEF SuggestionHolds
  <2> QED
    BY <2>1, <2>2
<1>14. BestWhenQuiet'
  <2> SUFFICES ASSUME quiet, suggested' # Null,
                      NEW c \in hadRoom \ {request.branch}
               PROVE  CostAtMost(suggested, c)'
    BY <1>1 DEF BestWhenQuiet
  <2>1. suggested' = b
    BY <1>2, <1>5
  <2>2. c \notin wasFull /\ c \in Branches
    BY <1>0, <1>1, <1>2 DEF NothingHasChanged
  <2>3. Km(b) <= Km(c)
    <3>1. Km(b) \in Nat /\ Km(c) \in Nat
      BY <1>2, <1>3, <1>4, <2>2, BranchNumbers
    <3> QED
      BY <1>12, <2>2, <3>1
  <2>4. Distance[request'.branch][suggested'] <= Distance[request'.branch][c]
    BY <1>1, <2>1, <2>3 DEF Km
  <2> QED
    BY <1>1, <2>4 DEF CostAtMost, Km
<1> QED
  BY <1>8, <1>9, <1>10, <1>11, <1>13, <1>14 DEF AssignmentInvariant

\* The balanced policy: the answers sort the other branches into candidates,
\* which had room, and those that were full.
LEMMA AskAvailabilityKeeps ==
    ASSUME AssignmentInvariant, NEW b \in Branches, AskAvailability(b)
    PROVE  AssignmentInvariant'
<1>0. /\ AssignmentTypeOK /\ BranchesAreWatched /\ NothingHasChanged
      /\ AskedBranchesWereFull /\ RoomTakesSlots
  BY DEF AssignmentInvariant
<1>1. /\ pc = "ask" /\ strategy = "balanced" /\ b \in toAsk
      /\ toAsk' = toAsk \ {b}
      /\ candidates' = IF HasAvailability(b) THEN candidates \cup {b}
                                             ELSE candidates
      /\ UNCHANGED <<slotStatus, strategy, request, suggested, hadRoom,
                     wasFull, quiet>>
  BY DEF AskAvailability, slots, noted
<1>2. pc' = IF toAsk' # {} THEN "ask"
            ELSE IF candidates' # {} THEN "rank" ELSE "answered"
  BY DEF AskAvailability
<1>3. /\ request.branch \in wasFull /\ suggested = Null
      /\ request.branch \notin toAsk \cup candidates
      /\ candidates \subseteq hadRoom
      /\ \A c \in Branches \ {request.branch} :
            c \in toAsk \cup candidates \cup wasFull
      /\ wasFull \subseteq Branches /\ toAsk \subseteq Branches
      /\ candidates \subseteq Branches
  BY <1>0, <1>1 DEF AskedBranchesWereFull, AssignmentTypeOK
<1>4. \A c \in Branches : HasAvailability(c)' <=> HasAvailability(c)
  BY <1>1, SlotsStandStill
<1>5. b \in IF HasAvailability(b) THEN hadRoom ELSE wasFull
  BY <1>0, <1>1 DEF BranchesAreWatched
<1>6. AssignmentTypeOK'
  BY <1>0, <1>1, <1>2 DEF AssignmentTypeOK
<1>7. BranchesAreWatched' /\ NothingHasChanged'
  BY <1>0, <1>1, <1>2, <1>4 DEF BranchesAreWatched, NothingHasChanged
<1>8. /\ request'.branch \notin toAsk' \cup candidates'
      /\ candidates' \subseteq hadRoom'
      /\ \A c \in Branches \ {request'.branch} :
            c \in toAsk' \cup candidates' \cup wasFull'
  BY <1>1, <1>3, <1>5
<1>9. AskedBranchesWereFull'
  BY <1>1, <1>2, <1>3, <1>8 DEF AskedBranchesWereFull
<1>10. RoomTakesSlots'
  BY <1>0, <1>1 DEF RoomTakesSlots, Total
<1>11. SuggestionHolds'
  <2>1. pc' = "answered" => wasFull' = Branches
    BY <1>1, <1>2, <1>3, <1>8
  <2> QED
    BY <1>1, <1>3, <2>1 DEF SuggestionHolds
<1>12. BestWhenQuiet'
  BY <1>1, <1>3 DEF BestWhenQuiet
<1> QED
  BY <1>6, <1>7, <1>9, <1>10, <1>11, <1>12 DEF AssignmentInvariant

\* What is neither free nor blocked is taken.
LEMMA TakenIsUsed ==
    AssignmentTypeOK => \A b \in Branches :
        Taken(b) = Cardinality({s \in ToSet(SlotsOf[b]) :
                       slotStatus[s] \notin {"DISPONIBLE", "NO_DISPONIBLE"}})
<1> SUFFICES ASSUME AssignmentTypeOK, NEW b \in Branches
             PROVE  {s \in ToSet(SlotsOf[b]) :
                        slotStatus[s] \in {"OCUPADA", "RESERVADA"}}
                    = {s \in ToSet(SlotsOf[b]) :
                        slotStatus[s] \notin {"DISPONIBLE", "NO_DISPONIBLE"}}
  BY Zenon DEF Taken
<1>1. \A s \in ToSet(SlotsOf[b]) : slotStatus[s] \in SlotStates
  BY DEF AssignmentTypeOK, Slots
<1> QED
  BY <1>1 DEF SlotStates

\* The ranking suggests a candidate, and no other scores less.
LEMMA RankKeeps == AssignmentInvariant /\ Rank => AssignmentInvariant'
<1> SUFFICES ASSUME AssignmentInvariant, Rank
             PROVE  AssignmentInvariant'
  OBVIOUS
<1>0. /\ AssignmentTypeOK /\ BranchesAreWatched /\ NothingHasChanged
      /\ AskedBranchesWereFull /\ RoomTakesSlots
  BY DEF AssignmentInvariant
<1>1. /\ pc = "rank" /\ pc' = "answered"
      /\ UNCHANGED <<slotStatus, strategy, request, toAsk, candidates,
                     hadRoom, wasFull, quiet>>
  BY DEF Rank, slots, noted
<1>2. /\ request.branch \in wasFull /\ request.branch \notin candidates
      /\ candidates \subseteq hadRoom /\ candidates # {}
      /\ \A c \in Branches \ {request.branch} : c \in candidates \cup wasFull
      /\ wasFull \subseteq Branches /\ hadRoom \subseteq Branches
      /\ strategy = "balanced"
  BY <1>0, <1>1 DEF AskedBranchesWereFull, AssignmentTypeOK
<1>3. PICK b : b = CHOOSE x \in candidates :
                       \A c \in candidates : Better(x, c)
  OBVIOUS
<1>4. b \in candidates /\ \A c \in candidates : Better(b, c)
  <2>1. \A c \in candidates : Total(c) > 0
    BY <1>0, <1>2 DEF RoomTakesSlots
  <2>2. candidates \in SUBSET Branches /\ request.branch \in Branches
    BY <1>2
  <2>3. \E x \in candidates : \A c \in candidates : Better(x, c)
    BY <1>2, <2>1, <2>2, BestExists
  <2> QED
    BY <1>3, <2>3
<1>5. suggested' = b
  BY <1>3 DEF Rank
<1>6. \A c \in Branches : HasAvailability(c)' <=> HasAvailability(c)
  BY <1>1, SlotsStandStill
<1>7. AssignmentTypeOK'
  BY <1>0, <1>1, <1>2, <1>4, <1>5 DEF AssignmentTypeOK
<1>8. BranchesAreWatched' /\ NothingHasChanged'
  BY <1>0, <1>1, <1>6 DEF BranchesAreWatched, NothingHasChanged
<1>9. AskedBranchesWereFull'
  BY <1>1, <1>2, SlotAssignmentAssumption DEF AskedBranchesWereFull
<1>10. RoomTakesSlots'
  BY <1>0, <1>1 DEF RoomTakesSlots, Total
<1>11. SuggestionHolds'
  BY <1>1, <1>2, <1>4, <1>5 DEF SuggestionHolds
<1>12. BestWhenQuiet'
  <2> SUFFICES ASSUME quiet, NEW c \in hadRoom \ {request.branch}
               PROVE  CostAtMost(suggested, c)'
    BY <1>1 DEF BestWhenQuiet
  <2>1. c \in candidates /\ b \in Branches /\ c \in Branches
    BY <1>0, <1>1, <1>2, <1>4 DEF NothingHasChanged
  <2>2. Score(b) * Total(c) <= Score(c) * Total(b)
    <3>1. Better(b, c)
      BY <1>4, <2>1
    <3>2. \A x \in {b, c} : Score(x) * Total(b) \in Nat
                            /\ Score(x) * Total(c) \in Nat
      <4>1. \A k, n, p, t \in Nat : k * n + p * t \in Nat
        OBVIOUS
      <4>2. \A k, n \in Nat : k * n \in Nat
        OBVIOUS
      <4>3. \A x \in {b, c} :
                Km(x) \in Nat /\ Total(x) \in Nat /\ Taken(x) \in Nat
        BY <1>2, <2>1, BranchNumbers
      <4>4. Penalty \in Nat
        BY SlotAssignmentAssumption
      <4>5. \A x \in {b, c} : Score(x) \in Nat
        BY <4>1, <4>3, <4>4 DEF Score
      <4> QED
        BY <4>2, <4>3, <4>5
    <3> QED
      BY <3>1, <3>2 DEF Better
  <2> DEFINE Used(x) == Cardinality({s \in ToSet(SlotsOf[x]) :
                        slotStatus[s] \notin {"DISPONIBLE", "NO_DISPONIBLE"}})
  <2>3. /\ Score(b) = Km(b) * Len(SlotsOf[b]) + Penalty * Used(b)
        /\ Score(c) = Km(c) * Len(SlotsOf[c]) + Penalty * Used(c)
    BY <1>0, <2>1, TakenIsUsed DEF Score, Total
  <2> DEFINE Atmost(x, y, at, km) ==
        LET used == [z \in {x, y} |->
                Cardinality({s \in ToSet(SlotsOf[z]) :
                    at[s] \notin {"DISPONIBLE", "NO_DISPONIBLE"}})]
            far == [z \in {x, y} |-> km[z] * Len(SlotsOf[z])]
        IN (far[x] + Penalty * used[x]) * Len(SlotsOf[y])
               <= (far[y] + Penalty * used[y]) * Len(SlotsOf[x])
  <2>4. Atmost(b, c, slotStatus, Distance[request.branch])
    BY <2>2, <2>3 DEF Total, Km
  <2>5. CostAtMost(suggested, c)'
            = Atmost(b, c, slotStatus', Distance[request'.branch])
    BY <1>1, <1>2, <1>5 DEF CostAtMost, Km
  <2> QED
    BY <1>1, <2>4, <2>5
<1> QED
  BY <1>7, <1>8, <1>9, <1>10, <1>11, <1>12 DEF AssignmentInvariant

\* Every step of the execution and of the others keeps the invariant.
LEMMA AssignmentStep ==
    AssignmentInvariant /\ [AssignmentNext]_assignmentVars
        => AssignmentInvariant'
<1> SUFFICES ASSUME AssignmentInvariant, [AssignmentNext]_assignmentVars
             PROVE  AssignmentInvariant'
  OBVIOUS
<1>1. ASSUME NEW branch \in Branches \cup {Null},
             NEW type \in Types \cup {Null}, Start(branch, type)
      PROVE  AssignmentInvariant'
  BY <1>1, StartKeeps
<1>2. CASE Answer
  <2>1. slotStatus' \in [Slots -> SlotStates] /\ strategy' = strategy /\ Forget
    BY <1>2 DEF Answer, slots, AssignmentInvariant, AssignmentTypeOK
  <2> QED
    BY <2>1, ForgetKeeps
<1>3. CASE UNCHANGED assignmentVars
  <2>1. /\ slotStatus' = slotStatus /\ strategy' = strategy /\ pc' = pc
        /\ request' = request /\ toAsk' = toAsk /\ candidates' = candidates
        /\ suggested' = suggested /\ hadRoom' = hadRoom /\ wasFull' = wasFull
        /\ quiet' = quiet
    BY <1>3 DEF assignmentVars, slots, noted
  <2>2. (AssignmentTypeOK /\ AskedBranchesWereFull /\ RoomTakesSlots)'
    BY <2>1 DEF AssignmentInvariant, AssignmentTypeOK, AskedBranchesWereFull,
       RoomTakesSlots, Total
  <2>3. (BranchesAreWatched /\ NothingHasChanged)'
    BY <2>1 DEF AssignmentInvariant, BranchesAreWatched, NothingHasChanged,
       HasAvailability, Free
  <2>4. (SuggestionHolds /\ BestWhenQuiet)'
    BY <2>1 DEF AssignmentInvariant, SuggestionHolds, BestWhenQuiet,
       CostAtMost, Km
  <2> QED
    BY <2>2, <2>3, <2>4 DEF AssignmentInvariant
<1> QED
  BY <1>1, <1>2, <1>3, AssignedKeeps, LookElsewhereKeeps, AskNearestKeeps,
     AskAvailabilityKeeps, RankKeeps, WatchKeeps DEF AssignmentNext, Assign

\* What an assignment under way may rely on.
THEOREM AssignmentInvariantHolds == AssignmentSpec => []AssignmentInvariant
  BY InitAssignment, AssignmentStep, PTL DEF AssignmentSpec

\* The state of the assignment keeps its types.
THEOREM AssignmentType == AssignmentSpec => []AssignmentTypeOK
<1>1. AssignmentInvariant => AssignmentTypeOK
  BY DEF AssignmentInvariant
<1> QED
  BY <1>1, AssignmentInvariantHolds, PTL

\* What is suggested had room while the assignment ran, and what was passed
\* over was full while it ran, for any branches, slots, types and distances and
\* however many others change slots in the meantime.
THEOREM SuggestionTheorem == AssignmentSpec => []SuggestionHolds
<1>1. AssignmentInvariant => SuggestionHolds
  BY DEF AssignmentInvariant
<1> QED
  BY <1>1, AssignmentInvariantHolds, PTL

\* With nobody interfering, no branch with room is better than the suggested.
THEOREM BestTheorem == AssignmentSpec => []BestWhenQuiet
<1>1. AssignmentInvariant => BestWhenQuiet
  BY DEF AssignmentInvariant
<1> QED
  BY <1>1, AssignmentInvariantHolds, PTL
-----------------------------------------------------------------------------
(* RabbitConnection: the queue that its consumer leaves to the backend.      *)

\* A request waits, or is delivered on one connection.
InOnePlace ==
    /\ \A i, j \in Conns :
          unacked[i] # None /\ unacked[i] = unacked[j] => i = j
    /\ ready \cap Delivered = {}

\* A delivery comes from what was waiting.
LEMMA DeliverTakes ==
    ASSUME TypeOK, InOnePlace, NEW i \in Conns, NEW m \in Messages,
           Deliver(i, m)
    PROVE  InOnePlace' /\ Queue!Take(m)
<1> USE RabbitAssumption DEF TypeOK
<1>1. /\ unacked' = [unacked EXCEPT ![i] = m] /\ unacked[i] = None
      /\ m \in ready /\ m # None /\ ready' = ready \ {m}
      /\ acked' = acked /\ dead' = dead
  BY DEF Deliver
<1>2. \A j \in Conns : unacked[j] # m
  BY <1>1 DEF InOnePlace, Delivered
<1>3. Delivered' = Delivered \cup {m}
  BY <1>1 DEF Delivered
<1>4. InOnePlace'
  <2>1. \A j \in Conns : unacked'[j] = IF j = i THEN m ELSE unacked[j]
    BY <1>1
  <2>2. ready' \cap Delivered' = {}
    BY <1>1, <1>3 DEF InOnePlace
  <2> QED
    BY <1>2, <2>1, <2>2 DEF InOnePlace
<1> QED
  BY <1>1, <1>3, <1>4 DEF Queue!Take

\* An answer is to the delivery of that connection, and to no other.
LEMMA AnswerSettles ==
    ASSUME TypeOK, InOnePlace, NEW i \in Conns,
           unacked' = [unacked EXCEPT ![i] = None], ready' = ready,
           (acked \cup dead)' = acked \cup dead \cup ({unacked[i]} \ {None})
    PROVE  InOnePlace' /\ [Queue!QueueNext]_(Queue!queueVars)
<1> USE RabbitAssumption DEF TypeOK
<1>1. \A j \in Conns : unacked'[j] = IF j = i THEN None ELSE unacked[j]
  OBVIOUS
<1>2. Delivered' = Delivered \ {unacked[i]}
  BY <1>1 DEF InOnePlace, Delivered
<1>3. InOnePlace'
  BY <1>1, <1>2 DEF InOnePlace
<1>4. CASE unacked[i] = None
  BY <1>2, <1>3, <1>4 DEF Queue!queueVars, Delivered
<1>5. CASE unacked[i] # None
  <2>1. unacked[i] \in Messages /\ unacked[i] \in Delivered
    BY <1>5 DEF Delivered
  <2>2. Queue!Settle(unacked[i])
    BY <1>2, <1>5, <2>1 DEF Queue!Settle
  <2> QED
    BY <1>3, <2>1, <2>2 DEF Queue!QueueNext
<1> QED
  BY <1>4, <1>5

\* What was delivered on lost connections waits again.
LEMMA RequeueGivesBack ==
    ASSUME TypeOK, InOnePlace, NEW S \in SUBSET Conns, Requeue(S),
           acked' = acked, dead' = dead
    PROVE  InOnePlace' /\ [Queue!QueueNext]_(Queue!queueVars)
<1> USE RabbitAssumption DEF TypeOK
<1> DEFINE back == {unacked[i] : i \in S} \ {None}
<1>1. \A j \in Conns : unacked'[j] = IF j \in S THEN None ELSE unacked[j]
  BY DEF Requeue
<1>2. ready' = ready \cup back /\ back \in SUBSET Delivered
  BY DEF Requeue, Delivered
<1>3. Delivered' = Delivered \ back
  BY <1>1 DEF InOnePlace, Delivered
<1>4. InOnePlace'
  BY <1>1, <1>2, <1>3 DEF InOnePlace
<1>5. Queue!GiveBack(back)
  BY <1>2, <1>3 DEF Queue!GiveBack
<1> QED
  BY <1>2, <1>4, <1>5 DEF Queue!QueueNext

\* Every step of the process, the broker and the faults is one of the queue's,
\* or does not concern it.
LEMMA QueueSteps ==
    TypeOK /\ InOnePlace /\ [Next]_vars
        => InOnePlace' /\ [Queue!QueueNext]_(Queue!queueVars)
<1> SUFFICES ASSUME TypeOK, InOnePlace, [Next]_vars
             PROVE  InOnePlace' /\ [Queue!QueueNext]_(Queue!queueVars)
  OBVIOUS
<1>1. CASE UNCHANGED <<ready, unacked, acked, dead>>
  BY <1>1 DEF InOnePlace, Delivered, Queue!queueVars
<1>2. ASSUME NEW i \in Conns, NEW m \in Messages, Deliver(i, m)
      PROVE  InOnePlace' /\ [Queue!QueueNext]_(Queue!queueVars)
  BY <1>2, DeliverTakes DEF Queue!QueueNext
<1>3. ASSUME NEW i \in Conns, HandleSucceeds(i) \/ HandleFails(i)
      PROVE  InOnePlace' /\ [Queue!QueueNext]_(Queue!queueVars)
  <2>1. /\ unacked' = [unacked EXCEPT ![i] = None] /\ ready' = ready
        /\ (acked \cup dead)' = acked \cup dead \cup ({unacked[i]} \ {None})
    BY <1>3 DEF HandleSucceeds, HandleFails
  <2> QED
    BY <2>1, AnswerSettles
<1>4. ASSUME NEW S \in SUBSET Conns, Requeue(S), acked' = acked, dead' = dead
      PROVE  InOnePlace' /\ [Queue!QueueNext]_(Queue!queueVars)
  BY <1>4, RequeueGivesBack
<1>5. \/ UNCHANGED <<ready, unacked, acked, dead>>
      \/ \E i \in Conns, m \in Messages : Deliver(i, m)
      \/ \E i \in Conns : HandleSucceeds(i) \/ HandleFails(i)
      \/ \E S \in SUBSET Conns : Requeue(S) /\ acked' = acked /\ dead' = dead
  BY DEF Next, Reconnect, OpenSucceeds, Subscribe, OnClose, OpenFails,
     TimerFires, Publish, Connect, PublishLate, Handle, HandleOnClosedChannel,
     Restart, BrokerStops, BrokerStarts, CalmDown, ConnectionLost,
     ChannelClosed, ProcessDies, vars, broker
<1> QED
  BY <1>1, <1>2, <1>3, <1>4, <1>5

\* Whatever becomes of connections, channels and processes, no request
\* vanishes from the queue, none is delivered to two consumers at a time, and
\* one leaves it only by the answer to its delivery.
THEOREM ConsumerKeepsQueue == Spec => ImplementsQueue
<1>1. Init => InOnePlace /\ Queue!QueueInit
  BY DEF Init, InOnePlace, Delivered, Queue!QueueInit
<1>2. TypeOK /\ InOnePlace /\ [Next]_vars
        => InOnePlace' /\ [Queue!QueueNext]_(Queue!queueVars)
  BY QueueSteps
<1> QED
  BY <1>1, <1>2, ConnectionType, PTL DEF Spec, ImplementsQueue,
     Queue!QueueSpec
=============================================================================
