---------------------------- MODULE CircuitBreaker ----------------------------
(* The circuit breaker around the calls to one service, as the gateway, the  *)
(* backend and the payments service instantiate it.                          *)
(*                                                                           *)
(* execute runs on Node's event loop: everything before `await action()` is  *)
(* one step, and so is everything after it, finally included. Any number of  *)
(* calls can be between the two. A call that is rejected while the circuit   *)
(* is open changes nothing and is not a step. Time is counted in ticks.      *)
EXTENDS Integers

CONSTANTS
    Calls,            \* executions of execute that can be in progress
    FailureThreshold,
    ResetTimeout,
    CallTimeout,      \* rxjs timeout of every call that is wrapped
    MaxFailures       \* bound: the counter of failures stops there

\* The services give up on a call in 3 or 5 s; a circuit stays open for 10 s.
ASSUME CircuitBreakerAssumption ==
    /\ FailureThreshold \in Nat \ {0}
    /\ ResetTimeout \in Nat /\ CallTimeout \in Nat
    /\ CallTimeout < ResetTimeout
    /\ MaxFailures \in Nat /\ FailureThreshold <= MaxFailures

VARIABLES
    state,
    consecutiveFailures,
    elapsed,       \* Date.now() - openedAt, up to ResetTimeout
    probeInFlight,
    running,       \* calls whose action is awaited
    age,           \* how long each of them has been running
    healthy,       \* whether the target answers, results and domain errors
    atRisk         \* running calls during which it did not

breakerFields == <<state, consecutiveFailures, elapsed, probeInFlight>>
breakerVars == <<breakerFields, running, age, healthy, atRisk>>

-----------------------------------------------------------------------------
BreakerInit ==
    /\ state = "CLOSED"
    /\ consecutiveFailures = 0
    /\ elapsed = ResetTimeout
    /\ probeInFlight = FALSE
    /\ running = {} /\ atRisk = {}
    /\ age = [c \in Calls |-> 0]
    /\ healthy = TRUE

Begin(c) ==
    /\ c \in Calls \ running
    /\ running' = running \cup {c}
    /\ age' = [age EXCEPT ![c] = 0]
    /\ atRisk' = IF healthy THEN atRisk ELSE atRisk \cup {c}
    /\ UNCHANGED healthy

End(c) ==
    /\ running' = running \ {c}
    /\ atRisk' = atRisk \ {c}
    /\ UNCHANGED <<age, healthy>>

\* execute while the circuit is closed.
ExecuteClosed(c) ==
    /\ state = "CLOSED"
    /\ Begin(c)
    /\ UNCHANGED breakerFields

\* Mutant: a probe in flight does not keep others out.
ExecuteAnyProbe(c) ==
    /\ state # "CLOSED"
    /\ state = "OPEN" => elapsed >= ResetTimeout
    /\ state' = "HALF_OPEN"
    /\ probeInFlight' = TRUE
    /\ Begin(c)
    /\ UNCHANGED <<consecutiveFailures, elapsed>>

\* execute when the circuit has been open long enough: half open, it lets the
\* call through unless there is a probe in flight.
ExecuteProbe(c) ==
    /\ c \notin running
    /\ state # "CLOSED"
    /\ state = "OPEN" => elapsed >= ResetTimeout
    /\ state' = "HALF_OPEN"
    /\ probeInFlight' = TRUE
    /\ IF probeInFlight THEN UNCHANGED <<running, age, atRisk, healthy>>
                        ELSE Begin(c)
    /\ UNCHANGED <<consecutiveFailures, elapsed>>

\* The action resolves, or the target answers with a domain error: onSuccess,
\* whatever the state is by now, and finally.
Succeed(c) ==
    /\ c \in running
    /\ consecutiveFailures' = 0
    /\ state' = "CLOSED"
    /\ probeInFlight' = FALSE
    /\ End(c)
    /\ UNCHANGED elapsed

\* Mutant: execute has no finally block.
FailWithoutFinally(c) ==
    LET failures == IF consecutiveFailures < MaxFailures
                    THEN consecutiveFailures + 1 ELSE consecutiveFailures
        opens == state = "HALF_OPEN" \/ failures >= FailureThreshold
    IN
    /\ c \in atRisk
    /\ consecutiveFailures' = failures
    /\ state' = IF opens THEN "OPEN" ELSE state
    /\ elapsed' = IF opens THEN 0 ELSE elapsed
    /\ End(c)
    /\ UNCHANGED probeInFlight

\* The action fails or times out: onFailure, whatever the state is by now, and
\* finally.
Fail(c) ==
    LET failures == IF consecutiveFailures < MaxFailures
                    THEN consecutiveFailures + 1 ELSE consecutiveFailures
        opens == state = "HALF_OPEN" \/ failures >= FailureThreshold
    IN
    /\ c \in atRisk
    /\ consecutiveFailures' = failures
    /\ state' = IF opens THEN "OPEN" ELSE state
    /\ elapsed' = IF opens THEN 0 ELSE elapsed
    /\ probeInFlight' = FALSE
    /\ End(c)

\* Time passes; a call that has reached its timeout ends first.
Tick ==
    /\ \A c \in running : age[c] < CallTimeout
    /\ age' = [c \in Calls |-> IF c \in running THEN age[c] + 1 ELSE age[c]]
    /\ elapsed' = IF elapsed < ResetTimeout THEN elapsed + 1 ELSE elapsed
    /\ UNCHANGED <<state, consecutiveFailures, probeInFlight, running,
                   healthy, atRisk>>

\* The target stops answering, or fails with an error that is not of the
\* domain, however briefly; the calls in progress may fail with it. Or is back.
GoDown ==
    /\ healthy
    /\ healthy' = FALSE
    /\ atRisk' = running
    /\ UNCHANGED <<breakerFields, running, age>>

ComeBack ==
    /\ ~healthy
    /\ healthy' = TRUE
    /\ UNCHANGED <<breakerFields, running, age, atRisk>>

Execute == \E c \in Calls : ExecuteClosed(c) \/ ExecuteProbe(c)
Return(c) == Succeed(c) \/ Fail(c)

BreakerNext ==
    \/ Execute
    \/ \E c \in Calls : Return(c)
    \/ Tick
    \/ GoDown \/ ComeBack

BreakerSpec == BreakerInit /\ [][BreakerNext]_breakerVars

\* Users keep asking, and every call ends, by its timeout if not before.
BreakerFairSpec ==
    /\ BreakerSpec
    /\ WF_breakerVars(Tick)
    /\ WF_breakerVars(Execute)
    /\ \A c \in Calls : WF_breakerVars(Return(c))

-----------------------------------------------------------------------------
\* The types of the breaker's fields and of the calls in progress.
BreakerTypeOK ==
    /\ state \in {"CLOSED", "OPEN", "HALF_OPEN"}
    /\ consecutiveFailures \in 0..MaxFailures
    /\ elapsed \in 0..ResetTimeout
    /\ probeInFlight \in BOOLEAN
    /\ running \in SUBSET Calls /\ atRisk \in SUBSET running
    /\ age \in [Calls -> 0..CallTimeout]
    /\ healthy \in BOOLEAN

\* "Se deja pasar UNA llamada de prueba": while HALF_OPEN the target serves
\* one call of ours, counting those admitted before the circuit opened.
OnlyTheProbeRuns ==
    state = "HALF_OPEN" => \E c \in Calls : running = {c}

\* The flag that keeps calls out is up exactly while there is a probe whose end
\* will take it down: left up, it would reject every call for ever.
FlagIsHonest ==
    probeInFlight <=> state = "HALF_OPEN"

\* The circuit is closed exactly while fewer failures than the threshold have
\* come in a row, in whatever order old and new calls return.
ClosedMeansFewFailures ==
    state = "CLOSED" <=> consecutiveFailures < FailureThreshold

\* When the target is back for good, the circuit ends up closed for good.
Recovers == <>[]healthy => <>[](state = "CLOSED")

=============================================================================
