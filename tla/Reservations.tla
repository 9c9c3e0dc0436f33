----------------------------- MODULE Reservations -----------------------------
(* A driver asks for a reservation on the branches page. The request goes    *)
(* through the API into the queue, the worker resolves it, and the outcome   *)
(* comes back by another way: RabbitMQ, realtime-service and the socket.     *)
(*                                                                           *)
(* React state is set in callbacks that run one at a time: an action is one  *)
(* callback. The 20 s timer may fire at any moment, since nothing bounds     *)
(* what it races against. The checks and statements of createReservation are *)
(* in module Parking; here they are one step.                                *)
EXTENDS Naturals, Sequences

CONSTANTS
    Branches,
    Requests, \* POSTs the driver makes, numbered (a bound)
    Deaths,   \* those a worker may die handling, once each (a bound)
    None

ASSUME ReservationsAssumption ==
    /\ Requests \subseteq Nat
    /\ None \notin Branches \cup Requests

VARIABLES
    \* BranchesPage and ReservationModal
    page,         \* "branches", or "other": both components are unmounted
    branch,       \* selectedBranch: the modal is open on it
    suggestion,   \* the event whose suggestion is shown
    submitting, pendingRequestId,
    timeoutRef,   \* the request whose timer the reference is to
    timers,       \* requests whose timer is armed
    from,         \* the branch a request was made on, while it matters here
    awaited,      \* requests a mounted handleConfirm awaits
    \* the requests over HTTP
    post,
    \* RabbitMQ and the worker
    asked,        \* the branch in a request's message, while there is one
    queue, working,
    \* the driver's live reservation: the request that made it
    row,
    \* the way back
    wire,         \* events on their way to the page
    \* history
    made,        \* requests that made a reservation
    redelivered, \* requests handed to a worker once more
    told,        \* requests whose reservation the page announced
    hurried      \* the modal was reopened with answers still on their way

view == <<page, branch, suggestion, hurried, told>>
waiting == <<submitting, pendingRequestId, timeoutRef, timers>>
calls == <<from, awaited, post>>
worker == <<asked, queue, working, row, made, redelivered>>
vars == <<view, waiting, calls, worker, wire>>

Statuses == {"CREATED", "SUGGEST_OTHER_BRANCH", "REJECTED"}
Events == [req : Requests, status : Statuses, at : Branches \cup {None}]
Idle == [phase |-> "idle"]
Phases == {"executing", "notified"}

Init ==
    /\ page = "branches" /\ branch = None
    /\ suggestion = None
    /\ submitting = FALSE /\ pendingRequestId = None
    /\ timeoutRef = None /\ timers = {} /\ awaited = {}
    /\ post = [r \in Requests |-> "none"]
    /\ from = [r \in Requests |-> None] /\ asked = from
    /\ queue = <<>> /\ working = Idle
    /\ row = None /\ made = {} /\ redelivered = {}
    /\ wire = <<>>
    /\ told = {} /\ hurried = FALSE

-----------------------------------------------------------------------------
(* The page. *)

\* A request whose answer has not come.
InFlight(r) == post[r] \in {"sent", "queued", "refused"}

\* Mutant: the timer goes on after the wait is over.
StopWaitingOnly ==
    /\ pendingRequestId' = None
    /\ submitting' = FALSE
    /\ UNCHANGED <<timers, timeoutRef>>

StopWaiting ==
    /\ timers' = timers \ {timeoutRef}
    /\ timeoutRef' = None
    /\ pendingRequestId' = None
    /\ submitting' = FALSE

ForgetAllBut(S) ==
    from' = [r \in Requests |-> IF r \in S THEN from[r] ELSE None]

\* "Reservar", on the card of a branch, also of a full one.
BranchCard == page = "branches" /\ branch = None

\* Mutant: reopening the modal leaves the suggestion of the last time.
OpenModalAsItWas(b) ==
    /\ BranchCard
    /\ branch' = b
    /\ hurried' = (hurried \/ \E r \in awaited : InFlight(r))
    /\ StopWaiting
    /\ ForgetAllBut(awaited)
    /\ UNCHANGED <<page, suggestion, told, awaited, post, worker, wire>>

\* onReserve, and the effect on [branch]: all is reset but the answers still on
\* their way.
OpenModal(b) ==
    /\ BranchCard
    /\ branch' = b
    /\ suggestion' = None
    /\ hurried' = (hurried \/ \E r \in awaited : InFlight(r))
    /\ StopWaiting
    /\ ForgetAllBut(awaited)
    /\ UNCHANGED <<page, told, awaited, post, worker, wire>>

\* The modal may be closed at any time; what it waits for it keeps waiting for.
CloseModal ==
    /\ branch # None
    /\ branch' = None
    /\ UNCHANGED <<page, suggestion, hurried, told, waiting, calls, worker,
                   wire>>

\* Both components go; what their callbacks and timers do later shows nowhere.
Unmount ==
    /\ page' = "other" /\ branch' = None
    /\ suggestion' = None
    /\ submitting' = FALSE /\ pendingRequestId' = None
    /\ timeoutRef' = None /\ timers' = {} /\ awaited' = {}
    /\ ForgetAllBut({})
    /\ hurried' = FALSE

LeavePage ==
    /\ page = "branches"
    /\ Unmount
    /\ UNCHANGED <<told, post, worker, wire>>

EnterPage ==
    /\ page = "other"
    /\ page' = "branches"
    /\ UNCHANGED <<branch, suggestion, hurried, told, waiting, calls, worker,
                   wire>>

\* What the buttons of the modal ask for: the branch suggested, or its own.
Offered(b) ==
    /\ branch # None /\ ~submitting
    /\ \/ suggestion # None /\ b = suggestion.at
       \/ suggestion = None /\ b = branch

\* handleConfirm, up to its await. With a date missing it does nothing.
Confirm(r, b) ==
    /\ Offered(b)
    /\ post[r] = "none"
    /\ \A q \in Requests : q < r => post[q] # "none"
    /\ submitting' = TRUE
    /\ awaited' = awaited \cup {r}
    /\ post' = [post EXCEPT ![r] = "sent"]
    /\ from' = [from EXCEPT ![r] = branch]
    /\ asked' = [asked EXCEPT ![r] = b]
    /\ UNCHANGED <<view, pendingRequestId, timeoutRef, timers, queue, working,
                   row, made, redelivered, wire>>

\* Mutant: no timer: only the event ends the wait.
AcceptedUntimed(r) ==
    /\ post[r] = "queued"
    /\ post' = [post EXCEPT ![r] = "done"]
    /\ awaited' = awaited \ {r}
    /\ pendingRequestId' = IF r \in awaited THEN r ELSE pendingRequestId
    /\ UNCHANGED <<view, submitting, timeoutRef, timers, from, worker, wire>>

\* The 202: the request is waited for, and the reference to the timer of an
\* earlier one that was not stopped is lost.
Accepted(r) ==
    /\ post[r] = "queued"
    /\ post' = [post EXCEPT ![r] = "done"]
    /\ awaited' = awaited \ {r}
    /\ IF r \in awaited
       THEN /\ pendingRequestId' = r
            /\ timeoutRef' = r
            /\ timers' = timers \cup {r}
       ELSE UNCHANGED <<pendingRequestId, timeoutRef, timers>>
    /\ UNCHANGED <<view, submitting, from, worker, wire>>

\* The catch of handleConfirm.
Refused(r) ==
    /\ post[r] = "refused"
    /\ post' = [post EXCEPT ![r] = "done"]
    /\ awaited' = awaited \ {r}
    /\ submitting' = (submitting /\ r \notin awaited)
    /\ UNCHANGED <<view, pendingRequestId, timeoutRef, timers, from, worker,
                   wire>>

\* 20 s later: "your request is still queued".
TimerFires(r) ==
    /\ r \in timers
    /\ timers' = timers \ {r, timeoutRef}
    /\ timeoutRef' = None
    /\ pendingRequestId' = None
    /\ submitting' = FALSE
    /\ UNCHANGED <<view, calls, worker, wire>>

\* Mutant: the handler does not compare requestId with the one it waits for.
OnResolvedOfAny ==
    /\ wire # <<>>
    /\ wire' = Tail(wire)
    /\ page = "branches" /\ pendingRequestId # None
    /\ Head(wire).status = "CREATED"
    /\ Unmount
    /\ told' = told \cup {pendingRequestId}
    /\ UNCHANGED <<post, worker>>

\* reservation.request.resolved: on to /mi-reserva, or a suggestion, or an
\* error message. The event of any other request is ignored, also when it is
\* the one whose 202 has not come.
OnResolved ==
    /\ wire # <<>>
    /\ wire' = Tail(wire)
    /\ LET e == Head(wire) IN
       \/ /\ page # "branches" \/ pendingRequestId # e.req
          /\ UNCHANGED <<view, waiting, from, awaited>>
       \/ /\ page = "branches" /\ pendingRequestId = e.req
          /\ e.status = "CREATED"
          /\ Unmount
          /\ told' = told \cup {e.req}
       \/ /\ page = "branches" /\ pendingRequestId = e.req
          /\ e.status # "CREATED"
          /\ StopWaiting
          /\ suggestion' = IF e.status = "REJECTED" THEN suggestion ELSE e
          /\ UNCHANGED <<page, branch, hurried, told, from, awaited>>
    /\ UNCHANGED <<post, worker>>

-----------------------------------------------------------------------------
(* The API and the queue. *)

MessageGone(r) == asked' = [asked EXCEPT ![r] = None]

\* The exchange routes the request, persistent, to the durable queue.
Publish(r) == queue' = Append(queue, r)

\* Without the broker's confirmation the request is refused, be it queued or
\* not; the answer may also be lost on its way.
RequestReservation(r) ==
    \/ /\ Publish(r) /\ asked' = asked
       /\ post' \in {[post EXCEPT ![r] = p] : p \in {"queued", "refused"}}
    \/ /\ queue' = queue /\ MessageGone(r)
       /\ post' = [post EXCEPT ![r] = "refused"]

\* POST /reservations and POST /reservations/confirm-suggestion.
Enqueue(r) ==
    /\ post[r] = "sent"
    /\ RequestReservation(r)
    /\ UNCHANGED <<view, waiting, from, awaited, working, row, made,
                   redelivered, wire>>

-----------------------------------------------------------------------------
(* The worker: one request at a time. *)

\* A message without requestId, userId or branchId is dead-lettered; the API
\* sends none.
Deliver ==
    /\ working = Idle /\ queue # <<>>
    /\ working' = [phase |-> "executing", req |-> Head(queue)]
    /\ queue' = Tail(queue)
    /\ UNCHANGED <<view, waiting, calls, asked, row, made, redelivered, wire>>

Resolution(r, status, at) ==
    [phase |-> "resolved", req |-> r, status |-> status, at |-> at]

\* Another branch that has a free slot, the nearest of them or the best by
\* distance and occupancy.
Suggestable(r) == Branches \ {asked[r]}

\* assign, of either policy: a slot of the branch that was asked for, another
\* branch, or neither.
Assign(r) ==
    {Resolution(r, "CREATED", None), Resolution(r, "REJECTED", None)}
    \cup {Resolution(r, "SUGGEST_OTHER_BRANCH", b) : b \in Suggestable(r)}

\* Mutant: an error after the INSERT is taken for a rejection.
ExecuteWithEmail ==
    /\ working.phase = "executing" /\ row = None
    /\ row' = working.req /\ made' = made \cup {working.req}
    /\ \E status \in {"CREATED", "REJECTED"} :
          working' = Resolution(working.req, status, None)
    /\ UNCHANGED <<view, waiting, calls, asked, queue, redelivered, wire>>

\* execute: createReservation checks that the driver has none, and makes one
\* or suggests another branch; a DomainError is an answer like those.
Execute ==
    /\ working.phase = "executing"
    /\ LET r == working.req IN
       /\ working' \in IF row = None THEN Assign(r)
                        ELSE {Resolution(r, "REJECTED", None)}
       /\ IF working'.status = "CREATED"
          THEN row' = r /\ made' = made \cup {r}
          ELSE UNCHANGED <<row, made>>
    /\ UNCHANGED <<view, waiting, calls, asked, queue, redelivered, wire>>

\* Any other error sends the message to the dead letter queue, that nobody
\* consumes. Its INSERT may have been made, and its answer lost.
ExecuteFails ==
    /\ working.phase = "executing"
    /\ working' = Idle
    /\ MessageGone(working.req)
    /\ \/ UNCHANGED <<row, made>>
       \/ row = None /\ row' = working.req /\ made' = made \cup {working.req}
    /\ UNCHANGED <<view, waiting, calls, queue, redelivered, wire>>

\* The event is published without waiting. It is lost if the publication
\* fails, which is only logged, or if no relay has a queue on the exchange.
Notify ==
    /\ working.phase = "resolved"
    /\ working' = [phase |-> "notified", req |-> working.req]
    /\ wire' \in {wire, Append(wire, [req |-> working.req, at |-> working.at,
                                   status |-> working.status])}
    /\ UNCHANGED <<view, waiting, calls, asked, queue, row, made, redelivered>>

Ack ==
    /\ working.phase = "notified"
    /\ working' = Idle
    /\ MessageGone(working.req)
    /\ UNCHANGED <<view, waiting, calls, queue, row, made, redelivered, wire>>

\* The worker or its connection dies: the broker requeues the message.
WorkerDies ==
    /\ working # Idle
    /\ working.req \in Deaths \ redelivered
    /\ queue' = <<working.req>> \o queue
    /\ redelivered' = redelivered \cup {working.req}
    /\ working' = Idle
    /\ UNCHANGED <<view, waiting, calls, asked, row, made, wire>>

\* The reservation expires, is cancelled or used.
ReservationEnds ==
    /\ row # None
    /\ row' = None
    /\ UNCHANGED <<view, waiting, calls, asked, queue, working, made,
                   redelivered, wire>>

-----------------------------------------------------------------------------
(* realtime-service and the socket. *)

\* The relay reconnects: its queue was exclusive and went with what it held,
\* the events that were not sent to the socket yet.
RelayReconnects ==
    /\ \E n \in DOMAIN wire : wire' = SubSeq(wire, 1, n - 1)
    /\ UNCHANGED <<view, waiting, calls, worker>>

\* The socket reconnects and joins the room of its user again: what was
\* emitted to it is lost.
SocketReconnects ==
    /\ \E n \in DOMAIN wire : wire' = SubSeq(wire, n + 1, Len(wire))
    /\ UNCHANGED <<view, waiting, calls, worker>>

-----------------------------------------------------------------------------
Next ==
    \/ \E b \in Branches : OpenModal(b)
    \/ CloseModal \/ LeavePage \/ EnterPage
    \/ \E r \in Requests, b \in Branches : Confirm(r, b)
    \/ \E r \in Requests :
          Enqueue(r) \/ Accepted(r) \/ Refused(r) \/ TimerFires(r)
    \/ OnResolved
    \/ Deliver \/ Execute \/ ExecuteFails \/ Notify \/ Ack
    \/ WorkerDies \/ ReservationEnds
    \/ RelayReconnects \/ SocketReconnects

Spec == Init /\ [][Next]_vars

\* The API answers every POST, or the connection fails; timers fire.
FairSpec ==
    /\ Spec
    /\ \A r \in Requests : /\ WF_vars(Enqueue(r))
                           /\ WF_vars(Accepted(r) \/ Refused(r))
                           /\ WF_vars(TimerFires(r))

-----------------------------------------------------------------------------
SomeBranch == Branches \cup {None}

TypeOK ==
    /\ page \in {"branches", "other"}
    /\ branch \in SomeBranch
    /\ suggestion \in Events \cup {None}
    /\ submitting \in BOOLEAN /\ hurried \in BOOLEAN
    /\ pendingRequestId \in Requests \cup {None}
    /\ timeoutRef \in Requests \cup {None}
    /\ timers \subseteq Requests /\ awaited \subseteq Requests
    /\ post \in [Requests -> {"none", "sent", "queued", "refused", "done"}]
    /\ from \in [Requests -> SomeBranch] /\ asked \in [Requests -> SomeBranch]
    /\ queue \in Seq(Requests)
    /\ row \in Requests \cup {None}
    /\ working \in {Idle} \cup [phase : Phases, req : Requests] \cup
                  [phase : {"resolved"}, req : Requests, status : Statuses,
                   at : SomeBranch]
    /\ wire \in Seq(Events)
    /\ made \subseteq Requests /\ told \subseteq Requests
    /\ redelivered \subseteq Requests

\* Whatever the order of answers, events, timers and reopenings: a request
\* that is waited for has its timer armed, and the reference is to it.
WaitIsTimed ==
    /\ pendingRequestId = timeoutRef
    /\ timeoutRef # None => timeoutRef \in timers

\* A driver who does not reopen the modal with answers still on their way sees
\* in it only a suggestion made for a request sent from its branch. He has one
\* request in flight at most, and no timer but the one of the request waited
\* for can cut his wait short.
PatientDriver ==
    ~hurried =>
        /\ branch # None /\ suggestion # None =>
              from[suggestion.req] = branch
        /\ timers \subseteq {timeoutRef}
        /\ \A r, q \in awaited : r = q
        /\ awaited # {} => submitting /\ timeoutRef = None

\* What is on its way to the driver.
Answers == {wire[i] : i \in DOMAIN wire}

\* "Reserva creada" is only said of a request that made a reservation, however
\* many requests the driver sent and whatever order their outcomes come in.
HonestAnswer ==
    /\ told \subseteq made
    /\ \A e \in Answers : e.status = "CREATED" => e.req \in made

\* A request that made a reservation is answered REJECTED only when a worker
\* died before it acked it.
RejectedOnRedelivery ==
    \A e \in Answers :
        e.status = "REJECTED" /\ e.req \in made => e.req \in redelivered

\* The page never waits for ever: not for an event that was lost, that came
\* before the 202, or that is of another request.
WaitEnds == submitting ~> ~submitting

\* The queue between the API and the worker is the one RabbitConnection has.
Queued == {queue[i] : i \in DOMAIN queue}
Delivered == IF working = Idle THEN {} ELSE {working.req}
Settled ==
    {r \in Requests : post[r] \notin {"none", "sent"}}
        \ (Queued \cup Delivered)
Queue == INSTANCE RequestQueue
             WITH Messages <- Requests, waiting <- Queued, taken <- Delivered,
                  settled <- Settled
ImplementsQueue == Queue!QueueSpec
=============================================================================
