# A verification of the Smart Parking System

The repository is a parking management system: a NestJS backend with its reservation
worker, a payments service, an authentication service, a gateway, a React frontend, and
small services for realtime events, e-mail and audit, with RabbitMQ, Kafka and one
PostgreSQL database per service between them. This directory holds TLA+ modules of the
parts where order, interleaving and failure matter, TLC configurations that check them on
small instances, and theorems that TLAPS checks for every value of the constants.

Nothing in the backend, in payments or in authentication opens a database transaction:
every handler is a sequence of single SQL statements, and several processes run handlers
at once. The gateway gives up on a call after 3 s while the service goes on with it, and
the browser shows what the last answer, event or timer left on the page. That is where
most of what could go wrong comes from, and where the models begin.

## 1. Inventory

| Component | State it keeps | Operations | Interacts by | What is hard | What makes it correct | Modules |
|---|---|---|---|---|---|---|
| Parking core (`backend/src/core`, Prisma repositories) | `parking_slots.status`, `reservations`, `parking_sessions` | create, cancel, enter, exit, expire, report blocked, simulate full | SQL; quotes and payments over gRPC; the queue | handlers overlap statement by statement; a process dies between two statements; decisions on rows read earlier | a slot is one driver's; a reserved slot is never forgotten; a stay is closed only when paid; nothing expires early | `Parking`, `ParkingReplicas`, `ParkingSerial`, `ParkingLot` |
| Slot assignment, reservation, pricing policies (`core/domain/policies`) | none | choose a slot or suggest a branch; eligibility; price | called by the core | branches read at different instants; an order kept by whoever writes; rounding | a suggestion had room, nothing better was passed over unseen; no slot is forgotten | `SlotAssignment`, `Parking`, `Reservations` |
| Payments service | `payments`, one row per session | register, top up, query | gRPC both ways, RabbitMQ events | two requests for one session; a charge without a row | nobody pays twice; the amount on record was charged | `Payments`, `PaymentLedger` |
| Reservation request queue (`reservation-request.consumer.ts`, `process-reservation-request.use-case.ts`) | messages, acks | publish, consume, ack, nack | RabbitMQ, realtime event back to the browser | redelivery, an answer that overtakes the 202 | a request is acked only when processed; none is withheld; the driver is told what became of it | `Reservations`, `RabbitConnection` |
| RabbitMQ connection (`rabbitmq.connection.ts`) | channel, attempt under way, timer | connect, reconnect, resubscribe | amqplib events | a broker that is down; a channel closed alone; an old connection closing late | a worker ends up subscribed | `RabbitConnection` |
| Circuit breaker (three identical copies) | state, failures in a row, `openedAt`, probe flag | `execute` | wraps each gRPC call | calls that end long after the circuit changed | one probe; a flag never stuck; recovery | `CircuitBreaker` |
| Auth service: registration, login, Google, Facebook, MFA | `users`, MFA columns | register, log in, set up, confirm, verify, disable | gRPC from the gateway | one row of credentials read, used and written back; first logins racing | one account per address; a code is used up once; an account asks for the factor the phone has | `SignUp`, `MfaLogin`, `SignIn` |
| Realtime notifications | rooms of sockets, the relay's exclusive queue | publish, relay, join | fanout exchange, socket.io | occupancy snapshots out of order, reconnections | the last one shown is the current one | `Occupancy`, `Publications` |
| Audit service | `audit_events`, an offset | consume, append, list | Kafka | repeated events, crashes before a commit | one row per event, none passed over | `EventLog`, `Publications` |
| Notifications service | an offset | consume, send a mail | Kafka, SMTP | repeated events, failures reported late | a mail per event, and no message holds up the rest | `EventLog`, `Publications` |
| Gateway | none beyond the breaker | proxy, verify tokens, map errors | HTTP, gRPC | it answers for a call that goes on | - | timeouts and answers in the modules of the calls |
| Frontend: reserving a slot (`ReservationModal.tsx`) | the modal's pending request, its timer | open, confirm, wait, close | HTTP, socket | event before answer; timers and answers that outlive the modal | the wait always ends; the answer shown is the request's | `Reservations` |
| Frontend: my reservation (`MyReservationPage.tsx` and its cards) | three lists, a QR code, pending buttons | enter, cancel, pay, exit, refresh | HTTP | lists landing out of order; codes that expire | the page shows what it said; a driver can leave | `MyStay` |
| Frontend: register, login, security | pending buttons, Facebook's SDK, phases of the MFA page | as auth | HTTP | late and lost answers, a script that fails | buttons come back; the page agrees with the row | `SignUp`, `MfaLogin` |
| Frontend: administration | fetched tables | show | HTTP, socket | a fetch overtaken by an event | the last occupancy is shown | `Occupancy` (its occupancy section) |
| Queries, reports, QR codes | none | read, sign, verify | - | codes age | - | QR codes' time in `MyStay` |
| Bootstrap, metrics, tooling | none | - | - | - | - | - |

`PROJECT.json` lists the same components with their files and status, and under
`hazards` the places of this code that tests hardly reach, with the properties that
watch each.

## 2. The modules

| Module | Models | Code |
|---|---|---|
| `Parking` | slots, reservations, sessions; worker, HTTP calls, sweeps; failures | `core/application/use-cases/{reservations,parking,admin}`, `default-parking.policy.ts`, the three Prisma repositories |
| `ParkingInvariant` | what a running handler may rely on: the inductive invariant | - |
| `ParkingLot` | abstract: what the backend promises about slots | - |
| `ParkingReplicas` | `Parking` with a record of which executions of CreateReservation overlapped | - |
| `ParkingSerial` | `Parking` with one handler at a time and no failure, and its mapping to `ParkingLot` | - |
| `SlotAssignment` | one assignment under either policy, and the slots of every branch meanwhile | the two slot assignment policies, `policies.module.ts`, `prisma-parking-slot.repository.ts`, `prisma-branch.repository.ts`, `branch.entity.ts` |
| `Payments` | RegisterPayment for one session | `register-payment.use-case.ts`, `prisma-payment.repository.ts` |
| `PaymentLedger` | abstract: what the backend expects of the payments service | - |
| `RabbitConnection` | a worker's connection, its reconnection, and the consumer on it | `rabbitmq.connection.ts`, `reservation-request.consumer.ts` |
| `RequestQueue` | abstract: what the API and the worker expect of the queue between them | - |
| `CircuitBreaker` | `execute` and the calls it awaits | `circuit-breaker.ts` |
| `Reservations` | a driver's requests: modal, API, queue, worker, relay, socket | `ReservationModal.tsx`, `BranchesPage.tsx`, `request-reservation.use-case.ts`, `process-reservation-request.use-case.ts`, `rabbitmq-reservation-queue.adapter.ts`, the assignment policies |
| `Occupancy` | snapshots of a branch from the slot that changes to the page that shows them | `rabbit-realtime-publisher.adapter.ts`, `relay.ts`, `useBranchRooms.ts`, `BranchesPage.tsx`, `OccupancySection.tsx` |
| `EventLog` | events on Kafka, the audit and the mailer | the two `consumer.ts`, the audit store, the producers |
| `Publications` | composes `Occupancy` and `EventLog`: everything that leaves the backend by a broker | - |
| `SignUp` | how an account comes to be, four ways racing | `register-user`, `login-with-google`, `login-with-facebook` use cases, `RegisterPage.tsx`, `LoginPage.tsx`, `facebook.ts` |
| `MfaLogin` | the second factor of one account | the MFA use cases, `login-user.use-case.ts`, `SecurityPage.tsx`, `MfaChallengePage.tsx` |
| `SignIn` | composes `SignUp` and `MfaLogin`: auth-service and its pages | - |
| `MyStay` | a driver's page from the reservation to the exit, and the rows behind it | `MyReservationPage.tsx`, `AwaitingEntryCard.tsx`, `ActiveSessionCard.tsx`, `ReadyToExitCard.tsx`, the entry, exit, cancel and payment use cases statement by statement |
| `MCParking`, `MCParkingReplicas`, `MCParkingSerial`, `MCSlotAssignment`, `MCPayments` | symmetry sets and the values of structured constants | - |
| `Backend_proofs` | the theorems about `CircuitBreaker`, `RabbitConnection` and `SlotAssignment` | - |
| `..._proofs`, seven others | the theorems about `Parking`, `ParkingSerial`, `Payments`, `Reservations`, `Publications`, `SignIn`, `MyStay` | - |

`Publications` and `SignIn` hold two ways each that share no state. A behaviour follows
one of them (`way`), so that the states to check are the sum of both and not their
product, while the proofs are about both at once. `Backend_proofs` extends three
components that share nothing, which is why the definitions of `CircuitBreaker` are called
`BreakerInit`, `BreakerSpec`, `BreakerTypeOK`, those of `SlotAssignment` `AssignmentInit`
and so on, and why the absent branch or type of the latter is `Null`.

### Parking

One action per SQL statement, or per statement together with the clock reading just
before it. The variables `slotStatus`, `res`, `session` are the tables; `paid` is what
the payments service would answer; `worker`, `call`, `sweep` hold what each running
handler has in its local variables, with a label for the next statement. A few
correspondences that are easy to miss:

- `CreateClaim` is one step because the claim is one `UPDATE ... WHERE id = (SELECT ...
  FOR UPDATE SKIP LOCKED)`; the check of an active reservation (`StartCreate`) and the
  INSERT (`CreateInsert`) are others. Both assignment policies take some free slot of
  the branch, so the action takes any; which one is in `SlotAssignment`. The clock that
  dates the reservation is read after the claim (`CreateReadsClock`).
- `EntryConfirm` writes `CONFIRMED` when the reservation was `PENDING` when the call
  read it, not when the statement runs. `seen` is that reading.
- `EntryCreate` fails when the reservation has a session: `reservationId` is unique. A
  failed statement ends the handler.
- `StartExit`, `ExitCheckPayment`, `ExitRecheck`: the use case and the policy both look
  the session and the payment up; only the use case compares the amount with the price.
  The policy's two look-ups are one step, since a payment once approved stays approved.
- `ExitRelease` comes before `ExitClose` in the code, so that for a moment the slot is
  free and its reservation still live. `HeldFirmly` in the invariant is about that
  moment.
- `orphaned` is history: slots whose handler died owing them a statement. Failures of a
  statement and deaths of a process are the same action, since nothing is undone in
  either case.

`ParkingReplicas` adds two variables of history and changes no step: `since`, the rows
inserted since an execution of CreateReservation began, and `overlaps`, the pairs of rows
whose executions overlapped so that the later one could not have seen the earlier row.
`ParkingSerial` adds `evicted`, the rows cancelled while their car was parked.

Left out: vehicles, e-mails, audit records and realtime events that handlers publish at
their end (they change none of these tables), branch suggestion (it writes nothing), and
the ownership checks, which reject a call before its first statement.

### SlotAssignment

`assign` of both policies, chosen once (`strategy`), a step per statement. `updated` has
the slots of a branch in the order of `updatedAt`, which `updateStatus` sets through
Prisma and the two claims in their SQL (`Write`). The default policy asks the other
branches for room one by one, the nearest first (`AskNearest`); the balanced one asks
all at once, in any order of the answers (`AskAvailability`), then reads the occupancies
of those with room and ranks them (`Rank`). `Score` is the code's score times the number of
slots, to stay within the integers; distances are given. `OthersClaim`, `UpdateStatus`
and `MarkAllOccupied` are everybody else's writes. `hadRoom`, `wasFull` and `quiet` are
history: what a branch was at some instant since the execution began.

What the model shows of the code: with no availability anywhere as the answer, there may
have been room somewhere at every instant; and a slot reported blocked counts as not taken
in the score (`prisma-parking-slot.repository.ts:117`), so that a branch with one slot
that works and the rest blocked ranks as an empty one.

### Payments

The session's row and any number of requests to pay: quote, look-up, charge, INSERT, or
the two statements of `increaseAmount`. Amounts are billable hours, so that the
tolerance of a cent disappears. All four payment methods approve any positive amount,
and no other is charged. `CallFails` leaves a charge without a row: there is no
compensation in the code. `disturbed` is history: two requests have overlapped, or one
has failed.

`Parking`'s action `Pay` is the view of this service from the backend: the amount on
record goes up to a quote taken during the stay. `PaymentLedger` states it.
`Payments_proofs` shows that the service keeps it as long as requests for one session
come one at a time and none fails, and `Parking_proofs` that `Pay` says the same: the
ledger of each stay allows no other payment, and each record it allows is one.

### RabbitConnection

The fields of `RabbitMqConnection` are variables of the same names; `asker` stands for
the promise chain that awaits `connecting`, because only the timer's chain schedules
another attempt. `conn` follows each connection from `amqp.connect` to its `close`
event; `lost` is a connection the broker knows to be gone and the process does not. A
handler keeps the channel it was called with, so `handling` is per connection and
outlives it.

From amqplib and RabbitMQ (external, as the code uses them): unacknowledged messages go
back to the queue when their connection is lost; writing to a dead socket has no effect;
`ack` and `nack` on a channel known to be closed throw. The nack in the catch block then
throws out of an async function nobody awaits, and Node ends the process on an unhandled
rejection; Docker restarts it. That is `HandleOnClosedChannel`.

Opening fails when the broker is down, and at any time until the faults are over: connect,
createChannel and the declaration of the topology can each be refused. A channel may be
closed alone as soon as it is open, before or after `consume`: the worker is then
connected and deaf (`mute`) until its connection is lost as well.

`RequestQueue` is what the rest of the backend may expect of all this: a request is
waiting, taken or settled, never lost, and goes back when whoever took it goes away.
`RabbitConnection` implements it from the consumer's side, `Reservations` uses it from the
API's: both are mapped to it (`ImplementsQueue`), so that the second assumes nothing of
the queue that the first does not provide.

### CircuitBreaker

Everything before `await action()` is one step of Node's event loop and so is everything
after it, `finally` included. `elapsed` is `Date.now() - openedAt`, cut at
`ResetTimeout`; `atRisk` are the calls in progress while the target did not answer, the
only ones that can fail. A domain error counts as a success, as in `isFailure`; any other
error of a service that runs is an outage as long as the error, `GoDown` and `ComeBack`
around it, so that `Recovers` speaks of a target that has stopped making them. The
assumption `CallTimeout < ResetTimeout` is that of every instantiation: 3 s in the
gateway and 5 s in the other services against 10 s.

### Reservations

One driver, his page, his requests. React state changes in callbacks that run one at a
time, so an action is one callback of `ReservationModal` or `BranchesPage`; the variables
`submitting`, `pendingRequestId`, `timeoutRef` are theirs, and `timers` are the timers
that are really armed, which the reference may have lost sight of. A correspondence that
is easy to miss: `OnResolved` compares the event with `pendingRequestId` only, which the
202 sets (`Accepted`), so that an event that overtakes its 202 is dropped. `Execute` is
the whole of createReservation, whose statements are in `Parking`, and any answer of
either assignment policy is possible; `ExecuteFails` stops it before its INSERT or after.
`WorkerDies` puts the message back at the head of the queue. `RelayReconnects` loses the
events from some point on, `SocketReconnects` those up to some point. `hurried` is
history: the modal was opened again with an answer still on its way.

What the model shows of the code, and the properties make exceptions for: the 202 of a
request may come after the modal was opened on another branch, and then a suggestion
made for the first branch is shown on the second; the timer of the first request is not
stopped by the second and can cut its wait short; a lost confirmation of the broker is
told as a 503 although the request is queued; a redelivered request is answered
`RESERVATION_ALREADY_ACTIVE` although it has the reservation.

### Publications: Occupancy and EventLog

`Occupancy` names a summary by the number of changes it has seen. `ChangeSlots` stands
for every operation that calls `notifyOccupancyUpdated`; nobody awaits the reading
(`ReadSummary`) and the publication (`PublishSummary`), so two may swap. `lost` and
`disorder` are history. `joined` is set by the effect of `useBranchRooms`, that does not
run again when the socket reconnects: from then on a driver's page gets no event, while
its heading (`BranchesPage.tsx:56`) goes on promising real time. Administrators are joined
by the server at every connection.

`EventLog` has one log, consumed by two groups. A commit may come at any time, as
kafkajs commits on its own schedule, and a crash goes back to it. The audit begins at the start
of the topic and inserts `ON CONFLICT DO NOTHING`; the mailer begins at the end, so that
what was published before its first commit may never be sent, retries in process and
goes on after the last attempt. Kafka, and kafkajs's retries, are external: an event may
be logged twice or not at all.

### SignIn: SignUp and MfaLogin

In `SignUp` an attempt is one click of the register form, of Google's or of Facebook's
button, each disabled by a flag of its own. The look-up and the INSERT of auth-service
are separate steps (`Finds`, `Creates`); the unique index makes the second INSERT fail
with an error that is not of the domain, answered as 503. `loadSdk` keeps one promise
and one script element: after `onerror` the element stays, no other is added, and the
next click waits for an event that has passed.

In `MfaLogin` each operation is a reading and a writing of the user's row. `ConfirmWrites`
writes no secret: it enables the one that is there by then. `VerifyWrites` writes back
the list of backup codes it has read. `Answer`, `OnTimeout` and `OnLoginTimeout` are the
gateway's: after a timeout the answer has no reader. `phone` is what the app has scanned
and `pad` what the driver has noted. `overlapped`, `crossed` and `doubt` are history,
and name the exceptions the properties make. Limiting the attempts is left out: it only
refuses.

### MyStay

One reservation, its session and its payment, and the page with its buttons. A refresh
is four requests, three of which matter, each answered when it is; the page shows the
lists of the refresh that landed last, not of the one that began last. A refresh puts
the spinner in the place of the card and so brings new buttons (`Remount`): requests of
the old card go on without it. `Click` takes the code that is on the card, whatever its
age.

Handlers take one step per statement on the three rows, with what each remembers in
`call`: `EntryReads` to `EntryCreates`, `CancelReads` and `CancelWrites`, `PaymentQuoted`
to `PaymentInserts` or, through `increaseAmount`, `TopUpWrites`, `ExitReads` to
`ExitCloses`, and the sweep's `SweepFinds` and `SweepExpires`. Slots are left to `Parking`.
`Fails` stops a handler after any of its statements and tells the driver of an error,
whatever has been written, or charged; `Breaks` loses the answer. `undone` is history: an
entry has confirmed a reservation that was over when it wrote. `doubts` is history too:
what a driver did or met that explains a second charge.

The card of an active session that has an approved payment is `ReadyToExit`, which
offers the exit only (`MyReservationPage.tsx:61`). A driver who stays into another hour
is refused there, and the top-up that `docs/demo-runbook.md:68` speaks of is on no card:
`Overstayed` is the exception of `ParkedDriverLeaves`.

## 3. The runs

| Run | Question | Instance | What it shows |
|---|---|---|---|
| `ParkingRaces` | Does a race or a failure lose a slot, or give a user two? | 2 slots, 1 user, 2 reservations, 2 workers, 1 call, 1 sweep, 2 instants, failures | no reserved slot is forgotten unless its handler died; one user has two PENDING reservations only when the executions that made them overlapped |
| `ParkingStays` | Are stays right in time, and are slots given back? | 1 reservation for now or later, 2 calls, 1 sweep, 4 instants, fairness, no failure | closed stays are paid, nothing expires early, a stay is opened once, a reserved slot is freed |
| `ParkingSerial` | Is the sequential backend a parking lot? | 2 slots, 2 users, 3 reservations, 3 instants, cancellations with the car parked included | no slot of a parked car is offered, but for those under which somebody cancelled while parked; implements `ParkingLot` until the first such cancellation |
| `ParkingDoubleAssignment` | ... and with overlapping handlers? | 1 slot, 2 users | **violated**: entry confirms a reservation that was cancelled or swept meanwhile |
| `SlotSuggestions` | Is the suggestion right while everything moves, and is every slot used? | the 3 branches of the seed, 4 slots, 2 types, both policies | what is suggested had room, what is nearer was full at some instant; undisturbed, the best is suggested; under the balanced policy no free slot is passed over for ever |
| `Payments` | Is money on record money charged, and charged once? | 4 requests, 5 hours, failures | the row is the sum of the charges it refers to; until requests overlap or fail, nobody is overcharged and `PaymentLedger` is implemented |
| `RabbitConnection` | Are requests lost, and does the worker come back? | 3 connections alive at once, 1 request, all faults, fairness | nothing acked unprocessed or withheld; subscribed for good, and the queue drained, unless the worker is deaf |
| `CircuitBreaker` | Does the breaker keep its word, whatever returns late? | 3 calls, threshold 2, timeouts 2 and 3 | one probe at a time; a flag that is never stuck; it closes for good once the target is back |
| `Reservations` | Is the driver told what became of his request? | 2 branches, 2 requests, one of which a worker may die on, relay and socket reconnecting at will, fairness | every wait ends and has a timer of its own; a reservation is announced only if made; refused with a reservation only after a redelivery |
| `Publications` | Does the rest of the system learn what happened? | 3 changes, both roles; 2 events, 2 attempts, 1 crash of either consumer; fairness | pages converge unless the last notice was lost or disordered; the audit is complete; a second mail has a cause |
| `SignIn` | One account, one factor, one use of a code? | 3 clicks; 4 calls, 3 steps of the clock, 2 backup codes; fairness | one account per address; no lock-out, no reuse, no page that disagrees, each with its named exceptions; pages come back |
| `MyStay` | Can a driver trust the page, and leave? | 1 stay, 3 instants, 2 calls, 2 requests at a time, 2 presses of the waiting card or mishaps; fairness | the page shows what it announced, but for a cancellation that an entry under way undid; a second charge has a reason; who parks leaves, unless overstayed |

The violated run is the finding of `PROJECT.json`, with the sentence of the repository it
contradicts. The model explains other departures from the repository's words, for which
no run is kept:

- Two executions of CreateReservation overlap (`--scale reservations-worker=3` of
  `backend/README.md:34`, or one worker whose lost connection left a handler running) and
  both find no active reservation: check and INSERT are separate, so that one user has
  two, which `docs/demo-runbook.md:64` says is refused. `TwoPendingOnlyByOverlap` says
  that nothing else leads there, and holds for any number of workers.
- Cancelling accepts a CONFIRMED reservation whose session is running and releases the
  slot under the car (`cancel-reservation.use-case.ts:38-51`), although
  `backend/README.md:64-65` says no slot is released unpaid. Whoever gets that slot then
  finds a car on it, and loses it when that car leaves. `ParkedSlotsAreNotOffered` says
  that it stays with that slot: a car parked on any other is not affected.
- Two overlapping requests for a payment both charge, and one INSERT fails.
- The log line of the first connection to RabbitMQ says it will be retried
  (`docs/anatomia-cola-reservas.md:172-173` too), and nothing retries it: the `deaf`
  worker of `RabbitConnection`.

*Why these bounds.* In `ParkingRaces` two workers, a call and a sweep overlap with each
other, which is what two reservations of one user need; a second instant makes the first
reservation late. `ParkingStays` has the overlap of two calls on one reservation, with a
sweep in the background. With `Tolerance = 0` and `Hour = 1` a reservation is late and a
stay costs more after a tick, and four instants allow a start in the future, an entry, and
an exit that needs a top-up. `ParkingStays` has one reservation because liveness cannot
use symmetry. Two calls, two reservations and failures together are left to the theorems.
`ParkingSerial` needs no overlap and has two slots and two users for the relation between
them, and a third reservation for who gets the slot of a driver who cancelled while parked
and parks there in turn. `SlotSuggestions` (410,134 states) has the least number of
branches among which to choose, at the distances of the seed, and a branch of two slots of
one type, half of which may be taken and which alternate. Three requests to pay are the
least with two top-ups after a payment, and a fourth overlaps with them. Three connections
allow an old one whose handler still runs, one that is lost unnoticed, and the new one.
Three calls and threshold 2 allow a circuit opened by two while the third still runs.

`Reservations` (813,708 states) needs two branches for a suggestion and two requests for
one to meet the timer, the 202 or the event of the other; a request is redelivered once,
since a second redelivery meets the same row. `Publications` (311,376) has the third
change for a notice that is lost before two that swap; with two events one may be
committed and the other not. `SignIn` (664,883) has the three clicks of the three
controls; with four calls two that race follow two that set the factor up, and three
steps of the clock are one more than the window needs to refuse a code. Five calls, with
one click and one backup code, were checked once (5,998,491 states). `MyStay` (455,893)
has three instants, so that codes expire, a reservation expires, and a stay costs a
second hour; two requests at a time are two refreshes, two buttons, or one of each. The
presses of the waiting card count together with what may go wrong (`MaxEvents`), and two
of them are an entry and the cancellation that it undoes, or one and a mishap. Entries that
break or fail are not counted again: two entries in flight need a first one whose
connection broke. What the bounds cannot
show, the theorems do for most of these invariants.

*Deadlock* is checked in the parking, slot and breaker runs. In `Payments` every request may
be done; in `RabbitConnection` the system stops with the queue drained or the worker
deaf; in `Publications` when all is published and handled, in `SignIn` when the calls
are used up, in `Reservations` and `MyStay` when the driver has gone: those
configurations say `CHECK_DEADLOCK FALSE`. In `Parking` the system never stops, because
a blocked slot can be reported and a branch declared full at any time.

*Fairness.* `ParkingStays`: the clock advances; Node goes on running every handler it has
started (weak fairness per handler), and the cron fires every minute
(`reservation-expiration.scheduler.ts:16`). Users owe nothing: no call is fair before it
starts. `SlotSuggestions` assumes none: its property speaks of behaviours in which slots
like the one forgotten go on being claimed. `CircuitBreaker`: time passes, every call ends
because it has a timeout, and users keep calling, without which no breaker ever probes.
`RabbitConnection`: the event loop goes on (open, close and timer callbacks), handlers
return, the broker delivers what it holds for a free consumer, and it is started again
after it stops (`restart: unless-stopped`). Faults are not fair: the liveness properties
speak about the time after the last one (`calm`). `Reservations`: the API answers every
POST, or the connection fails, since the frontend's axios has no timeout of its own; the
timers of the page fire. Neither the worker, the relay nor the socket is fair: `WaitEnds`
needs none of them. `Publications`: notices come to an end, the page's requests are
answered, the socket delivers what it does not lose; both consumers run, PostgreSQL
accepts the row in the end, and an SMTP server that does not work answers with an error.
`SignIn`: an answer that has come is handled, the gateway's 3 s timer fires, and a script
that is loading loads or fails; auth-service itself is not fair. `MyStay`: requests end,
lists land, and the driver keeps coming back, presses the button that leads out and
reloads. Strong fairness is of those buttons, of the reload and of the code's arrival: a
refresh takes them away for a while, and a driver who insists gets to press them.

*Mutants.* Each property has a mutated action beside the original in the module, marked
`Mutant:`; with it TLC finds the property violated. They are not part of any
specification.

*Types.* Each module states a type invariant, `TypeOK` (`BreakerTypeOK`,
`AssignmentTypeOK`). They are theorems and in no run.

## 4. The theorems

All proofs are about the same definitions TLC runs, for any values of the constants that
satisfy the `...Assumption` of their module.

**Parking** (`Parking_proofs`). `ReservedSlotsAreAccountedFor`, `CompletedStaysArePaid`,
`NeverExpiredEarly` and `StayWithinReservation` are not inductive: they say nothing of
what a handler between two statements remembers. `Inductive` adds it: `KnownRows` (rows
handlers refer to exist), `CallsInTime` and `SweepsAreDue` (what clock readings say
stays true), `ExitsArePaid` (an exit past its look-up has a payment that covers its own
clock, and payments only grow), `StaysInTime`, and `Accounted`, which does not count a
reservation whose exit has already released the slot. The argument for `Accounted`: a
slot becomes RESERVADA by a claim only, and then its worker is *claiming*; the INSERT
hands it to a live reservation; each handler that ends a reservation is *releasing*
until its next statement; one that dies puts the slot in `orphaned`. `InductiveHolds` is
proved action by action, and from it `TypeCorrect`, `ReservedSlotsTheorem`,
`CompletedStaysTheorem`, `ExpirationTheorem`, `StayTheorem` and the action property
`OneStayTheorem`. `TwoPendingTheorem` is about any number of workers: a PENDING row of the
user of a running execution was inserted since it began (`UnseenPending`), because
`StartCreate` finds none and no row becomes PENDING but by an INSERT, which `since`
records.

`PaymentsFollowLedger`: for every reservation, `Parking` implements `PaymentLedger` with
the record of its stay and the price of the stay so far (`Due`). A payment is a `Record`
of the ledger because a quote taken earlier is no dearer (`PriceGrows`); an entry, or time
that begins another hour, is an `Accrue`; every other step, an exit included, is a
stutter, since no session is undone or begun twice (`SessionsStay`). `EveryRecordIsPaid`
is the converse: prices grow by whole hours and none is skipped (`EveryPriceComes`), so
every record the ledger allows while a stay lasts is a `Pay` for some instant of it. With
`SerialImplementsLedger` of `Payments` the two components meet in one abstract specification.

**ParkingSerial** (`ParkingSerial_proofs`). `ImplementsLot` is proved for any number of
users, slots, rows, workers, calls and sweeps (`SerialImplementsLot`). The abstract holder
of a slot is read off the tables by `Keeps`: a row keeps its slot from the INSERT to the
statement that makes the slot DISPONIBLE, which may come before or after the row says that
it is over. `SerialInvariant` says that kept slots and their users are apart and that no
kept slot is DISPONIBLE (`KeptApart`, `KeptClosed`), that a worker past its look-up acts
for a user who keeps nothing, and past its claim on a slot that is nobody's
(`ClaimsApart`), and that what the one handler under way has read is still so
(`CallsStand`, `SweepsStand`). All of it is said of slots under which nobody cancelled
with the car parked (`Undisturbed`): what such a cancellation breaks, it breaks for its
own slot, also for those who get that slot next, and for no other, because every statement
writes the slot of the row its handler was asked about. The lemmas say, statement by
statement, which row keeps its slot before and after; the invariant and the refinement
both follow from them. Every statement is a step of the lot or a stutter: the claim is
`Assign`, the INSERT a stutter, since the slot goes from the worker to its row; the INSERT
of the session is `Park`, its closing `Leave`, and the statement that releases the slot
`GiveBack`. A handler that stops after its look-up is a stutter too. `ImplementsLot` says
so of every step until the first of those cancellations, after which it asks for nothing.
From the same invariant, `SerialParkedNotOffered`, and `SerialAssignedOnce`: but for such
slots, the property that `ParkingDoubleAssignment` refutes holds of the serial backend.

**Payments** (`Payments_proofs`). `SerialHolds`: until requests overlap or one fails
(`disturbed`), one runs at a time and what it knows is not stale (`CallKnows`), so its
INSERT finds no row and its UPDATE writes over the row it read. `SerialImplementsLedger`:
hence every write is a `Record` of the ledger and every other step a stutter or an hour.
`PaymentsType` needs, whatever overlaps or fails, that a row that is topped up exists
(`TopsUpARow`): no row is ever deleted.

The amount on record is a sum over the set of charges it refers to. What a proof needs of
a sum - a new charge is added, one that was counted nowhere else is taken away, charges
that changed nothing leave it alone - holds for finite sets only and asks for induction,
which is replaced here by a smallest counterexample: the subsets of a finite set are well
founded (`SmallestCounterexample`), so the function by which the sum is defined exists
(`SumExists`) and any element may be taken first (`SumRemove`). The one assumption is that
`Calls` is finite. `RowInductive` then says of the row, and of every copy of it that a
top-up has read, that it adds up and refers to charges that are over (`AddsUp`):
`RowAlwaysAddsUp` holds under every overlap and failure, because a top-up writes the copy
it read plus its own charge. `Accounts` says that until something disturbs them all
charges together are the record, plus what the one request under way has taken and not
yet written: `NeverOverchargedHolds`.

**RabbitConnection** (`Backend_proofs`). `DeliveriesAgree` relates what the
broker waits for to what the handler works on, per state of the connection; with it
`AckedTheorem` and `UnackedTheorem`. `ReconnectTheorem` needs types only.
`ConsumerKeepsQueue`: whatever connections, channels and processes do, the queue is a
`RequestQueue`, since a request is delivered on one connection at most (`InOnePlace`) and
leaves it by an answer or with it.

**CircuitBreaker** (`Backend_proofs`). `OldCallsOnly` - a call that runs while
the circuit is open is at least as old as the opening - with `CallTimeout <
ResetTimeout` gives that nothing runs when the probe starts: `OneProbeTheorem`.
`FlagTheorem` and `FailuresTheorem` follow from the same invariant.

**SlotAssignment** (`Backend_proofs`). `AssignmentInvariant`: the execution has seen every
branch in the state it is in (`BranchesAreWatched`), and with nobody interfering in no
other (`NothingHasChanged`); a branch that is neither to be asked nor a candidate was full
(`AskedBranchesWereFull`); only branches that have slots have room (`RoomTakesSlots`),
without which a score would be a division by zero. That there is a nearest branch to ask
and a best one to suggest is a lemma about any total preorder on a finite set
(`LeastExists`), again by a smallest counterexample; that the scores, which are fractions,
are compared transitively after multiplying out is `FractionsCompare`. Hence
`SuggestionTheorem` and `BestTheorem`, for any branches, slots, types, distances and
penalty. What the claim takes first among the free slots does not matter to them.

**Reservations** (`Reservations_proofs`). `ReservationsInductive` has three groups.
About the page, `WaitIsTimed` and `PatientInductive`: a driver who has not hurried has
one request in flight, sent from the branch that is open, and the modal waits either for
its answer or for its event. About the way back, `BackInductive`: a request is in one
place, post, queue or worker (`OnePlace`), the first time through it has no reservation
yet (`FirstTime`), and so `HonestAnswer` and `RejectedOnRedelivery`. Each group is
preserved by its own lemmas for the page's steps, the wire's and the worker's.
`RequestsUseQueue` maps API, queue and worker to the same `RequestQueue`: publishing is
`Accept` (or `Decline`, when the broker refuses), a delivery `Take`, the end of an
execution `Settle`, the death of a worker `GiveBack`, and every other step a stutter.

**Publications** (`Publications_proofs`). Of the log, `LogInductive`: what the audit has
passed is stored (`AuditKeepsUp`), what the mailer has passed was mailed, given up or
skipped (`MailKeepsUp`), and an event nobody doubts of is in the log once, its mail, if
sent, being behind the mailer and, while it is down, behind its offset (`MailsInOrder`).
From it `CommittedIsHandledTheorem` and `MailedTwiceTheorem`, for any events, attempts and
crashes. Of the page, `PageInductive`: summaries see the changes they are of
(`SummariesSee`), those on the wire are sorted unless there was disorder (`WireSorted`),
and the last notice that is out, not lost and not overtaken is on the wire or has settled
the page (`LastNoticeWorks`); `FreshTheorem` follows when the wire is empty.

**SignIn** (`SignIn_proofs`). `AccountInductive` is short: a server that has found no
account and one that exists now make a race. `FactorInductive` has one part per
property besides `CodesFit`: `SecretsAgree` (a secret not yet scanned is known to nobody,
a code of the stored secret is the phone's, and a confirmation under way has read the
secret the row has, unless crossed), `OnceInductive` (what a call has read and will write
is still so, and what was accepted is refused by the last step stored or is gone from the
list, unless overlapped), and `PageInductive` (only the call the page waits for changes
the row, and its answer tells what is stored, unless the page gave up on a call).
Handlers and pages are separate lemmas.

**MyStay** (`MyStay_proofs`). `StayInductive`: an operation answered as done has had its
effect, which nothing undoes but an entry under way does to a cancellation
(`DoneIsEffective`, `undone`), and lists read since an announcement show it
(`ListsKeepUp`); hence `ShowsWhatItSaidTheorem`, for any times, prices, failures and
numbers of calls and refreshes. What each handler remembers is `Knows`, kept by every
statement of the others. `PaidTwiceTheorem` rests on `Calm`: until a payment fails after its
charge, a page is left with one under way, a connection breaks under one, or both buttons
of the waiting card are pressed, the page waits for one thing at a time (`OneAtATime`: the
answer to one button, of the card it shows and disabled, or the lists), so a payment still
finds the row it has read and writes what it has charged (`MoneyAgrees`).

Only model-checked: all liveness (`ReservedSlotsAreFreed`, `Recovers`, `Listens`,
`Drained`, `WaitEnds`, `Converges`, `AuditComplete`, `MailMovesOn`, `PagesComeBack`,
`ParkedDriverLeaves`, `NoSlotIsForgotten`), which is out of the provers' reach. That the
order `updated` of `SlotAssignment` has each slot of its branch once, and what `SelectSeq`
picks from it, is data computed by recursion over sequences: no theorem rests on it, and
`NoSlotIsForgotten` exercises it. Every invariant and safety property that a run checks is
a theorem. The three refinements `PaymentsFollowLedger`, `ConsumerKeepsQueue` and
`RequestsUseQueue` are theorems only: no run of section 3 repeats them.

## 5. Assumptions a reader should know of

- `ParkingSerial`: one handler at a time and no failure. Both are needed:
  `ParkingDoubleAssignment` drops the first, an orphaned slot the second. Its properties
  make an exception of what a cancellation under a parked car leads to, which
  `CancelReservation` allows.
- Payments of a session do not overlap, where `Parking` uses `Pay`. Without it an amount
  can be overwritten by a concurrent top-up (`increaseAmount` reads and then writes),
  and the ledger is not implemented. `MyStay` shows when the page lets them overlap.
- A session has one row for ever: entering again after a completed stay is rejected by
  the database, whatever the policy says. `EntryCreate` models the rejection.
- A circuit may close before `resetTimeoutMs` has passed: a call admitted before it
  opened closes it when it succeeds. The model has it (`Succeed` in state OPEN) and no
  property forbids it.
- A lost connection lets one process work on two requests in spite of prefetch 1, and
  `RABBITMQ_PREFETCH` may be raised; so `Parking`'s `Workers` are executions of
  CreateReservation, not processes.
- `Parking`'s `Pay` cannot fail between the charge and the row, and amounts on record only
  grow there; `Payments` and `MyStay` have the statements, the failures and what follows.
- `Reservations` has one worker at a time: two replicas differ from a redelivery only by
  what `Parking` already has.
- Secrets, codes of different secrets or steps, and event ids are taken to differ.
- `SlotAssignment` takes the two clocks behind `updatedAt`, PostgreSQL's `now()` and
  Prisma's, for one, and no two writes of a branch's slots for simultaneous.
- Each topic has one partition, and each consumer group one member.

## 6. Plan

1. Done: `Parking` and its family, `CircuitBreaker`, `RabbitConnection`, `Payments`,
   with their theorems.
2. Done: `Reservations`, the request from the modal to the event that answers it.
3. Done: `Occupancy` and `EventLog`, in `Publications`.
4. Done: `SignUp` and `MfaLogin`, in `SignIn`.
5. Done: `MyStay`, the page of a stay, with the rows behind it.
6. Done: theorems of 2 to 5 and of their type invariants.
7. Done: `SlotAssignment`, both policies statement by statement.
8. In `Parking`: a property on OCUPADA slots (an entry slower than a stay leaves the slot
   OCUPADA, `default-parking.policy.ts:65`), and two reservations under fairness.
9. Done: theorems of `SlotAssignment`; `ParkingSerial` implements `ParkingLot` for any
   number of slots and users; `RowAddsUp` and `NeverOvercharged`, with sums over sets.
10. Done: `RequestQueue` and `PaymentLedger` as what two components each agree on.
11. Proofs: that `Parking` and `MyStay` agree about the stay they both have, by a mapping
    from the rows of the first to those of the second.

## Not modelled

- The availability a modal fetches on opening (`ReservationModal.tsx:68-71`): the answer
  of an earlier opening may be shown for another branch, but it decides nothing.
- The security page's loading state when the profile's request fails
  (`SecurityPage.tsx:35`): it stays, whatever else happens, so that a property would
  repeat the model.
- Limits on the number of attempts, password hashing, signatures of tokens and of QR
  codes: they only refuse, or are cryptography.
- The gateway's routing and its verification of tokens: stateless.
- Queries and reports, for drivers and administrators: they read one table each and
  change nothing. The metric of amounts paid counts the whole amount of a row again for a
  repeated payment or a top-up (`payments.controller.ts:44-46`), and no decision reads it.
- Empty or malformed messages: an empty one would make the audit consumer throw at one
  offset for ever (`audit-service/src/consumer.ts:19`), and nobody publishes one.
- Bootstrap, exporters, deployment, styles and texts.
