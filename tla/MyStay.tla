-------------------------------- MODULE MyStay --------------------------------
(* The page "Mi reserva" of a driver who has reserved: the card it shows,    *)
(* the QR code on the card, the buttons, and the rows behind them from the   *)
(* entry to the exit. Requests outlive the card, and the page, that made     *)
(* them.                                                                     *)
(*                                                                           *)
(* A handler takes one step for each statement that reads or writes a row,   *)
(* and may stop after any of them: what it wrote stays. Its clock is read    *)
(* with its first statement. Slots are left to module Parking. Money is      *)
(* counted in hours of the tariff.                                           *)
EXTENDS Naturals, Sequences, SequencesExt, FiniteSets

CONSTANTS
    StartAt, ExpiresAt,   \* of the reservation
    QrTtl, Hour,
    MaxTime,              \* (a bound)
    MaxCalls, MaxAsked,   \* requests, and requests and refreshes, at a time
    MaxEvents,            \* entries and cancellations asked for, requests
                          \* that fail or break, and pages left (a bound)
    None

ASSUME MyStayAssumption ==
    /\ {StartAt, ExpiresAt, QrTtl, MaxTime, MaxCalls, MaxAsked, MaxEvents}
        \subseteq Nat
    /\ Hour \in Nat \ {0}
    /\ None \notin Nat \cup {"entry", "cancel", "pay", "exit"}

VARIABLES
    now,
    \* reservations, parking_sessions and payments: one row each
    status, session,
    paid,      \* the amount of the APPROVED payment; 0: no row
    sweeping,  \* the cron has found the reservation overdue
    \* MyReservationPage and its card
    open,      \* the page is mounted
    loading, data,
    refreshing, \* the lists each refresh under way has received, in order
    qrPayload, \* when the code on the card expires; None: there is none
    qrAsked,   \* the card awaits its code
    busy,      \* scanning, cancelling, paying
    call,      \* the requests that buttons made
    \* history
    charged,   \* money taken
    undone,    \* a reservation that was over has been confirmed
    announced, \* operations this page has announced
    stale,     \* what is shown is not of the refresh begun last
    doubts,    \* what a driver did, or met, that explains a double charge
    events

rows == <<status, session, paid, sweeping, charged, undone>>
page == <<open, loading, data, refreshing, qrPayload, qrAsked, announced,
          stale>>
vars == <<now, rows, page, busy, call, doubts, events>>

Calls == 1..MaxCalls
Operations == {"entry", "cancel", "pay", "exit"}
Statuses == {"PENDING", "CONFIRMED", "CANCELLED", "EXPIRED", "COMPLETED"}
Live == {"PENDING", "CONFIRMED"}
States == {"none", "ACTIVE", "COMPLETED"}
Moments == 0..MaxTime

Lists == {"status", "session", "paid"}
NoList == [status |-> None, session |-> None, paid |-> None, newest |-> TRUE]
\* What a handler remembers: its clock and the status it read; the quote, and
\* then the charge; the amount of the payment it read last.
NoCall == [op |-> None, at |-> "gone", step |-> "free", token |-> 0,
           time |-> 0, row |-> None, due |-> 0, seen |-> 0]

Init ==
    /\ now = 0
    /\ status = "PENDING"
    /\ session = [state |-> "none", entryAt |-> 0, exitAt |-> 0]
    /\ paid = 0 /\ sweeping = FALSE
    /\ charged = 0 /\ undone = FALSE
    /\ open = FALSE /\ loading = FALSE /\ data = None /\ refreshing = <<>>
    /\ qrPayload = None /\ qrAsked = FALSE
    /\ busy = {} /\ call = [c \in Calls |-> NoCall]
    /\ announced = {} /\ stale = FALSE
    /\ doubts = {} /\ events = 0

\* The bound. An entry is counted when it is asked for, and not when it fails.
Event == events < MaxEvents /\ events' = events + 1
Mishap(c) == IF call[c].op = "entry" THEN UNCHANGED events ELSE Event

-----------------------------------------------------------------------------
(* The page. *)

\* Which card the page shows for what it has loaded.
Card(lists) ==
    IF lists = None THEN "spinner"
    ELSE IF lists.session = "ACTIVE"
         THEN IF lists.paid THEN "ReadyToExit" ELSE "ActiveSession"
    ELSE IF lists.status \in Live THEN "AwaitingEntry"
    ELSE "EmptyState"

Shown == IF ~open \/ loading THEN "spinner" ELSE Card(data)

WithQr == {"AwaitingEntry", "ReadyToExit"}

\* The buttons of the three cards. A scan needs the code; that of the entry is
\* disabled with the countdown of the reservation at zero.
AwaitingEntryCard(op) ==
    \/ op = "entry" /\ qrPayload # None /\ now < ExpiresAt
    \/ op = "cancel"

ActiveSessionCard(op) == op = "pay"

ReadyToExitCard(op) == op = "exit" /\ qrPayload # None

Offered(op) ==
    \/ Shown = "AwaitingEntry" /\ AwaitingEntryCard(op)
    \/ Shown = "ActiveSession" /\ ActiveSessionCard(op)
    \/ Shown = "ReadyToExit" /\ ReadyToExitCard(op)

\* A card that is mounted begins with nothing, and asks for its code. Whatever
\* the last one had asked for goes on without it.
Remount(card) ==
    /\ qrPayload' = None
    /\ qrAsked' = (card \in WithQr)
    /\ busy' = {}

Orphaned(calls, from, to) ==
    [c \in Calls |-> IF calls[c].at \in from
                     THEN [calls[c] EXCEPT !.at = to] ELSE calls[c]]

\* refresh: the spinner replaces the card, and the lists are asked for.
Refresh(calls) ==
    /\ loading' = TRUE
    /\ refreshing' =
         Append([i \in DOMAIN refreshing |->
                    [refreshing[i] EXCEPT !.newest = FALSE]], NoList)
    /\ Remount("spinner")
    /\ call' = Orphaned(calls, {"card"}, "page")

Arrive ==
    /\ ~open
    /\ open' = TRUE
    /\ Refresh(call)
    /\ UNCHANGED <<now, rows, data, announced, stale, doubts, events>>

\* The lists, newest first; a driver has one row of each here.
UserReservations == status
UserSessions == session.state
UserPayments == paid > 0

\* The four requests of Promise.all, of which that of the branches matters
\* to nothing here. Each is answered at its own moment.
Reads(i, list) ==
    /\ refreshing[i][list] = None
    /\ refreshing' = [refreshing EXCEPT ![i][list] =
                          CASE list = "status" -> UserReservations
                            [] list = "session" -> UserSessions
                            [] list = "paid" -> UserPayments]
    /\ UNCHANGED <<now, rows, open, loading, data, qrPayload, qrAsked,
                   announced, stale, busy, call, doubts, events>>

\* With the spinner gone the card is another one; without a spinner to remove
\* React keeps the card there is, if it is of the same kind.
Rerender(lists) ==
    IF loading \/ Card(lists) # Card(data)
    THEN /\ Remount(Card(lists))
         /\ call' = Orphaned(call, {"card"}, "page")
    ELSE UNCHANGED <<qrPayload, qrAsked, busy, call>>

Lands(i) ==
    /\ \A list \in Lists : refreshing[i][list] # None
    /\ data' = refreshing[i]
    /\ loading' = FALSE
    /\ refreshing' = RemoveAt(refreshing, i)
    /\ stale' = ~refreshing[i].newest
    /\ Rerender(refreshing[i])
    /\ UNCHANGED <<now, rows, open, announced, doubts, events>>

\* Mutant: finally is forgotten: a failure leaves the spinner.
RefreshFailsLoading(i) ==
    /\ Event
    /\ refreshing' = RemoveAt(refreshing, i)
    /\ stale' = (stale \/ refreshing[i].newest)
    /\ UNCHANGED <<now, rows, open, loading, data, qrPayload, qrAsked,
                   announced, busy, call, doubts>>

\* On failure the page keeps what it had. If it had nothing, the spinner stays.
RefreshFails(i) ==
    /\ Event
    /\ loading' = FALSE
    /\ refreshing' = RemoveAt(refreshing, i)
    /\ stale' = (stale \/ refreshing[i].newest)
    /\ Rerender(data)
    /\ UNCHANGED <<now, rows, open, data, announced, doubts>>

\* Codes are signed, and say until when they hold.
SignedUntil == now + QrTtl

Verifies(token) == ~(token < now)

QrArrives ==
    /\ qrAsked
    /\ qrAsked' = FALSE
    /\ \/ qrPayload' = SignedUntil /\ UNCHANGED events
       \/ Event /\ UNCHANGED qrPayload
    /\ UNCHANGED <<now, rows, open, loading, data, refreshing, announced,
                   stale, busy, call, doubts>>

Asked == Len(refreshing) + Cardinality({c \in Calls : call[c].op # None})

Click(op) ==
    /\ Offered(op) /\ op \notin busy
    /\ Asked < MaxAsked
    /\ \E c \in Calls :
         /\ call[c] = NoCall /\ \A b \in 1..(c - 1) : call[b] # NoCall
         /\ call' = [call EXCEPT ![c] =
              [NoCall EXCEPT !.op = op, !.at = "card", !.step = "sent",
                             !.token = IF op \in {"entry", "exit"}
                                       THEN qrPayload ELSE 0]]
    /\ busy' = busy \cup {op}
    /\ doubts' = IF {"entry", "cancel"} \subseteq busy'
                 THEN doubts \cup {"both"} ELSE doubts
    /\ IF op \in {"entry", "cancel"} THEN Event ELSE UNCHANGED events
    /\ UNCHANGED <<now, rows, open, loading, data, refreshing, qrPayload,
                   qrAsked, announced, stale>>

\* Mutant: a success is announced and the lists are not asked for.
OnAnswerWithoutRefresh(c) ==
    /\ call[c].step \in {"done", "refused"}
    /\ call' = [call EXCEPT ![c] = NoCall]
    /\ IF call[c].step = "done" /\ call[c].at # "gone"
       THEN announced' = announced \cup {call[c].op}
       ELSE UNCHANGED announced
    /\ busy' = IF call[c].at = "card" THEN busy \ {call[c].op} ELSE busy
    /\ UNCHANGED <<now, rows, open, loading, data, refreshing, qrPayload,
                   qrAsked, stale, doubts, events>>

\* The toast, and onChange if the page is the one that asked; an error is told
\* and changes nothing.
OnAnswer(c) ==
    /\ call[c].step \in {"done", "refused"}
    /\ LET left == [call EXCEPT ![c] = NoCall] IN
       IF call[c].step = "done" /\ call[c].at # "gone"
       THEN /\ announced' = announced \cup {call[c].op}
            /\ Refresh(left)
            /\ UNCHANGED <<open, data, stale>>
       ELSE /\ call' = left
            /\ busy' = IF call[c].at = "card" THEN busy \ {call[c].op}
                                              ELSE busy
            /\ UNCHANGED page
    /\ UNCHANGED <<now, rows, doubts, events>>

\* The connection breaks, whether or not the request was handled. The page
\* tells it like any error.
Breaks(c) ==
    /\ call[c].op # None /\ call[c].at # "gone"
    /\ Mishap(c)
    /\ busy' = IF call[c].at = "card" THEN busy \ {call[c].op} ELSE busy
    /\ call' = [call EXCEPT ![c].at = "gone"]
    /\ doubts' = IF call[c].op = "pay" THEN doubts \cup {"broke"} ELSE doubts
    /\ UNCHANGED <<now, rows, page>>

\* The driver goes to another page, and what this one waits for is not
\* waited for any more.
GoAway ==
    /\ open
    /\ open' = FALSE /\ loading' = FALSE /\ data' = None /\ refreshing' = <<>>
    /\ qrPayload' = None /\ qrAsked' = FALSE /\ busy' = {}
    /\ announced' = {} /\ stale' = FALSE
    /\ call' = Orphaned(call, {"card", "page"}, "gone")
    /\ doubts' = IF \E c \in Calls : call[c].op = "pay" /\ call[c].at # "gone"
                 THEN doubts \cup {"left"} ELSE doubts
    /\ UNCHANGED <<now, rows>>

Leave == GoAway /\ Event

\* A page that is not waiting for anything may be reloaded at any time.
Rest ==
    /\ open /\ ~loading /\ refreshing = <<>>
    /\ \A c \in Calls : call[c].op = None \/ call[c].at = "gone"

Reload == Rest /\ GoAway /\ UNCHANGED events

-----------------------------------------------------------------------------
(* The handlers. *)

Goto(c, step) == call' = [call EXCEPT ![c].step = step]

Answer(c, answer) ==
    call' = [call EXCEPT ![c] = [NoCall EXCEPT !.op = call[c].op,
                                               !.at = call[c].at,
                                               !.step = answer]]

\* The next statement of a handler.
Runs(c, op, step) ==
    /\ call[c].op = op /\ call[c].step = step
    /\ UNCHANGED <<now, page, busy, doubts, events>>

\* RegisterEntry and ParkingPolicy.registerEntry.
EntryReads(c) ==
    /\ Runs(c, "entry", "sent")
    /\ IF Verifies(call[c].token) /\ status \in Live /\ ~(now < StartAt)
       THEN call' = [call EXCEPT ![c].step = "session", ![c].token = 0,
                                 ![c].time = now, ![c].row = status]
       ELSE Answer(c, "refused")
    /\ UNCHANGED rows

EntryFindsSession(c) ==
    /\ Runs(c, "entry", "session")
    /\ IF session.state = "ACTIVE"
       THEN Answer(c, "refused")
       ELSE Goto(c, IF call[c].row = "PENDING" THEN "confirm" ELSE "create")
    /\ UNCHANGED rows

\* Whatever the status has become since it was read.
EntryConfirms(c) ==
    /\ Runs(c, "entry", "confirm")
    /\ status' = "CONFIRMED"
    /\ undone' = (undone \/ status \notin Live)
    /\ Goto(c, "create")
    /\ UNCHANGED <<session, paid, sweeping, charged>>

\* The INSERT fails if there is a session: reservationId is unique.
EntryCreates(c) ==
    /\ Runs(c, "entry", "create")
    /\ IF session.state = "none"
       THEN /\ session' = [state |-> "ACTIVE", entryAt |-> call[c].time,
                           exitAt |-> call[c].time]
            /\ Answer(c, "done")
       ELSE Answer(c, "refused") /\ UNCHANGED session
    /\ UNCHANGED <<status, paid, sweeping, charged, undone>>

\* CancelReservation.
CancelReads(c) ==
    /\ Runs(c, "cancel", "sent")
    /\ IF status \in Live THEN Goto(c, "cancel") ELSE Answer(c, "refused")
    /\ UNCHANGED rows

CancelWrites(c) ==
    /\ Runs(c, "cancel", "cancel")
    /\ status' = "CANCELLED"
    /\ Answer(c, "done")
    /\ UNCHANGED <<session, paid, sweeping, charged, undone>>

\* Every hour begun is paid, and the first one always.
Price(entryAt, exitAt) ==
    LET hours == (exitAt - entryAt + Hour - 1) \div Hour
    IN IF hours = 0 THEN 1 ELSE hours

\* What a session costs: up to now, while it lasts.
GetSessionQuote ==
    Price(session.entryAt,
          IF session.state = "COMPLETED" THEN session.exitAt ELSE now)

\* RegisterPayment of payments-service: the quote, by gRPC from the backend.
PaymentQuoted(c) ==
    /\ Runs(c, "pay", "sent")
    /\ call' = [call EXCEPT ![c].step = "find", ![c].due = GetSessionQuote]
    /\ UNCHANGED rows

\* Mutant: no look-up before the charge is made.
PaymentFindsNoRow(c) ==
    /\ Runs(c, "pay", "find")
    /\ Goto(c, "charge")
    /\ UNCHANGED rows

\* The row there is by then; a row that covers the quote is the answer.
PaymentFinds(c) ==
    /\ Runs(c, "pay", "find")
    /\ IF paid > 0 /\ call[c].due <= paid
       THEN Answer(c, "done")
       ELSE call' = [call EXCEPT ![c].step = "charge", ![c].seen = paid]
    /\ UNCHANGED rows

\* All of the quote, or what is missing; approved whatever the method.
PaymentCharges(c) ==
    /\ Runs(c, "pay", "charge")
    /\ LET amount == call[c].due - call[c].seen IN
       /\ charged' = charged + amount
       /\ call' = [call EXCEPT ![c].step = IF call[c].seen = 0 THEN "insert"
                                                               ELSE "read",
                               ![c].due = amount, ![c].seen = 0]
    /\ UNCHANGED <<status, session, paid, sweeping, undone>>

\* A session has one payment at most.
PaymentInserts(c) ==
    /\ Runs(c, "pay", "insert")
    /\ IF paid = 0 THEN paid' = call[c].due /\ Answer(c, "done")
                   ELSE Answer(c, "refused") /\ UNCHANGED paid
    /\ UNCHANGED <<status, session, sweeping, charged, undone>>

\* increaseAmount reads the row once more, and writes the sum.
TopUpReads(c) ==
    /\ Runs(c, "pay", "read")
    /\ call' = [call EXCEPT ![c].step = "update", ![c].seen = paid]
    /\ UNCHANGED rows

TopUpWrites(c) ==
    /\ Runs(c, "pay", "update")
    /\ paid' = call[c].seen + call[c].due
    /\ Answer(c, "done")
    /\ UNCHANGED <<status, session, sweeping, charged, undone>>

\* What the backend is told of the payment, by gRPC from payments-service.
FindPayment == [isApproved |-> paid > 0, amount |-> paid]

\* RegisterExit and ParkingPolicy.registerExit.
ExitReads(c) ==
    /\ Runs(c, "exit", "sent")
    /\ IF Verifies(call[c].token) /\ session.state = "ACTIVE"
       THEN call' = [call EXCEPT ![c].step = "payment", ![c].token = 0,
                                 ![c].time = now]
       ELSE Answer(c, "refused")
    /\ UNCHANGED rows

ExitFindsPayment(c) ==
    /\ Runs(c, "exit", "payment")
    /\ IF /\ FindPayment.isApproved
          /\ Price(session.entryAt, call[c].time) <= FindPayment.amount
       THEN Goto(c, "again") ELSE Answer(c, "refused")
    /\ UNCHANGED rows

\* The policy looks for both once more.
ExitFindsAgain(c) ==
    /\ Runs(c, "exit", "again")
    /\ IF session.state = "ACTIVE" /\ FindPayment.isApproved
       THEN Goto(c, "complete") ELSE Answer(c, "refused")
    /\ UNCHANGED rows

ExitCompletes(c) ==
    /\ Runs(c, "exit", "complete")
    /\ session' = [session EXCEPT !.state = "COMPLETED",
                                  !.exitAt = call[c].time]
    /\ Goto(c, "close")
    /\ UNCHANGED <<status, paid, sweeping, charged, undone>>

ExitCloses(c) ==
    /\ Runs(c, "exit", "close")
    /\ status' = "COMPLETED"
    /\ Answer(c, "done")
    /\ UNCHANGED <<session, paid, sweeping, charged, undone>>

Charged == {"insert", "read", "update"}

\* A statement fails, a service is down, a circuit is open or a process dies:
\* the driver is told of an error, whatever has been written, or charged.
Fails(c) ==
    /\ call[c].step \notin {"free", "refused"}
    /\ Mishap(c)
    /\ Answer(c, "refused")
    /\ doubts' = IF call[c].step \in Charged THEN doubts \cup {"failed"}
                                            ELSE doubts
    /\ UNCHANGED <<now, rows, page, busy>>

\* The cron of the backend: it finds the row and, later, writes to it.
SweepFinds ==
    /\ ~sweeping /\ status = "PENDING" /\ ExpiresAt < now
    /\ sweeping' = TRUE
    /\ UNCHANGED <<now, status, session, paid, charged, undone, page, busy,
                   call, doubts, events>>

SweepExpires ==
    /\ sweeping
    /\ sweeping' = FALSE /\ status' = "EXPIRED"
    /\ UNCHANGED <<now, session, paid, charged, undone, page, busy, call,
                   doubts, events>>

Tick ==
    /\ now < MaxTime
    /\ now' = now + 1
    /\ UNCHANGED <<rows, page, busy, call, doubts, events>>

Handler(c) ==
    \/ EntryReads(c) \/ EntryFindsSession(c)
    \/ EntryConfirms(c) \/ EntryCreates(c)
    \/ CancelReads(c) \/ CancelWrites(c)
    \/ PaymentQuoted(c) \/ PaymentFinds(c) \/ PaymentCharges(c)
    \/ PaymentInserts(c) \/ TopUpReads(c) \/ TopUpWrites(c)
    \/ ExitReads(c) \/ ExitFindsPayment(c) \/ ExitFindsAgain(c)
    \/ ExitCompletes(c) \/ ExitCloses(c)

Next ==
    \/ Arrive \/ Leave \/ Reload \/ QrArrives \/ Tick
    \/ SweepFinds \/ SweepExpires
    \/ \E i \in DOMAIN refreshing :
          \/ Lands(i) \/ RefreshFails(i)
          \/ \E list \in Lists : Reads(i, list)
    \/ \E op \in Operations : Click(op)
    \/ \E c \in Calls :
          OnAnswer(c) \/ Breaks(c) \/ Fails(c) \/ Handler(c)

Spec == Init /\ [][Next]_vars

\* Requests end, and the driver keeps at it: comes back to the
\* page the button that leads out, and reloads it.
FairSpec ==
    /\ Spec
    /\ WF_vars(\E i \in DOMAIN refreshing :
                  Lands(i) \/ \E list \in Lists : Reads(i, list))
    /\ \A c \in Calls : WF_vars(OnAnswer(c) \/ Handler(c))
    /\ WF_vars(Arrive) /\ SF_vars(Reload)
    /\ SF_vars(QrArrives)
    /\ SF_vars(Click("pay")) /\ SF_vars(Click("exit"))

-----------------------------------------------------------------------------
(* Properties. *)

Steps == {"free", "sent", "session", "confirm", "create", "cancel", "find",
          "charge", "insert", "read", "update", "payment", "again",
          "complete", "close", "done", "refused"}

\* Types.
TypeOK ==
    /\ now \in Moments /\ events \in 0..MaxEvents
    /\ status \in Statuses
    /\ session \in [state : States, entryAt : Moments, exitAt : Moments]
    /\ paid \in Nat /\ charged \in Nat
    /\ sweeping \in BOOLEAN /\ undone \in BOOLEAN
    /\ open \in BOOLEAN /\ loading \in BOOLEAN /\ stale \in BOOLEAN
    /\ \A i \in DOMAIN refreshing : refreshing[i].newest => i = Len(refreshing)
    /\ call \in [Calls -> [op : Operations \cup {None},
                          at : {"card", "page", "gone"},
                          step : Steps, token : Nat, time : Moments,
                          row : Live \cup {None}, due : Nat, seen : Nat]]
    /\ qrPayload \in Nat \cup {None} /\ qrAsked \in BOOLEAN
    /\ busy \subseteq Operations /\ announced \subseteq Operations
    /\ doubts \subseteq {"both", "broke", "left", "failed"}

\* What an operation has done to the lists, for good.
Shows(lists, op) ==
    CASE op = "entry" -> lists.session # "none"
      [] op = "cancel" -> lists.status \notin Live
      [] op = "pay" -> lists.paid
      [] op = "exit" -> lists.session = "COMPLETED"

\* A page that waits for no list shows every operation it has announced, unless
\* its last refresh failed or was overtaken: the lists of an earlier refresh
\* came after those of the last one (MyReservationPage.tsx:28). A cancellation
\* alone may be shown no more, when an entry that had found the reservation
\* PENDING has confirmed it since (default-parking.policy.ts:50).
ShowsWhatItSaid ==
    open /\ refreshing = <<>> /\ data # None /\ ~stale =>
        \A op \in announced : Shows(data, op) \/ (op = "cancel" /\ undone)

\* Once no payment has a row to write, the money taken is the amount on record,
\* unless a payment failed after its charge (register-payment.use-case.ts:72),
\* the driver left the page with one under way, its connection broke, or both
\* buttons of the waiting card were pressed: then a refresh that another answer
\* has begun brings "Pagar" back before the first payment is answered
\* (ActiveSessionCard.tsx:43).
PaidTwiceForAReason ==
    charged # paid =>
        \/ \E c \in Calls : call[c].step \in Charged
        \/ doubts \cap {"failed", "left", "broke", "both"} # {}

\* The amount on record is less than the stay costs by now.
Overstayed ==
    /\ session.state = "ACTIVE" /\ paid > 0
    /\ paid < Price(session.entryAt, now)

\* A driver who parks leaves in the end, whatever failed on the way and however
\* often the code on the card had expired, but for one who has overstayed a
\* payment (register-exit.use-case.ts:83).
ParkedDriverLeaves ==
    (session.state = "ACTIVE" ~> session.state = "COMPLETED")
        \/ <>[]Overstayed
=============================================================================
