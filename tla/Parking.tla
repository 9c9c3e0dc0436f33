------------------------------- MODULE Parking -------------------------------
(***************************************************************************)
(* The transactional core of the backend service: slots, reservations and  *)
(* parking sessions, and the handlers that read and write them.            *)
(*                                                                         *)
(* No handler opens a database transaction, so every SQL statement is a    *)
(* step of its own and statements of different handlers interleave freely. *)
(* Three kinds of process run handlers: the queue workers that create      *)
(* reservations, the HTTP calls (cancel, entry, exit) and the expiration   *)
(* sweeps (the cron and the admin's "expire now").                         *)
(*                                                                         *)
(* A call reads the clock with its first query, a sweep with its only one; *)
(* the worker that creates a reservation has a step of its own for it.     *)
(***************************************************************************)
EXTENDS Integers, FiniteSets

CONSTANTS
    Users, Slots, Branches,
    Resvs,       \* row ids of the reservations table (a bound on its rows)
    Workers,     \* consumers of reservations.requests (replicas, or prefetch)
    Calls,       \* HTTP requests the API serves at the same time
    Sweeps,      \* concurrent executions of ExpireOverdueReservations
    BranchOf,    \* the branch of each slot
    Tolerance,   \* RESERVATION_TOLERANCE_MINUTES, in ticks of the clock
    Hour,        \* one billable hour, in ticks
    Scheduled,   \* start times users may ask for explicitly
    MaxTime,     \* bound: the clock stops there
    LastCreate,  \* bound: the last instant reservations are asked for
    None         \* null

ASSUME ParkingAssumption ==
    /\ BranchOf \in [Slots -> Branches]
    /\ Tolerance \in Nat /\ Hour \in Nat \ {0}
    /\ Scheduled \subseteq Nat
    /\ MaxTime \in Nat /\ LastCreate \in Nat
    /\ None \notin Users \cup Slots \cup Branches \cup Resvs

VARIABLES
    now,        \* ClockPort
    slotStatus, \* parking_slots.status
    res,        \* reservations
    session,    \* parking_sessions, keyed by reservationId (@unique)
    paid,       \* approved amount the payments service holds for a session
    worker,     \* CreateReservation executions
    call,       \* Cancel, RegisterEntry and RegisterExit executions
    sweep,      \* ExpireOverdueReservations executions
    orphaned    \* history: slots whose handler died owing them a statement

tables == <<slotStatus, res, session, paid>>
vars == <<now, slotStatus, res, session, paid, worker, call, sweep, orphaned>>

-----------------------------------------------------------------------------
SlotStatuses == {"DISPONIBLE", "RESERVADA", "OCUPADA", "NO_DISPONIBLE"}

Live == {"PENDING", "CONFIRMED"}

\* "NONE" is a row not inserted yet.
ResStatuses == Live \cup {"NONE", "EXPIRED", "CANCELLED", "COMPLETED"}
SessionStatuses == {"NONE", "ACTIVE", "COMPLETED"}

\* A request without startAt: the worker takes its own clock.
Asap == -1

NoRow == [status |-> "NONE", user |-> None, slot |-> None, startAt |-> 0]
NoSession == [status |-> "NONE", entryAt |-> 0, exitAt |-> 0]
IdleWorker == [pc |-> "idle", user |-> None, branch |-> None,
               startAt |-> Asap, slot |-> None]
IdleCall == [pc |-> "idle", resv |-> None, at |-> 0, seen |-> "NONE"]
IdleSweep == [todo |-> {}, current |-> None]

ExpiresAt(r) == res[r].startAt + Tolerance

\* Mutant: the limit of the tolerance window counts as passed.
OverdueAtTheLimit(r) == res[r].status = "PENDING" /\ ExpiresAt(r) <= now

\* Mutant: CONFIRMED reservations are swept too.
OverdueConfirmedToo(r) == res[r].status \in Live /\ ExpiresAt(r) < now

\* isExpired of the reservation policy, and the test of findExpiredPending.
Overdue(r) == res[r].status = "PENDING" /\ ExpiresAt(r) < now

\* Billable hours: the price in units of the branch's pricePerHour.
Price(entryAt, exitAt) ==
    LET hours == (exitAt - entryAt + Hour - 1) \div Hour
    IN IF hours > 1 THEN hours ELSE 1

\* An approved payment exists and covers a stay that ends at exitAt.
Covers(r, exitAt) ==
    paid[r] > 0 /\ Price(session[r].entryAt, exitAt) <= paid[r]

SetSlot(s, status) == slotStatus' = [slotStatus EXCEPT ![s] = status]
SetRes(r, status) == res' = [res EXCEPT ![r].status = status]
Goto(c, pc) == call' = [call EXCEPT ![c].pc = pc]
EndCall(c) == call' = [call EXCEPT ![c] = IdleCall]
EndWorker(w) == worker' = [worker EXCEPT ![w] = IdleWorker]

-----------------------------------------------------------------------------
Init ==
    /\ now = 0
    /\ slotStatus = [s \in Slots |-> "DISPONIBLE"]
    /\ res = [r \in Resvs |-> NoRow]
    /\ session = [r \in Resvs |-> NoSession]
    /\ paid = [r \in Resvs |-> 0]
    /\ worker = [w \in Workers |-> IdleWorker]
    /\ call = [c \in Calls |-> IdleCall]
    /\ sweep = [k \in Sweeps |-> IdleSweep]
    /\ orphaned = {}

Tick ==
    /\ now < MaxTime
    /\ now' = now + 1
    /\ UNCHANGED <<tables, worker, call, sweep, orphaned>>

-----------------------------------------------------------------------------
(* CreateReservation, run by a queue worker.                               *)

\* Every running worker will find a row to insert, as in a real table.
RowsLeft ==
    Cardinality({v \in Workers : worker[v].pc # "idle"})
        < Cardinality({r \in Resvs : res[r].status = "NONE"})

\* Mutant: findActiveByUser is not asked.
StartCreateUnchecked(w, u, b, startAt) ==
    /\ worker[w].pc = "idle"
    /\ now <= LastCreate /\ RowsLeft
    /\ worker' = [worker EXCEPT ![w] =
                    [pc |-> "checkSession", user |-> u, branch |-> b,
                     startAt |-> startAt, slot |-> None]]
    /\ UNCHANGED <<now, tables, call, sweep, orphaned>>

\* The request arrives and findActiveByUser(user) finds no live reservation;
\* otherwise RESERVATION_ALREADY_ACTIVE, with nothing written.
StartCreate(w, u, b, startAt) ==
    /\ worker[w].pc = "idle"
    /\ now <= LastCreate /\ RowsLeft
    /\ \A r \in Resvs : ~(res[r].user = u /\ res[r].status \in Live)
    /\ worker' = [worker EXCEPT ![w] =
                    [pc |-> "checkSession", user |-> u, branch |-> b,
                     startAt |-> startAt, slot |-> None]]
    /\ UNCHANGED <<now, tables, call, sweep, orphaned>>

\* The second half of canCreateReservation: no active session of the user.
CreateCheckSession(w) ==
    /\ worker[w].pc = "checkSession"
    /\ IF \E r \in Resvs : /\ res[r].user = worker[w].user
                           /\ session[r].status = "ACTIVE"
       THEN EndWorker(w)
       ELSE worker' = [worker EXCEPT ![w].pc = "claim"]
    /\ UNCHANGED <<now, tables, call, sweep, orphaned>>

\* claimAvailableSlot: one UPDATE ... FOR UPDATE SKIP LOCKED. The order in
\* which free slots are preferred (code or updatedAt) is left open.
CreateClaim(w, s) ==
    /\ worker[w].pc = "claim"
    /\ BranchOf[s] = worker[w].branch
    /\ slotStatus[s] = "DISPONIBLE"
    /\ SetSlot(s, "RESERVADA")
    /\ worker' = [worker EXCEPT ![w].pc = "insert", ![w].slot = s]
    /\ orphaned' = orphaned \ {s}
    /\ UNCHANGED <<now, res, session, paid, call, sweep>>

\* SUGGEST_OTHER_BRANCH or NO_AVAILABILITY: answered, nothing written.
CreateNoSlot(w) ==
    /\ worker[w].pc = "claim"
    /\ \A s \in Slots : BranchOf[s] = worker[w].branch
                           => slotStatus[s] # "DISPONIBLE"
    /\ EndWorker(w)
    /\ UNCHANGED <<now, tables, call, sweep, orphaned>>

\* startAt ?? clock.now(), before the row is built and saved.
CreateReadsClock(w) ==
    /\ worker[w].pc = "insert" /\ worker[w].startAt = Asap
    /\ worker' = [worker EXCEPT ![w].startAt = now]
    /\ UNCHANGED <<now, tables, call, sweep, orphaned>>

CreateInsert(w, r) ==
    /\ worker[w].pc = "insert" /\ worker[w].startAt # Asap
    /\ res[r].status = "NONE"
    /\ res' = [res EXCEPT ![r] =
                 [status |-> "PENDING", user |-> worker[w].user,
                  slot |-> worker[w].slot, startAt |-> worker[w].startAt]]
    /\ EndWorker(w)
    /\ UNCHANGED <<now, slotStatus, session, paid, call, sweep, orphaned>>

-----------------------------------------------------------------------------
(* CancelReservation.                                                      *)

StartCancel(c, r) ==
    /\ call[c].pc = "idle"
    /\ res[r].status \in Live
    /\ call' = [call EXCEPT ![c] = [IdleCall EXCEPT !.pc = "cancelUpdate",
                                                    !.resv = r]]
    /\ UNCHANGED <<now, tables, worker, sweep, orphaned>>

\* Mutant: the handler returns before updating the slot.
CancelUpdateOnly(c) ==
    /\ call[c].pc = "cancelUpdate"
    /\ SetRes(call[c].resv, "CANCELLED")
    /\ EndCall(c)
    /\ UNCHANGED <<now, slotStatus, session, paid, worker, sweep, orphaned>>

CancelUpdate(c) ==
    /\ call[c].pc = "cancelUpdate"
    /\ SetRes(call[c].resv, "CANCELLED")
    /\ Goto(c, "cancelRelease")
    /\ UNCHANGED <<now, slotStatus, session, paid, worker, sweep, orphaned>>

CancelRelease(c) ==
    /\ call[c].pc = "cancelRelease"
    /\ SetSlot(res[call[c].resv].slot, "DISPONIBLE")
    /\ EndCall(c)
    /\ UNCHANGED <<now, res, session, paid, worker, sweep, orphaned>>

-----------------------------------------------------------------------------
(* RegisterEntry and ParkingPolicy.registerEntry.                          *)

\* The entry QR of any existing reservation may be scanned, again and again
\* while it is valid. Neither expiresAt nor the slot is looked at.
StartEntry(c, r) ==
    /\ call[c].pc = "idle"
    /\ res[r].status \in Live
    /\ res[r].startAt <= now
    /\ call' = [call EXCEPT ![c] = [pc |-> "entrySession", resv |-> r,
                                    at |-> now, seen |-> res[r].status]]
    /\ UNCHANGED <<now, tables, worker, sweep, orphaned>>

\* findByReservationId: an ACTIVE session means SESSION_ALREADY_ACTIVE.
EntryCheckSession(c) ==
    /\ call[c].pc = "entrySession"
    /\ IF session[call[c].resv].status = "ACTIVE"
       THEN EndCall(c)
       ELSE Goto(c, IF call[c].seen = "PENDING" THEN "entryConfirm"
                                                ELSE "entryCreate")
    /\ UNCHANGED <<now, tables, worker, sweep, orphaned>>

EntryConfirm(c) ==
    /\ call[c].pc = "entryConfirm"
    /\ SetRes(call[c].resv, "CONFIRMED")
    /\ Goto(c, "entryCreate")
    /\ UNCHANGED <<now, slotStatus, session, paid, worker, sweep, orphaned>>

\* Mutant: reservationId is not unique and the last session is the one found.
EntryCreateAgain(c) ==
    LET r == call[c].resv IN
    /\ call[c].pc = "entryCreate"
    /\ session' = [session EXCEPT ![r] =
          [status |-> "ACTIVE", entryAt |-> call[c].at, exitAt |-> 0]]
    /\ Goto(c, "entryOccupy")
    /\ UNCHANGED <<now, slotStatus, res, paid, worker, sweep, orphaned>>

\* The INSERT fails on the unique reservationId when a session exists.
EntryCreate(c) ==
    LET r == call[c].resv IN
    /\ call[c].pc = "entryCreate"
    /\ IF session[r].status = "NONE"
       THEN /\ session' = [session EXCEPT ![r] =
                 [status |-> "ACTIVE", entryAt |-> call[c].at, exitAt |-> 0]]
            /\ Goto(c, "entryOccupy")
       ELSE /\ EndCall(c)
            /\ UNCHANGED session
    /\ UNCHANGED <<now, slotStatus, res, paid, worker, sweep, orphaned>>

EntryOccupy(c) ==
    /\ call[c].pc = "entryOccupy"
    /\ SetSlot(res[call[c].resv].slot, "OCUPADA")
    /\ EndCall(c)
    /\ UNCHANGED <<now, res, session, paid, worker, sweep, orphaned>>

-----------------------------------------------------------------------------
(* RegisterExit and ParkingPolicy.registerExit.                            *)

StartExit(c, r) ==
    /\ call[c].pc = "idle"
    /\ session[r].status = "ACTIVE"
    /\ call' = [call EXCEPT ![c] = [IdleCall EXCEPT !.pc = "exitPayment",
                                                    !.resv = r, !.at = now]]
    /\ UNCHANGED <<now, tables, worker, sweep, orphaned>>

\* Mutant: any payment will do, whatever the stay costs by now.
ExitCheckAnyPayment(c) ==
    /\ call[c].pc = "exitPayment"
    /\ IF paid[call[c].resv] > 0
       THEN Goto(c, "exitSession")
       ELSE EndCall(c)
    /\ UNCHANGED <<now, tables, worker, sweep, orphaned>>

\* GetPaymentBySession, then the price at the instant the call started.
ExitCheckPayment(c) ==
    /\ call[c].pc = "exitPayment"
    /\ IF Covers(call[c].resv, call[c].at)
       THEN Goto(c, "exitSession")
       ELSE EndCall(c)
    /\ UNCHANGED <<now, tables, worker, sweep, orphaned>>

\* The policy re-reads the session and asks for the payment once more.
ExitRecheck(c) ==
    /\ call[c].pc = "exitSession"
    /\ IF session[call[c].resv].status = "ACTIVE" /\ paid[call[c].resv] > 0
       THEN Goto(c, "exitComplete")
       ELSE EndCall(c)
    /\ UNCHANGED <<now, tables, worker, sweep, orphaned>>

ExitComplete(c) ==
    LET r == call[c].resv IN
    /\ call[c].pc = "exitComplete"
    /\ session' = [session EXCEPT ![r].status = "COMPLETED",
                                  ![r].exitAt = call[c].at]
    /\ Goto(c, "exitRelease")
    /\ UNCHANGED <<now, slotStatus, res, paid, worker, sweep, orphaned>>

\* Mutant: the slot is not released.
ExitKeepSlot(c) ==
    /\ call[c].pc = "exitRelease"
    /\ Goto(c, "exitClose")
    /\ UNCHANGED <<now, tables, worker, sweep, orphaned>>

ExitRelease(c) ==
    /\ call[c].pc = "exitRelease"
    /\ SetSlot(res[call[c].resv].slot, "DISPONIBLE")
    /\ Goto(c, "exitClose")
    /\ UNCHANGED <<now, res, session, paid, worker, sweep, orphaned>>

ExitClose(c) ==
    /\ call[c].pc = "exitClose"
    /\ SetRes(call[c].resv, "COMPLETED")
    /\ EndCall(c)
    /\ UNCHANGED <<now, slotStatus, session, paid, worker, sweep, orphaned>>

-----------------------------------------------------------------------------
(* ExpireOverdueReservations.                                              *)

StartSweep(k) ==
    LET overdue == {r \in Resvs : Overdue(r)} IN
    /\ sweep[k].todo = {}
    /\ overdue # {}
    /\ sweep' = [sweep EXCEPT ![k].todo = overdue]
    /\ UNCHANGED <<now, tables, worker, call, orphaned>>

\* isExpired is asked of the rows as they were read, so it always agrees.
SweepExpire(k, r) ==
    /\ sweep[k].current = None
    /\ r \in sweep[k].todo
    /\ SetRes(r, "EXPIRED")
    /\ sweep' = [sweep EXCEPT ![k].current = r]
    /\ UNCHANGED <<now, slotStatus, session, paid, worker, call, orphaned>>

\* Mutant: the loop goes on to the next row without updating the slot.
SweepKeepSlot(k) ==
    LET r == sweep[k].current IN
    /\ r # None
    /\ sweep' = [sweep EXCEPT ![k] = [todo |-> @.todo \ {r},
                                      current |-> None]]
    /\ UNCHANGED <<now, tables, worker, call, orphaned>>

SweepRelease(k) ==
    LET r == sweep[k].current IN
    /\ r # None
    /\ SetSlot(res[r].slot, "DISPONIBLE")
    /\ sweep' = [sweep EXCEPT ![k] = [todo |-> @.todo \ {r},
                                      current |-> None]]
    /\ UNCHANGED <<now, res, session, paid, worker, call, orphaned>>

-----------------------------------------------------------------------------
(* One-statement operations, and the payments service.                     *)

ReportSlotBlocked(s) ==
    /\ SetSlot(s, "NO_DISPONIBLE")
    /\ UNCHANGED <<now, res, session, paid, worker, call, sweep, orphaned>>

SimulateBranchFull(b) ==
    /\ slotStatus' = [s \in Slots |->
                        IF BranchOf[s] = b /\ slotStatus[s] = "DISPONIBLE"
                        THEN "OCUPADA" ELSE slotStatus[s]]
    /\ UNCHANGED <<now, res, session, paid, worker, call, sweep, orphaned>>

\* A payment or a top-up is recorded, for a quote taken at some instant t of
\* the stay. A top-up is charged only when the quote exceeds what is held. The
\* payments of a session come one at a time here: Payments_proofs shows that
\* the service then keeps PaymentLedger, Parking_proofs that Pay is its Record.
Pay(r, t) ==
    LET quote == Price(session[r].entryAt, t) IN
    /\ session[r].status = "ACTIVE"
    /\ quote > paid[r]
    /\ paid' = [paid EXCEPT ![r] = quote]
    /\ UNCHANGED <<now, slotStatus, res, session, worker, call, sweep,
                   orphaned>>

-----------------------------------------------------------------------------
(* A statement fails, or the process dies: the handler stops where it is.  *)
(* The slot it had claimed or still had to release is left behind.         *)

WorkerFails(w) ==
    /\ worker[w].pc # "idle"
    /\ orphaned' = IF worker[w].pc = "insert"
                   THEN orphaned \cup {worker[w].slot} ELSE orphaned
    /\ EndWorker(w)
    /\ UNCHANGED <<now, tables, call, sweep>>

CallFails(c) ==
    /\ call[c].pc # "idle"
    /\ orphaned' = IF call[c].pc \in {"cancelRelease", "exitRelease"}
                   THEN orphaned \cup {res[call[c].resv].slot} ELSE orphaned
    /\ EndCall(c)
    /\ UNCHANGED <<now, tables, worker, sweep>>

SweepFails(k) ==
    /\ sweep[k].todo # {}
    /\ orphaned' = IF sweep[k].current # None
                   THEN orphaned \cup {res[sweep[k].current].slot}
                   ELSE orphaned
    /\ sweep' = [sweep EXCEPT ![k] = IdleSweep]
    /\ UNCHANGED <<now, tables, worker, call>>

-----------------------------------------------------------------------------
WorkerStep(w) ==
    \/ CreateCheckSession(w)
    \/ \E s \in Slots : CreateClaim(w, s)
    \/ CreateNoSlot(w)
    \/ CreateReadsClock(w)
    \/ \E r \in Resvs : CreateInsert(w, r)

CallStep(c) ==
    \/ CancelUpdate(c) \/ CancelRelease(c)
    \/ EntryCheckSession(c) \/ EntryConfirm(c)
    \/ EntryCreate(c) \/ EntryOccupy(c)
    \/ ExitCheckPayment(c) \/ ExitRecheck(c)
    \/ ExitComplete(c) \/ ExitRelease(c) \/ ExitClose(c)

SweepStep(k) ==
    \/ \E r \in Resvs : SweepExpire(k, r)
    \/ SweepRelease(k)

\* What users, drivers and administrators ask for.
Request ==
    \/ \E w \in Workers, u \in Users, b \in Branches,
         t \in Scheduled \cup {Asap} : StartCreate(w, u, b, t)
    \/ \E c \in Calls, r \in Resvs :
         StartCancel(c, r) \/ StartEntry(c, r) \/ StartExit(c, r)
    \/ \E s \in Slots : ReportSlotBlocked(s)
    \/ \E b \in Branches : SimulateBranchFull(b)
    \/ \E r \in Resvs : \E t \in session[r].entryAt..now : Pay(r, t)

Step ==
    \/ Tick
    \/ Request
    \/ \E w \in Workers : WorkerStep(w)
    \/ \E c \in Calls : CallStep(c)
    \/ \E k \in Sweeps : StartSweep(k) \/ SweepStep(k)

Failure ==
    \/ \E w \in Workers : WorkerFails(w)
    \/ \E c \in Calls : CallFails(c)
    \/ \E k \in Sweeps : SweepFails(k)

Next == Step \/ Failure

Spec == Init /\ [][Next]_vars

\* The same system when no statement fails and no process dies.
SpecNoFailure == Init /\ [][Step]_vars

\* Node keeps running the handlers it started; the cron fires every minute.
FairSpec ==
    /\ SpecNoFailure
    /\ WF_vars(Tick)
    /\ \A w \in Workers : WF_vars(WorkerStep(w))
    /\ \A c \in Calls : WF_vars(CallStep(c))
    /\ \A k \in Sweeps : WF_vars(StartSweep(k) \/ SweepStep(k))

-----------------------------------------------------------------------------
(* Properties.                                                             *)

WorkerPC == {"idle", "checkSession", "claim", "insert"}
CallPC == {"idle", "cancelUpdate", "cancelRelease",
           "entrySession", "entryConfirm", "entryCreate", "entryOccupy",
           "exitPayment", "exitSession", "exitComplete", "exitRelease",
           "exitClose"}

ResRow == [status : ResStatuses, user : Users \cup {None},
           slot : Slots \cup {None}, startAt : Nat]
SessionRow == [status : SessionStatuses, entryAt : Nat, exitAt : Nat]
WorkerState == [pc : WorkerPC, user : Users \cup {None},
                branch : Branches \cup {None},
                startAt : Nat \cup {Asap}, slot : Slots \cup {None}]
CallState == [pc : CallPC, resv : Resvs \cup {None},
              at : Nat, seen : Live \cup {"NONE"}]
SweepState == [todo : SUBSET Resvs, current : Resvs \cup {None}]

\* The types of the tables and of what each running handler remembers.
TypeOK ==
    /\ now \in Nat
    /\ slotStatus \in [Slots -> SlotStatuses]
    /\ res \in [Resvs -> ResRow]
    /\ session \in [Resvs -> SessionRow]
    /\ paid \in [Resvs -> Nat]
    /\ worker \in [Workers -> WorkerState]
    /\ call \in [Calls -> CallState]
    /\ sweep \in [Sweeps -> SweepState]
    /\ orphaned \in SUBSET Slots

\* Who answers for a reserved slot: a worker about to insert its reservation,
\* a live reservation, or a handler that is about to release it.
Claiming(s) == \E w \in Workers : worker[w].pc = "insert" /\ worker[w].slot = s
Held(s) == \E r \in Resvs : res[r].status \in Live /\ res[r].slot = s
Releasing(s) ==
    \/ \E c \in Calls : /\ call[c].pc \in {"cancelRelease", "exitRelease"}
                        /\ res[call[c].resv].slot = s
    \/ \E k \in Sweeps : /\ sweep[k].current # None
                         /\ res[sweep[k].current].slot = s

\* A RESERVADA slot is never forgotten: whatever cancel, sweep, entry and exit
\* do to each other, somebody still answers for it, unless a handler died
\* between the two statements that claim and record, or record and release.
ReservedSlotsAreAccountedFor ==
    \A s \in Slots : slotStatus[s] = "RESERVADA" =>
        Claiming(s) \/ Held(s) \/ Releasing(s) \/ s \in orphaned

\* No session is closed for a stay the recorded payment does not cover, however
\* late the exit call runs and however many exits of the session overlap.
CompletedStaysArePaid ==
    \A r \in Resvs :
        session[r].status = "COMPLETED" => Covers(r, session[r].exitAt)

\* Only a reservation whose tolerance window is over is EXPIRED, although the
\* sweep acts on rows it read some time ago.
NeverExpiredEarly ==
    \A r \in Resvs : res[r].status = "EXPIRED" => ExpiresAt(r) < now

\* A stay begins no earlier than the reservation and ends no earlier than it
\* begins, for clock readings taken by different calls.
StayWithinReservation ==
    \A r \in Resvs :
        /\ session[r].status # "NONE" => res[r].startAt <= session[r].entryAt
        /\ session[r].status = "COMPLETED"
             => session[r].entryAt <= session[r].exitAt

\* One entry per reservation: once created, a session is never created again,
\* its entry time never changes and a completed one is never reopened.
OneStayPerReservation ==
    [][\A r \in Resvs : session[r].status # "NONE" =>
          /\ session'[r].entryAt = session[r].entryAt
          /\ session'[r].status \in {session[r].status, "COMPLETED"}]_session

\* Two live reservations never share a slot: "dos usuarios concurrentes nunca
\* reciban la misma cochera (Politica 6)".
NoDoubleAssignment ==
    \A r1, r2 \in Resvs :
        /\ res[r1].status \in Live /\ res[r2].status \in Live
        /\ res[r1].slot = res[r2].slot
        => r1 = r2

\* A reserved slot does not stay reserved: the driver comes, cancels, or the
\* sweep gives the slot back. (Not so only where the clock of the model stops
\* before the tolerance window of the reservation is over.)
ReservedSlotsAreFreed ==
    \A s \in Slots :
        slotStatus[s] = "RESERVADA" ~>
            \/ slotStatus[s] # "RESERVADA"
            \/ \E r \in Resvs : /\ res[r].status = "PENDING"
                               /\ res[r].slot = s /\ ExpiresAt(r) >= MaxTime

=============================================================================
