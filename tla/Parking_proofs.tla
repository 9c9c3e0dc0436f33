--------------------------- MODULE Parking_proofs ---------------------------
(* Parking's safety properties hold for any number of users, slots, rows,   *)
(* workers, calls and sweeps. The invariant that every step preserves is    *)
(* TypeOK /\ Inductive; each of its parts has a lemma of its own. A lemma   *)
(* XChanges names the actions that write X, so that the proof of a part     *)
(* looks at those only.                                                     *)
EXTENDS ParkingReplicas, TLAPS

\* A price is a natural number, whatever two instants it is asked for.
LEMMA PriceType ==
    ASSUME NEW entryAt \in Int, NEW exitAt \in Int
    PROVE  Price(entryAt, exitAt) \in Nat
  BY ParkingAssumption DEF Price

\* The initial rows and the idle handlers have their types.
LEMMA RowTypes ==
    /\ NoRow \in ResRow
    /\ NoSession \in SessionRow
    /\ IdleWorker \in WorkerState
    /\ IdleCall \in CallState
    /\ IdleSweep \in SweepState
  BY DEF NoRow, ResRow, ResStatuses, NoSession, SessionRow, SessionStatuses,
       IdleWorker, WorkerState, WorkerPC, Asap, IdleCall, CallState, CallPC,
       IdleSweep, SweepState

\* UPDATE reservations SET status keeps the table well typed.
LEMMA SetResType ==
    ASSUME res \in [Resvs -> ResRow], NEW r, NEW status \in ResStatuses,
           SetRes(r, status)
    PROVE  res' \in [Resvs -> ResRow]
  BY DEF SetRes, ResRow

\* UPDATE parking_slots SET status keeps the table well typed.
LEMMA SetSlotType ==
    ASSUME slotStatus \in [Slots -> SlotStatuses], NEW s,
           NEW status \in SlotStatuses, SetSlot(s, status)
    PROVE  slotStatus' \in [Slots -> SlotStatuses]
  BY DEF SetSlot

\* Moving a call to its next statement keeps it well typed.
LEMMA GotoType ==
    ASSUME call \in [Calls -> CallState], NEW c, NEW pc \in CallPC, Goto(c, pc)
    PROVE  call' \in [Calls -> CallState]
  BY DEF Goto, CallState

\* Only Tick moves the clock.
LEMMA TimeChanges ==
    [Next]_vars =>
        \/ UNCHANGED now
        \/ Tick
  BY DEF Next, Step, Failure, Request, WorkerStep, CallStep, SweepStep, vars,
       tables, StartCreate, CreateCheckSession, CreateClaim, CreateNoSlot,
       CreateReadsClock, CreateInsert, StartCancel, CancelUpdate,
       CancelRelease, StartEntry, EntryCheckSession, EntryConfirm, EntryCreate,
       EntryOccupy, StartExit, ExitCheckPayment, ExitRecheck, ExitComplete,
       ExitRelease, ExitClose, StartSweep, SweepExpire, SweepRelease,
       ReportSlotBlocked, SimulateBranchFull, Pay, WorkerFails, CallFails,
       SweepFails

\* The statements that write reservations.
LEMMA ReservationChanges ==
    [Next]_vars =>
        \/ UNCHANGED res
        \/ \E w \in Workers, r \in Resvs : CreateInsert(w, r)
        \/ \E c \in Calls : CancelUpdate(c) \/ EntryConfirm(c) \/ ExitClose(c)
        \/ \E k \in Sweeps, r \in Resvs : SweepExpire(k, r)
  BY DEF Next, Step, Failure, Request, WorkerStep, CallStep, SweepStep, vars,
       tables, Tick, StartCreate, CreateCheckSession, CreateClaim,
       CreateNoSlot, CreateReadsClock, StartCancel, CancelRelease, StartEntry,
       EntryCheckSession, EntryCreate, EntryOccupy, StartExit,
       ExitCheckPayment, ExitRecheck, ExitComplete, ExitRelease, StartSweep,
       SweepRelease, ReportSlotBlocked, SimulateBranchFull, Pay, WorkerFails,
       CallFails, SweepFails

\* The statements that write parking_sessions.
LEMMA SessionChanges ==
    [Next]_vars =>
        \/ UNCHANGED session
        \/ \E c \in Calls : EntryCreate(c) \/ ExitComplete(c)
  BY DEF Next, Step, Failure, Request, WorkerStep, CallStep, SweepStep, vars,
       tables, Tick, StartCreate, CreateCheckSession, CreateClaim,
       CreateNoSlot, CreateReadsClock, CreateInsert, StartCancel, CancelUpdate,
       CancelRelease, StartEntry, EntryCheckSession, EntryConfirm, EntryOccupy,
       StartExit, ExitCheckPayment, ExitRecheck, ExitRelease, ExitClose,
       StartSweep, SweepExpire, SweepRelease, ReportSlotBlocked,
       SimulateBranchFull, Pay, WorkerFails, CallFails, SweepFails

\* Only the payments service writes payments.
LEMMA PaymentChanges ==
    [Next]_vars =>
        \/ UNCHANGED paid
        \/ \E r \in Resvs : \E t \in session[r].entryAt..now : Pay(r, t)
  BY DEF Next, Step, Failure, Request, WorkerStep, CallStep, SweepStep, vars,
       tables, Tick, StartCreate, CreateCheckSession, CreateClaim,
       CreateNoSlot, CreateReadsClock, CreateInsert, StartCancel, CancelUpdate,
       CancelRelease, StartEntry, EntryCheckSession, EntryConfirm, EntryCreate,
       EntryOccupy, StartExit, ExitCheckPayment, ExitRecheck, ExitComplete,
       ExitRelease, ExitClose, StartSweep, SweepExpire, SweepRelease,
       ReportSlotBlocked, SimulateBranchFull, WorkerFails, CallFails,
       SweepFails

\* The steps that move an HTTP call.
LEMMA CallChanges ==
    [Next]_vars =>
        \/ UNCHANGED call
        \/ \E c \in Calls, r \in Resvs :
             StartCancel(c, r) \/ StartEntry(c, r) \/ StartExit(c, r)
        \/ \E c \in Calls :
             \/ CancelUpdate(c) \/ CancelRelease(c)
             \/ EntryCheckSession(c) \/ EntryConfirm(c)
             \/ EntryCreate(c) \/ EntryOccupy(c)
             \/ ExitCheckPayment(c) \/ ExitRecheck(c)
             \/ ExitComplete(c) \/ ExitRelease(c) \/ ExitClose(c)
             \/ CallFails(c)
  BY DEF Next, Step, Failure, Request, WorkerStep, CallStep, SweepStep, vars,
       tables, Tick, StartCreate, CreateCheckSession, CreateClaim,
       CreateNoSlot, CreateReadsClock, CreateInsert, StartSweep, SweepExpire,
       SweepRelease, ReportSlotBlocked, SimulateBranchFull, Pay, WorkerFails,
       SweepFails

\* The steps that move a queue worker.
LEMMA WorkerChanges ==
    [Next]_vars =>
        \/ UNCHANGED worker
        \/ \E w \in Workers, u \in Users, b \in Branches,
             t \in Scheduled \cup {Asap} : StartCreate(w, u, b, t)
        \/ \E w \in Workers :
             \/ CreateCheckSession(w) \/ CreateNoSlot(w)
             \/ CreateReadsClock(w) \/ WorkerFails(w)
        \/ \E w \in Workers, s \in Slots : CreateClaim(w, s)
        \/ \E w \in Workers, r \in Resvs : CreateInsert(w, r)
  BY DEF Next, Step, Failure, Request, WorkerStep, CallStep, SweepStep, vars,
       tables,
    Tick, StartCancel, CancelUpdate, CancelRelease, StartEntry,
    EntryCheckSession, EntryConfirm, EntryCreate, EntryOccupy, StartExit,
    ExitCheckPayment, ExitRecheck, ExitComplete, ExitRelease, ExitClose,
    StartSweep, SweepExpire, SweepRelease, ReportSlotBlocked,
    SimulateBranchFull, Pay, CallFails, SweepFails

\* The steps that move an expiration sweep.
LEMMA SweepChanges ==
    [Next]_vars =>
        \/ UNCHANGED sweep
        \/ \E k \in Sweeps : StartSweep(k) \/ SweepRelease(k) \/ SweepFails(k)
        \/ \E k \in Sweeps, r \in Resvs : SweepExpire(k, r)
  BY DEF Next, Step, Failure, Request, WorkerStep, CallStep, SweepStep, vars,
       tables, Tick, StartCreate, CreateCheckSession, CreateClaim,
       CreateNoSlot, CreateReadsClock, CreateInsert, StartCancel, CancelUpdate,
       CancelRelease, StartEntry, EntryCheckSession, EntryConfirm, EntryCreate,
       EntryOccupy, StartExit, ExitCheckPayment, ExitRecheck, ExitComplete,
       ExitRelease, ExitClose, ReportSlotBlocked, SimulateBranchFull, Pay,
       WorkerFails, CallFails

\* The clock never goes back.
LEMMA TimePasses ==
    ASSUME TypeOK, [Next]_vars
    PROVE  now' >= now
  BY TimeChanges DEF TypeOK, Tick

\* A reservation row keeps its user, slot and start time for ever.
LEMMA RowsStay ==
    ASSUME TypeOK, KnownRows, [Next]_vars,
           NEW r \in Resvs, res[r].status # "NONE"
    PROVE  /\ res'[r].status # "NONE"
           /\ res'[r].user = res[r].user
           /\ res'[r].slot = res[r].slot
           /\ res'[r].startAt = res[r].startAt
  <1> DEFINE Written == {"CANCELLED", "CONFIRMED", "COMPLETED", "EXPIRED"}
  <1> USE DEF TypeOK, ResRow
  <1>1. ASSUME NEW q \in Resvs, NEW status \in Written, SetRes(q, status)
        PROVE /\ res'[r].status # "NONE"
              /\ res'[r].user = res[r].user
              /\ res'[r].slot = res[r].slot
              /\ res'[r].startAt = res[r].startAt
    BY <1>1 DEF SetRes
  <1>2. ASSUME NEW w \in Workers, NEW q \in Resvs, CreateInsert(w, q)
        PROVE res'[r] = res[r]
    BY <1>2 DEF CreateInsert
  <1>3. ASSUME NEW c \in Calls,
               CancelUpdate(c) \/ EntryConfirm(c) \/ ExitClose(c)
        PROVE /\ call[c].resv \in Resvs
              /\ \E status \in Written : SetRes(call[c].resv, status)
    BY <1>3 DEF CancelUpdate, EntryConfirm, ExitClose, KnownRows
  <1>4. ASSUME NEW k \in Sweeps, NEW q \in Resvs, SweepExpire(k, q)
        PROVE SetRes(q, "EXPIRED")
    BY <1>4 DEF SweepExpire
  <1> QED
    BY <1>1, <1>2, <1>3, <1>4, ReservationChanges

\* A session keeps its entry time; its status is kept or COMPLETED.
LEMMA SessionsStay ==
    ASSUME TypeOK, [Next]_vars, NEW r \in Resvs, session[r].status # "NONE"
    PROVE  /\ session'[r].entryAt = session[r].entryAt
           /\ session'[r].status \in {session[r].status, "COMPLETED"}
  <1> USE DEF TypeOK, SessionRow
  <1>1. ASSUME NEW c \in Calls, EntryCreate(c)
        PROVE session'[r] = session[r]
    BY <1>1 DEF EntryCreate
  <1>2. ASSUME NEW c \in Calls, ExitComplete(c)
        PROVE /\ session'[r].entryAt = session[r].entryAt
              /\ session'[r].status \in {session[r].status, "COMPLETED"}
    BY <1>2 DEF ExitComplete
  <1> QED
    BY <1>1, <1>2, SessionChanges

\* What is paid for a session never decreases.
LEMMA PaymentsGrow ==
    ASSUME TypeOK, [Next]_vars, NEW r \in Resvs
    PROVE  paid'[r] >= paid[r]
  <1> USE DEF TypeOK
  <1>1. ASSUME NEW q \in Resvs, NEW t \in session[q].entryAt..now, Pay(q, t)
        PROVE paid'[r] >= paid[r]
    <2>1. session[q].entryAt \in Int /\ t \in Int
      BY DEF SessionRow
    <2>2. Price(session[q].entryAt, t) \in Nat
      BY <2>1, PriceType
    <2> QED
      BY <1>1, <2>2 DEF Pay
  <1> QED
    BY <1>1, PaymentChanges

\* A payment that covers a stay until t covers it after any step.
LEMMA CoversStays ==
    ASSUME TypeOK, TypeOK', [Next]_vars, NEW r \in Resvs, NEW t,
           session[r].status # "NONE", t \in Nat, Covers(r, t)
    PROVE  paid'[r] > 0 /\ Price(session'[r].entryAt, t) <= paid'[r]
  <1>1. paid[r] \in Nat /\ paid'[r] \in Nat /\ paid'[r] >= paid[r]
    BY PaymentsGrow DEF TypeOK
  <1>2. session'[r].entryAt = session[r].entryAt
    BY SessionsStay
  <1>3. session[r].entryAt \in Int /\ t \in Int
    BY DEF TypeOK, SessionRow
  <1>4. Price(session[r].entryAt, t) \in Nat
    BY <1>3, PriceType
  <1> QED
    BY <1>1, <1>2, <1>4 DEF Covers

\* How a call that is not idle after a step came to be where it is.
LEMMA CallSteps ==
    ASSUME TypeOK, [Next]_vars, NEW c \in Calls, call'[c].pc # "idle"
    PROVE  \/ \E r \in Resvs :
                StartCancel(c, r) \/ StartEntry(c, r) \/ StartExit(c, r)
           \/ /\ call[c].pc # "idle"
              /\ call'[c].resv = call[c].resv /\ call'[c].at = call[c].at
              /\ call'[c].pc \in EntryPC => call[c].pc \in EntryPC
              /\ call'[c].pc \in ExitPC => call[c].pc \in ExitPC
              /\ call'[c].pc \in PaidPC =>
                    call[c].pc \in PaidPC \/ Covers(call[c].resv, call[c].at)
  <1> DEFINE Goal ==
           \/ \E r \in Resvs :
                StartCancel(c, r) \/ StartEntry(c, r) \/ StartExit(c, r)
           \/ /\ call[c].pc # "idle"
              /\ call'[c].resv = call[c].resv /\ call'[c].at = call[c].at
              /\ call'[c].pc \in EntryPC => call[c].pc \in EntryPC
              /\ call'[c].pc \in ExitPC => call[c].pc \in ExitPC
              /\ call'[c].pc \in PaidPC =>
                    call[c].pc \in PaidPC \/ Covers(call[c].resv, call[c].at)
  <1>1. CASE call'[c] = call[c]
    BY <1>1
  <1>2. ASSUME NEW d \in Calls,
               NEW new,
               call' = [call EXCEPT ![d] = new], c # d
        PROVE call'[c] = call[c]
    BY <1>2 DEF TypeOK
  <1>3. ASSUME NEW d \in Calls, EndCall(d)
        PROVE call'[c] = call[c]
    BY <1>3 DEF TypeOK, EndCall, IdleCall
  <1>4. ASSUME NEW d \in Calls, NEW pc, Goto(d, pc), 
               \/ call[d].pc = "cancelUpdate" /\ pc = "cancelRelease"
               \/ call[d].pc \in EntryPC /\ pc \in EntryPC
               \/ /\ call[d].pc \in ExitPC /\ pc \in ExitPC
                  /\ \/ call[d].pc \in PaidPC
                     \/ Covers(call[d].resv, call[d].at)
               \/ /\ call[d].pc \in ExitPC \cup {"exitRelease"}
                  /\ pc \in {"exitRelease", "exitClose"}
        PROVE Goal
    <2>1. CASE c = d
      <3>1. call'[c] = [call[c] EXCEPT !.pc = pc]
        BY <1>4, <2>1 DEF TypeOK, Goto
      <3> QED
        BY <1>4, <2>1, <3>1 DEF EntryPC, ExitPC, PaidPC, TypeOK, CallState
    <2> QED
      BY <1>1, <2>1, <1>4 DEF TypeOK, Goto
  <1>5. ASSUME NEW d \in Calls, NEW r \in Resvs,
               StartCancel(d, r) \/ StartEntry(d, r) \/ StartExit(d, r)
        PROVE Goal
    BY <1>5, <1>1, <1>2 DEF StartCancel, StartEntry, StartExit
  <1>6. ASSUME NEW d \in Calls,
               \/ CancelRelease(d) \/ EntryOccupy(d)
               \/ ExitClose(d) \/ CallFails(d)
        PROVE Goal
    BY <1>6, <1>1, <1>3 DEF CancelRelease, EntryOccupy, ExitClose, CallFails
  <1>7. ASSUME NEW d \in Calls, CancelUpdate(d) PROVE Goal
    BY <1>7, <1>4 DEF CancelUpdate
  <1>8. ASSUME NEW d \in Calls, EntryCheckSession(d) PROVE Goal
    BY <1>8, <1>1, <1>3, <1>4 DEF EntryCheckSession, EntryPC
  <1>9. ASSUME NEW d \in Calls, EntryConfirm(d) PROVE Goal
    BY <1>9, <1>4 DEF EntryConfirm, EntryPC
  <1>10. ASSUME NEW d \in Calls, EntryCreate(d) PROVE Goal
    BY <1>10, <1>1, <1>3, <1>4 DEF EntryCreate, EntryPC
  <1>11. ASSUME NEW d \in Calls, ExitCheckPayment(d) PROVE Goal
    BY <1>11, <1>1, <1>3, <1>4 DEF ExitCheckPayment, ExitPC, PaidPC
  <1>12. ASSUME NEW d \in Calls, ExitRecheck(d) PROVE Goal
    BY <1>12, <1>1, <1>3, <1>4 DEF ExitRecheck, ExitPC, PaidPC
  <1>13. ASSUME NEW d \in Calls, ExitComplete(d) PROVE Goal
    BY <1>13, <1>4 DEF ExitComplete, ExitPC
  <1>14. ASSUME NEW d \in Calls, ExitRelease(d) PROVE Goal
    BY <1>14, <1>4 DEF ExitRelease, ExitPC
  <1> QED
    BY <1>1, <1>5, <1>6, <1>7, <1>8, <1>9, <1>10, <1>11, <1>12, <1>13, <1>14,
         CallChanges

\* The statements that write parking_slots.
LEMMA SlotChanges ==
    [Next]_vars =>
        \/ UNCHANGED slotStatus
        \/ \E w \in Workers, s \in Slots : CreateClaim(w, s)
        \/ \E c \in Calls :
             CancelRelease(c) \/ EntryOccupy(c) \/ ExitRelease(c)
        \/ \E k \in Sweeps : SweepRelease(k)
        \/ \E s \in Slots : ReportSlotBlocked(s)
        \/ \E b \in Branches : SimulateBranchFull(b)
  BY DEF Next, Step, Failure, Request, WorkerStep, CallStep, SweepStep, vars,
       tables, Tick, StartCreate, CreateCheckSession, CreateNoSlot,
       CreateReadsClock, CreateInsert, StartCancel, CancelUpdate, StartEntry,
       EntryCheckSession, EntryConfirm, EntryCreate, StartExit,
       ExitCheckPayment, ExitRecheck, ExitComplete, ExitClose, StartSweep,
       SweepExpire, Pay, WorkerFails, CallFails, SweepFails

\* The steps after which a slot is, or is no longer, left behind.
LEMMA OrphanChanges ==
    [Next]_vars =>
        \/ UNCHANGED orphaned
        \/ \E w \in Workers, s \in Slots : CreateClaim(w, s)
        \/ \E w \in Workers : WorkerFails(w)
        \/ \E c \in Calls : CallFails(c)
        \/ \E k \in Sweeps : SweepFails(k)
  BY DEF Next, Step, Failure, Request, WorkerStep, CallStep, SweepStep, vars,
       tables, Tick, StartCreate, CreateCheckSession, CreateNoSlot,
       CreateReadsClock, CreateInsert, StartCancel, CancelUpdate,
       CancelRelease, StartEntry, EntryCheckSession, EntryConfirm, EntryCreate,
       EntryOccupy, StartExit, ExitCheckPayment, ExitRecheck, ExitComplete,
       ExitRelease, ExitClose, StartSweep, SweepExpire, SweepRelease,
       ReportSlotBlocked, SimulateBranchFull, Pay

\* How a worker came to be where it is after a step.
LEMMA WorkerSteps ==
    ASSUME TypeOK, [Next]_vars, NEW w \in Workers
    PROVE  \/ worker'[w] = worker[w]
           \/ worker'[w] = IdleWorker
           \/ \E u \in Users, b \in Branches, t \in Scheduled \cup {Asap} :
                StartCreate(w, u, b, t)
           \/ /\ CreateCheckSession(w)
              /\ worker'[w] = [worker[w] EXCEPT !.pc = "claim"]
           \/ \E s \in Slots : CreateClaim(w, s)
           \/ /\ CreateReadsClock(w)
              /\ worker'[w] = [worker[w] EXCEPT !.startAt = now]
  <1> USE DEF TypeOK
  <1>1. ASSUME NEW v \in Workers, NEW new,
               worker' = [worker EXCEPT ![v] = new], v # w
        PROVE  worker'[w] = worker[w]
    BY <1>1
  <1>2. ASSUME NEW v \in Workers, EndWorker(v)
        PROVE  worker'[w] = worker[w] \/ worker'[w] = IdleWorker
    BY <1>2 DEF EndWorker
  <1>3. ASSUME NEW v \in Workers, CreateCheckSession(v)
        PROVE  \/ worker'[w] = worker[w] \/ worker'[w] = IdleWorker
               \/ /\ CreateCheckSession(w)
                  /\ worker'[w] = [worker[w] EXCEPT !.pc = "claim"]
    BY <1>2, <1>3 DEF CreateCheckSession
  <1>4. ASSUME NEW v \in Workers, NEW s \in Slots, CreateClaim(v, s), v # w
        PROVE  worker'[w] = worker[w]
    BY <1>4 DEF CreateClaim
  <1>5. ASSUME NEW v \in Workers, NEW u \in Users, NEW b \in Branches,
               NEW t \in Scheduled \cup {Asap}, StartCreate(v, u, b, t), v # w
        PROVE  worker'[w] = worker[w]
    BY <1>5 DEF StartCreate
  <1>6. ASSUME NEW v \in Workers, \/ CreateNoSlot(v) \/ WorkerFails(v)
                                  \/ \E r \in Resvs : CreateInsert(v, r)
        PROVE  worker'[w] = worker[w] \/ worker'[w] = IdleWorker
    BY <1>6, <1>2 DEF CreateNoSlot, WorkerFails, CreateInsert
  <1>7. ASSUME NEW v \in Workers, CreateReadsClock(v)
        PROVE  \/ worker'[w] = worker[w]
               \/ /\ CreateReadsClock(w)
                  /\ worker'[w] = [worker[w] EXCEPT !.startAt = now]
    BY <1>7 DEF CreateReadsClock
  <1> QED
    BY <1>3, <1>4, <1>5, <1>6, <1>7, WorkerChanges

\* A sweep takes up only overdue rows, and works on one it took up.
LEMMA SweepSteps ==
    ASSUME TypeOK, KnownRows, [Next]_vars, NEW k \in Sweeps
    PROVE  /\ \A r \in sweep'[k].todo : r \in sweep[k].todo \/ Overdue(r)
           /\ sweep'[k].current # None => sweep'[k].current \in sweep'[k].todo
  <1> DEFINE Goal ==
           /\ \A r \in sweep'[k].todo : r \in sweep[k].todo \/ Overdue(r)
           /\ sweep'[k].current # None => sweep'[k].current \in sweep'[k].todo
  <1>1. ASSUME NEW j \in Sweeps, StartSweep(j) PROVE Goal
    BY <1>1 DEF StartSweep, TypeOK, KnownRows, SweepState
  <1>2. ASSUME NEW j \in Sweeps, NEW r \in Resvs, SweepExpire(j, r) PROVE Goal
    BY <1>2 DEF SweepExpire, TypeOK, KnownRows, SweepState
  <1>3. ASSUME NEW j \in Sweeps, SweepRelease(j) PROVE Goal
    BY <1>3 DEF SweepRelease, TypeOK, KnownRows, SweepState
  <1>4. ASSUME NEW j \in Sweeps, SweepFails(j) PROVE Goal
    BY <1>4 DEF SweepFails, IdleSweep, TypeOK, KnownRows, SweepState
  <1>5. CASE UNCHANGED sweep
    BY <1>5 DEF KnownRows
  <1> QED
    BY <1>1, <1>2, <1>3, <1>4, <1>5, SweepChanges

\* Handlers go on referring to rows and slots that exist.
LEMMA KnownRowsStep ==
    ASSUME TypeOK, TypeOK', KnownRows, [Next]_vars
    PROVE  KnownRows'
  <1>1. ASSUME NEW r \in Resvs, res'[r].status # "NONE"
        PROVE  res'[r].slot \in Slots
    <2>1. CASE res[r].status # "NONE"
      BY <2>1, RowsStay DEF KnownRows
    <2>2. CASE res[r].status = "NONE"
      <3>1. PICK w \in Workers : CreateInsert(w, r)
        <4>1. ASSUME NEW c \in Calls,
                     CancelUpdate(c) \/ EntryConfirm(c) \/ ExitClose(c)
              PROVE  res'[r] = res[r]
          BY <4>1, <2>2 DEF CancelUpdate, EntryConfirm, ExitClose, SetRes,
               KnownRows, TypeOK
        <4>2. ASSUME NEW k \in Sweeps, NEW q \in Resvs, SweepExpire(k, q)
              PROVE  res'[r] = res[r]
          BY <4>2, <2>2 DEF SweepExpire, SetRes, KnownRows, TypeOK
        <4>3. ASSUME NEW w \in Workers, NEW q \in Resvs, q # r,
                     CreateInsert(w, q)
              PROVE  res'[r] = res[r]
          BY <4>3 DEF CreateInsert, TypeOK
        <4> QED
          BY <4>1, <4>2, <4>3, <1>1, <2>2, ReservationChanges
      <3>2. res'[r].slot = worker[w].slot
        BY <3>1 DEF CreateInsert, TypeOK
      <3> QED
        BY <3>1, <3>2 DEF CreateInsert, KnownRows
    <2> QED
      BY <2>1, <2>2
  <1>2. ASSUME NEW w \in Workers, worker'[w].pc = "insert"
        PROVE  worker'[w].slot \in Slots
    <2>1. ASSUME NEW s \in Slots, CreateClaim(w, s)
          PROVE  worker'[w].slot \in Slots
      BY <2>1 DEF CreateClaim, TypeOK, WorkerState
    <2>2. ASSUME NEW u \in Users, NEW b \in Branches,
                 NEW t \in Scheduled \cup {Asap}, StartCreate(w, u, b, t)
          PROVE  FALSE
      BY <1>2, <2>2 DEF StartCreate, TypeOK
    <2>3. worker'[w] # IdleWorker
      BY <1>2 DEF IdleWorker
    <2>4. worker'[w] # [worker[w] EXCEPT !.pc = "claim"]
      BY <1>2 DEF TypeOK, WorkerState
    <2>5. ASSUME CreateReadsClock(w),
                 worker'[w] = [worker[w] EXCEPT !.startAt = now]
          PROVE  worker'[w].slot \in Slots
      BY <2>5 DEF CreateReadsClock, KnownRows, TypeOK, WorkerState
    <2> QED
      BY <1>2, <2>1, <2>2, <2>3, <2>4, <2>5, WorkerSteps DEF KnownRows
  <1>3. ASSUME NEW c \in Calls, call'[c].pc # "idle"
        PROVE  call'[c].resv \in Resvs /\ res'[call'[c].resv].status # "NONE"
    <2>1. call'[c].resv \in Resvs /\ res[call'[c].resv].status # "NONE"
      <3>1. ASSUME NEW r \in Resvs, StartCancel(c, r)
            PROVE  call'[c].resv = r /\ res[r].status # "NONE"
        BY <3>1 DEF StartCancel, IdleCall, Live, TypeOK
      <3>2. ASSUME NEW r \in Resvs, StartEntry(c, r)
            PROVE  call'[c].resv = r /\ res[r].status # "NONE"
        BY <3>2 DEF StartEntry, Live, TypeOK
      <3>3. ASSUME NEW r \in Resvs, StartExit(c, r)
            PROVE  call'[c].resv = r /\ res[r].status # "NONE"
        BY <3>3 DEF StartExit, IdleCall, TypeOK, KnownRows
      <3> QED
        BY <1>3, <3>1, <3>2, <3>3, CallSteps DEF KnownRows
    <2> QED
      BY <2>1, RowsStay
  <1>4. ASSUME NEW k \in Sweeps
        PROVE  /\ \A r \in sweep'[k].todo : res'[r].status # "NONE"
               /\ sweep'[k].current # None
                    => sweep'[k].current \in sweep'[k].todo
    <2>1. ASSUME NEW r \in sweep'[k].todo
          PROVE  res'[r].status # "NONE"
      <3>1. r \in Resvs
        BY <2>1 DEF TypeOK, SweepState
      <3>2. res[r].status # "NONE"
        BY <2>1, SweepSteps DEF KnownRows, Overdue
      <3> QED
        BY <3>1, <3>2, RowsStay
    <2> QED
      BY <2>1, SweepSteps
  <1>5. ASSUME NEW r \in Resvs, session'[r].status # "NONE"
        PROVE  res'[r].status # "NONE"
    <2>1. CASE session[r].status # "NONE"
      BY <2>1, RowsStay DEF KnownRows
    <2>2. CASE session[r].status = "NONE"
      <3>1. ASSUME NEW c \in Calls, EntryCreate(c), call[c].resv # r
            PROVE  session'[r] = session[r]
        BY <3>1 DEF EntryCreate, TypeOK
      <3>2. ASSUME NEW c \in Calls, EntryCreate(c), call[c].resv = r
            PROVE  res[r].status # "NONE"
        BY <3>2 DEF EntryCreate, KnownRows
      <3>3. ASSUME NEW c \in Calls, ExitComplete(c), call[c].resv # r
            PROVE  session'[r] = session[r]
        BY <3>3 DEF ExitComplete, TypeOK
      <3>4. ASSUME NEW c \in Calls, ExitComplete(c), call[c].resv = r
            PROVE  res[r].status # "NONE"
        BY <3>4 DEF ExitComplete, KnownRows
      <3>5. res[r].status # "NONE"
        BY <1>5, <2>2, <3>1, <3>2, <3>3, <3>4, SessionChanges
      <3> QED
        BY <3>5, RowsStay
    <2> QED
      BY <2>1, <2>2
  <1> QED
    BY <1>1, <1>2, <1>3, <1>4, <1>5 DEF KnownRows

\* The rows a sweep holds stay overdue: time and startAt see to it.
LEMMA SweepsAreDueStep ==
    ASSUME TypeOK, TypeOK', KnownRows, SweepsAreDue, [Next]_vars
    PROVE  SweepsAreDue'
  <1> SUFFICES ASSUME NEW k \in Sweeps, NEW r \in sweep'[k].todo
               PROVE  res'[r].startAt + Tolerance < now'
    BY DEF SweepsAreDue, ExpiresAt
  <1>1. r \in Resvs
    BY DEF TypeOK, SweepState
  <1>2. res[r].status # "NONE" /\ res[r].startAt + Tolerance < now
    BY SweepSteps DEF KnownRows, SweepsAreDue, Overdue, ExpiresAt
  <1>3. res'[r].startAt = res[r].startAt
    BY <1>1, <1>2, RowsStay
  <1>4. now' >= now
    BY TimePasses
  <1> QED
    BY <1>1, <1>2, <1>3, <1>4, ParkingAssumption DEF TypeOK, ResRow

\* The sweep expires only rows that are overdue.
LEMMA NeverExpiredEarlyStep ==
    ASSUME TypeOK, TypeOK', KnownRows, SweepsAreDue, NeverExpiredEarly,
           [Next]_vars
    PROVE  NeverExpiredEarly'
  <1> SUFFICES ASSUME NEW r \in Resvs, res'[r].status = "EXPIRED"
               PROVE  res'[r].startAt + Tolerance < now'
    BY DEF NeverExpiredEarly, ExpiresAt
  <1>1. res[r].status # "NONE" /\ res[r].startAt + Tolerance < now
    <2>1. ASSUME NEW k \in Sweeps, NEW q \in Resvs, SweepExpire(k, q)
          PROVE  \/ res'[r] = res[r]
                 \/ /\ res[r].status # "NONE"
                    /\ res[r].startAt + Tolerance < now
      BY <2>1 DEF SweepExpire, SetRes, SweepsAreDue, ExpiresAt, KnownRows,
           TypeOK
    <2>2. ASSUME NEW c \in Calls,
                 CancelUpdate(c) \/ EntryConfirm(c) \/ ExitClose(c)
          PROVE  res'[r] = res[r]
      BY <2>2 DEF CancelUpdate, EntryConfirm, ExitClose, SetRes, TypeOK, ResRow
    <2>3. ASSUME NEW w \in Workers, NEW q \in Resvs, CreateInsert(w, q)
          PROVE  res'[r] = res[r]
      BY <2>3 DEF CreateInsert, TypeOK
    <2>4. res[r].status = "EXPIRED" => res[r].startAt + Tolerance < now
      BY DEF NeverExpiredEarly, ExpiresAt
    <2> QED
      BY <2>1, <2>2, <2>3, <2>4, ReservationChanges
  <1>2. res'[r].startAt = res[r].startAt
    BY <1>1, RowsStay
  <1>3. now' >= now
    BY TimePasses
  <1> QED
    BY <1>1, <1>2, <1>3, ParkingAssumption DEF TypeOK, ResRow

\* Clock readings of entries and exits stay in order.
LEMMA CallsInTimeStep ==
    ASSUME TypeOK, TypeOK', KnownRows, CallsInTime, StaysInTime, [Next]_vars
    PROVE  CallsInTime'
  <1>1. now' >= now
    BY TimePasses
  <1>2. ASSUME NEW c \in Calls, call'[c].pc \in EntryPC
        PROVE  /\ res'[call'[c].resv].startAt <= call'[c].at
               /\ call'[c].at <= now'
    <2>1. ASSUME NEW r \in Resvs, StartEntry(c, r)
          PROVE  /\ call'[c].resv = r /\ res[r].status # "NONE"
                 /\ res[r].startAt <= call'[c].at /\ call'[c].at <= now
      BY <2>1 DEF StartEntry, Live, TypeOK, ResRow
    <2>2. ASSUME NEW r \in Resvs, StartCancel(c, r) \/ StartExit(c, r)
          PROVE  FALSE
      BY <1>2, <2>2 DEF StartCancel, StartExit, IdleCall, EntryPC, TypeOK
    <2>3. /\ call'[c].resv \in Resvs /\ res[call'[c].resv].status # "NONE"
          /\ res[call'[c].resv].startAt <= call'[c].at /\ call'[c].at <= now
      BY <1>2, <2>1, <2>2, CallSteps DEF EntryPC, CallsInTime, KnownRows
    <2>4. res'[call'[c].resv].startAt = res[call'[c].resv].startAt
      BY <2>3, RowsStay
    <2> QED
      BY <1>1, <2>3, <2>4 DEF TypeOK, CallState
  <1>3. ASSUME NEW c \in Calls, call'[c].pc \in ExitPC
        PROVE  /\ session'[call'[c].resv].status # "NONE"
               /\ session'[call'[c].resv].entryAt <= call'[c].at
    <2>1. ASSUME NEW r \in Resvs, StartExit(c, r)
          PROVE  /\ call'[c].resv = r /\ session[r].status # "NONE"
                 /\ session[r].entryAt <= call'[c].at
      BY <2>1 DEF StartExit, IdleCall, TypeOK, StaysInTime
    <2>2. ASSUME NEW r \in Resvs, StartCancel(c, r)
          PROVE  FALSE
      BY <1>3, <2>2 DEF StartCancel, IdleCall, ExitPC, TypeOK
    <2>4. ASSUME NEW r \in Resvs, StartEntry(c, r)
          PROVE  FALSE
      BY <1>3, <2>4 DEF StartEntry, ExitPC, TypeOK
    <2>3. /\ call'[c].resv \in Resvs /\ session[call'[c].resv].status # "NONE"
          /\ session[call'[c].resv].entryAt <= call'[c].at
      BY <1>3, <2>1, <2>2, <2>4, CallSteps DEF ExitPC, CallsInTime, KnownRows
    <2> QED
      BY <2>3, SessionsStay
  <1> QED
    BY <1>2, <1>3 DEF CallsInTime

\* The times recorded in sessions stay in order.
LEMMA StaysInTimeStep ==
    ASSUME TypeOK, TypeOK', KnownRows, CallsInTime, StaysInTime, [Next]_vars
    PROVE  StaysInTime'
  <1> SUFFICES ASSUME NEW r \in Resvs, session'[r].status # "NONE"
               PROVE  /\ res'[r].startAt <= session'[r].entryAt
                      /\ session'[r].entryAt <= now'
                      /\ session'[r].status = "COMPLETED"
                           => session'[r].entryAt <= session'[r].exitAt
    BY DEF StaysInTime
  <1>1. /\ res[r].status # "NONE"
        /\ res[r].startAt <= session'[r].entryAt
        /\ session'[r].entryAt <= now
        /\ session'[r].status = "COMPLETED"
             => session'[r].entryAt <= session'[r].exitAt
    <2>1. CASE session'[r] = session[r]
      BY <2>1 DEF StaysInTime, KnownRows
    <2>2. ASSUME NEW c \in Calls, EntryCreate(c), session'[r] # session[r]
          PROVE  /\ session'[r].entryAt = call[c].at
                 /\ session'[r].status = "ACTIVE"
                 /\ call[c].resv = r
                 /\ call[c].pc \in EntryPC /\ call[c].pc # "idle"
      BY <2>2 DEF EntryCreate, EntryPC, TypeOK
    <2>3. ASSUME NEW c \in Calls, EntryCreate(c), session'[r] # session[r]
          PROVE  /\ res[r].status # "NONE"
                 /\ res[r].startAt <= session'[r].entryAt
                 /\ session'[r].entryAt <= now
                 /\ session'[r].status = "ACTIVE"
      <3>1. /\ res[r].startAt <= call[c].at /\ call[c].at <= now
            /\ res[r].status # "NONE"
        BY <2>2, <2>3 DEF CallsInTime, KnownRows
      <3> QED
        BY <2>2, <2>3, <3>1
    <2>4. ASSUME NEW c \in Calls, ExitComplete(c), session'[r] # session[r]
          PROVE  /\ call[c].resv = r /\ call[c].pc \in ExitPC
                 /\ session'[r].entryAt = session[r].entryAt
                 /\ session'[r].exitAt = call[c].at
      BY <2>4 DEF ExitComplete, ExitPC, TypeOK, SessionRow
    <2>5. ASSUME NEW c \in Calls, ExitComplete(c), session'[r] # session[r]
          PROVE  /\ res[r].status # "NONE"
                 /\ res[r].startAt <= session'[r].entryAt
                 /\ session'[r].entryAt <= now
                 /\ session'[r].entryAt <= session'[r].exitAt
      BY <2>4, <2>5 DEF CallsInTime, StaysInTime, KnownRows
    <2> QED
      BY <2>1, <2>3, <2>5, SessionChanges
  <1>2. res'[r].startAt = res[r].startAt
    BY <1>1, RowsStay
  <1>3. now' >= now
    BY TimePasses
  <1> QED
    BY <1>1, <1>2, <1>3 DEF TypeOK, SessionRow

\* An exit that found its payment keeps being covered by it.
LEMMA ExitsArePaidStep ==
    ASSUME TypeOK, TypeOK', KnownRows, CallsInTime, ExitsArePaid, [Next]_vars
    PROVE  ExitsArePaid'
  <1> SUFFICES ASSUME NEW c \in Calls, call'[c].pc \in PaidPC
               PROVE  /\ paid'[call'[c].resv] > 0
                      /\ Price(session'[call'[c].resv].entryAt, call'[c].at)
                           <= paid'[call'[c].resv]
    BY DEF ExitsArePaid, PaidPC, Covers
  <1>1. ASSUME NEW r \in Resvs,
               StartCancel(c, r) \/ StartEntry(c, r) \/ StartExit(c, r)
        PROVE  FALSE
    <2>1. ~StartCancel(c, r)
      BY DEF StartCancel, IdleCall, PaidPC, TypeOK
    <2>2. ~StartEntry(c, r)
      BY DEF StartEntry, PaidPC, TypeOK
    <2>3. ~StartExit(c, r)
      BY DEF StartExit, IdleCall, PaidPC, TypeOK
    <2> QED
      BY <1>1, <2>1, <2>2, <2>3
  <1>2. /\ call[c].pc # "idle" /\ call[c].pc \in ExitPC
        /\ call'[c].resv = call[c].resv /\ call'[c].at = call[c].at
        /\ call[c].pc \in PaidPC \/ Covers(call[c].resv, call[c].at)
    BY <1>1, CallSteps DEF PaidPC, ExitPC
  <1>3. /\ call[c].resv \in Resvs /\ call[c].at \in Nat
        /\ session[call[c].resv].status # "NONE"
    BY <1>2 DEF KnownRows, CallsInTime, TypeOK, CallState
  <1>4. Covers(call[c].resv, call[c].at)
    BY <1>2 DEF ExitsArePaid, PaidPC
  <1> QED
    BY <1>2, <1>3, <1>4, CoversStays

\* A session is completed with an exit time its payment covers.
LEMMA CompletedStaysArePaidStep ==
    ASSUME TypeOK, TypeOK', KnownRows, CallsInTime, ExitsArePaid,
           CompletedStaysArePaid, [Next]_vars
    PROVE  CompletedStaysArePaid'
  <1> SUFFICES ASSUME NEW r \in Resvs, session'[r].status = "COMPLETED"
               PROVE  /\ paid'[r] > 0
                      /\ Price(session'[r].entryAt, session'[r].exitAt)
                           <= paid'[r]
    BY DEF CompletedStaysArePaid, Covers
  <1>1. session[r].status # "NONE" /\ Covers(r, session'[r].exitAt)
    <2>1. CASE session'[r] = session[r]
      BY <2>1 DEF CompletedStaysArePaid
    <2>2. ASSUME NEW c \in Calls, EntryCreate(c)
          PROVE  session'[r] = session[r]
      BY <2>2 DEF EntryCreate, TypeOK, SessionRow
    <2>3. ASSUME NEW c \in Calls, ExitComplete(c), session'[r] # session[r]
          PROVE  /\ call[c].resv = r
                 /\ call[c].pc \in ExitPC /\ call[c].pc \in PaidPC
                 /\ session'[r].exitAt = call[c].at
      BY <2>3 DEF ExitComplete, ExitPC, PaidPC, TypeOK, SessionRow
    <2>4. ASSUME NEW c \in Calls, ExitComplete(c), session'[r] # session[r]
          PROVE  session[r].status # "NONE" /\ Covers(r, session'[r].exitAt)
      BY <2>3, <2>4 DEF CallsInTime, ExitsArePaid, PaidPC
    <2> QED
      BY <2>1, <2>2, <2>4, SessionChanges
  <1>2. session'[r].exitAt \in Nat
    BY DEF TypeOK, SessionRow
  <1> QED
    BY <1>1, <1>2, CoversStays

\* A call reaches the last statement of an exit by releasing the slot.
LEMMA CallCloses ==
    ASSUME TypeOK, [Next]_vars, NEW c \in Calls,
           call'[c].pc = "exitClose", call[c].pc # "exitClose"
    PROVE  ExitRelease(c)
  <1> USE DEF TypeOK
  <1>1. ASSUME NEW d \in Calls, NEW pc, Goto(d, pc), pc # "exitClose"
        PROVE  FALSE
    BY <1>1 DEF Goto, CallState
  <1>2. ASSUME NEW d \in Calls, EndCall(d)
        PROVE  FALSE
    BY <1>2 DEF EndCall, IdleCall
  <1>3. ASSUME NEW d \in Calls, \/ CancelUpdate(d) \/ EntryCheckSession(d)
                                \/ EntryConfirm(d) \/ EntryCreate(d)
        PROVE  FALSE
    BY <1>1, <1>2, <1>3 DEF CancelUpdate, EntryCheckSession, EntryConfirm,
         EntryCreate
  <1>4. ASSUME NEW d \in Calls,
               \/ ExitCheckPayment(d) \/ ExitRecheck(d) \/ ExitComplete(d)
        PROVE  FALSE
    BY <1>1, <1>2, <1>4 DEF ExitCheckPayment, ExitRecheck, ExitComplete
  <1>5. ASSUME NEW d \in Calls,
               \/ CancelRelease(d) \/ EntryOccupy(d)
               \/ ExitClose(d) \/ CallFails(d)
        PROVE  FALSE
    BY <1>2, <1>5 DEF CancelRelease, EntryOccupy, ExitClose, CallFails
  <1>6. ASSUME NEW d \in Calls, ExitRelease(d)
        PROVE  ExitRelease(c)
    BY <1>6 DEF ExitRelease, Goto
  <1>7. ASSUME NEW d \in Calls, NEW r \in Resvs,
               StartCancel(d, r) \/ StartExit(d, r)
        PROVE  FALSE
    BY <1>7 DEF StartCancel, StartExit, IdleCall
  <1>8. ASSUME NEW d \in Calls, NEW r \in Resvs, StartEntry(d, r)
        PROVE  FALSE
    BY <1>8 DEF StartEntry
  <1> QED
    BY <1>3, <1>4, <1>5, <1>6, <1>7, <1>8, CallChanges

\* No step makes a reserved slot forgotten: each way of answering for a
\* slot is kept, handed to the next handler, or ends with the slot released.
LEMMA AccountedStep ==
    ASSUME TypeOK, TypeOK', KnownRows, KnownRows', Accounted, [Next]_vars
    PROVE  Accounted'
  <1> SUFFICES ASSUME NEW s \in Slots, slotStatus'[s] = "RESERVADA"
               PROVE  \/ Claiming(s)' \/ HeldFirmly(s)'
                      \/ Releasing(s)' \/ s \in orphaned'
    BY DEF Accounted
  <1>1. ASSUME NEW w \in Workers, CreateClaim(w, s)
        PROVE  Claiming(s)'
    BY <1>1 DEF CreateClaim, Claiming, TypeOK
  <1>2. CASE slotStatus[s] # "RESERVADA"
    <2>1. ASSUME NEW w \in Workers, NEW t \in Slots, CreateClaim(w, t), t # s
          PROVE  slotStatus'[s] = slotStatus[s]
      BY <2>1 DEF CreateClaim, SetSlot, TypeOK
    <2>2. ASSUME NEW t, NEW status, SetSlot(t, status), status # "RESERVADA"
          PROVE  FALSE
      BY <1>2, <2>2 DEF SetSlot, TypeOK
    <2>3. ASSUME NEW c \in Calls,
                 CancelRelease(c) \/ EntryOccupy(c) \/ ExitRelease(c)
          PROVE  FALSE
      BY <2>2, <2>3 DEF CancelRelease, EntryOccupy, ExitRelease
    <2>4. ASSUME NEW k \in Sweeps, SweepRelease(k)
          PROVE  FALSE
      BY <2>2, <2>4 DEF SweepRelease
    <2>5. ASSUME NEW t \in Slots, ReportSlotBlocked(t)
          PROVE  FALSE
      BY <2>2, <2>5 DEF ReportSlotBlocked
    <2>6. ASSUME NEW b \in Branches, SimulateBranchFull(b)
          PROVE  FALSE
      BY <1>2, <2>6 DEF SimulateBranchFull
    <2> QED
      BY <1>1, <1>2, <2>1, <2>3, <2>4, <2>5, <2>6, SlotChanges
  <1>3. ASSUME NEW w \in Workers, worker[w].pc = "insert", worker[w].slot = s
        PROVE  Claiming(s)' \/ HeldFirmly(s)' \/ s \in orphaned'
    <2>1. CASE worker'[w] = worker[w]
      BY <1>3, <2>1 DEF Claiming
    <2>2. ASSUME NEW r \in Resvs, CreateInsert(w, r)
          PROVE  HeldFirmly(s)'
      <3>1. res'[r].status = "PENDING" /\ res'[r].slot = s
        BY <1>3, <2>2 DEF CreateInsert, TypeOK
      <3>2. \A c \in Calls : ~(call'[c].pc = "exitClose" /\ call'[c].resv = r)
        BY <2>2 DEF CreateInsert, KnownRows
      <3> QED
        BY <3>1, <3>2 DEF HeldFirmly, Live
    <2>3. ASSUME WorkerFails(w)
          PROVE  s \in orphaned'
      BY <1>3, <2>3 DEF WorkerFails
    <2>4. ASSUME NEW v \in Workers, v # w, \/ WorkerFails(v) \/ CreateNoSlot(v)
                    \/ CreateCheckSession(v)
                    \/ \E r \in Resvs : CreateInsert(v, r)
          PROVE  worker'[w] = worker[w]
      BY <2>4 DEF WorkerFails, CreateNoSlot, CreateCheckSession, CreateInsert,
           EndWorker, TypeOK
    <2>5. ASSUME NEW v \in Workers, NEW t \in Slots, CreateClaim(v, t)
          PROVE  worker'[w] = worker[w]
      BY <1>3, <2>5 DEF CreateClaim, TypeOK
    <2>6. ASSUME NEW v \in Workers, NEW u \in Users, NEW b \in Branches,
                 NEW t \in Scheduled \cup {Asap}, StartCreate(v, u, b, t)
          PROVE  worker'[w] = worker[w]
      BY <1>3, <2>6 DEF StartCreate, TypeOK
    <2>7. ~CreateNoSlot(w) /\ ~CreateCheckSession(w)
      BY <1>3 DEF CreateNoSlot, CreateCheckSession
    <2>8. ASSUME NEW v \in Workers, CreateReadsClock(v)
          PROVE  Claiming(s)'
      BY <1>3, <2>8 DEF CreateReadsClock, Claiming, TypeOK, WorkerState
    <2> QED
      BY <2>1, <2>2, <2>3, <2>4, <2>5, <2>6, <2>7, <2>8, WorkerChanges
  <1>4. ASSUME NEW t, NEW status, SetSlot(t, status), status # "RESERVADA"
        PROVE  t # s
    BY <1>4 DEF SetSlot, TypeOK
  <1>5. ASSUME NEW r \in Resvs, res[r].status \in Live, res[r].slot = s,
               \A c \in Calls : ~(call[c].pc = "exitClose" /\ call[c].resv = r)
        PROVE  HeldFirmly(s)' \/ Releasing(s)'
    <2>1. res'[r].slot = s
      BY <1>5, RowsStay DEF Live
    <2>2. ASSUME NEW c \in Calls, call'[c].pc = "exitClose", call'[c].resv = r
          PROVE  FALSE
      <3>1. call[c].resv = r
        <4>1. ASSUME NEW q \in Resvs
              PROVE  ~StartCancel(c, q) /\ ~StartExit(c, q)
          BY <2>2 DEF StartCancel, StartExit, IdleCall, TypeOK
        <4>2. ASSUME NEW q \in Resvs
              PROVE  ~StartEntry(c, q)
          BY <2>2 DEF StartEntry, TypeOK
        <4> QED
          BY <2>2, <4>1, <4>2, CallSteps
      <3>2. ExitRelease(c)
        BY <1>5, <2>2, <3>1, CallCloses
      <3>3. SetSlot(s, "DISPONIBLE")
        BY <1>5, <3>1, <3>2 DEF ExitRelease
      <3> QED
        BY <3>3, <1>4
    <2>3. CASE res'[r].status \in Live
      BY <2>1, <2>2, <2>3 DEF HeldFirmly
    <2>4. CASE res'[r].status \notin Live
      <3>1. res'[r] # res[r] /\ res[r].status # "NONE"
        BY <1>5, <2>4 DEF Live
      <3>2. ASSUME NEW c \in Calls, CancelUpdate(c)
            PROVE  Releasing(s)'
        <4>1. call[c].resv = r
          BY <3>1, <3>2 DEF CancelUpdate, SetRes, TypeOK
        <4>2. call'[c].pc = "cancelRelease" /\ call'[c].resv = r
          BY <3>2, <4>1 DEF CancelUpdate, Goto, TypeOK, CallState
        <4> QED
          BY <2>1, <4>2 DEF Releasing
      <3>3. ASSUME NEW k \in Sweeps, NEW q \in Resvs, SweepExpire(k, q)
            PROVE  Releasing(s)'
        <4>1. q = r
          BY <3>1, <3>3 DEF SweepExpire, SetRes, TypeOK
        <4>2. sweep'[k].current = r /\ r # None
          BY <3>3, <4>1, ParkingAssumption DEF SweepExpire, TypeOK, SweepState
        <4> QED
          BY <2>1, <4>2 DEF Releasing
      <3>4. ASSUME NEW c \in Calls, ExitClose(c)
            PROVE  FALSE
        BY <1>5, <3>1, <3>4 DEF ExitClose, SetRes, TypeOK
      <3>5. ASSUME NEW c \in Calls, EntryConfirm(c)
            PROVE  FALSE
        BY <2>4, <3>1, <3>5 DEF EntryConfirm, SetRes, TypeOK, ResRow, Live
      <3>6. ASSUME NEW w \in Workers, NEW q \in Resvs, CreateInsert(w, q)
            PROVE  FALSE
        BY <3>1, <3>6 DEF CreateInsert, TypeOK
      <3> QED
        BY <3>1, <3>2, <3>3, <3>4, <3>5, <3>6, ReservationChanges
    <2> QED
      BY <2>3, <2>4
  <1>6. ASSUME NEW c \in Calls,
               call[c].pc \in {"cancelRelease", "exitRelease"},
               res[call[c].resv].slot = s
        PROVE  Releasing(s)' \/ s \in orphaned'
    <2>1. CASE call'[c] = call[c]
      <3>1. res'[call[c].resv].slot = s
        BY <1>6, RowsStay DEF KnownRows
      <3> QED
        BY <1>6, <2>1, <3>1 DEF Releasing
    <2>2. ASSUME CallFails(c)
          PROVE  s \in orphaned'
      BY <1>6, <2>2 DEF CallFails
    <2>3. ~CancelRelease(c) /\ ~ExitRelease(c)
      BY <1>4, <1>6 DEF CancelRelease, ExitRelease
    <2>4. ASSUME NEW d \in Calls, d # c,
                 \/ CancelUpdate(d) \/ CancelRelease(d)
                 \/ EntryCheckSession(d) \/ EntryConfirm(d) \/ EntryCreate(d)
                 \/ EntryOccupy(d) \/ ExitCheckPayment(d) \/ ExitRecheck(d)
                 \/ ExitComplete(d) \/ ExitRelease(d) \/ ExitClose(d)
                 \/ CallFails(d)
          PROVE  call'[c] = call[c]
      BY <2>4 DEF CancelUpdate, CancelRelease, EntryCheckSession, EntryConfirm,
           EntryCreate, EntryOccupy, ExitCheckPayment, ExitRecheck,
           ExitComplete,
           ExitRelease, ExitClose, CallFails, EndCall, Goto, TypeOK
    <2>5. ~(\/ CancelUpdate(c) \/ EntryCheckSession(c) \/ EntryConfirm(c)
            \/ EntryCreate(c) \/ EntryOccupy(c) \/ ExitCheckPayment(c)
            \/ ExitRecheck(c) \/ ExitComplete(c) \/ ExitClose(c))
      BY <1>6 DEF CancelUpdate, EntryCheckSession, EntryConfirm, EntryCreate,
           EntryOccupy, ExitCheckPayment, ExitRecheck, ExitComplete, ExitClose
    <2>6. ASSUME NEW d \in Calls, NEW r \in Resvs,
                 StartCancel(d, r) \/ StartEntry(d, r) \/ StartExit(d, r)
          PROVE  call'[c] = call[c]
      BY <1>6, <2>6 DEF StartCancel, StartEntry, StartExit, TypeOK
    <2> QED
      BY <2>1, <2>2, <2>3, <2>4, <2>5, <2>6, CallChanges
  <1>7. ASSUME NEW k \in Sweeps, sweep[k].current # None,
               res[sweep[k].current].slot = s
        PROVE  Releasing(s)' \/ s \in orphaned'
    <2>1. sweep[k].current \in sweep[k].todo /\ sweep[k].current \in Resvs
      BY <1>7 DEF KnownRows, TypeOK, SweepState
    <2>2. CASE sweep'[k] = sweep[k]
      <3>1. res'[sweep[k].current].slot = s
        BY <1>7, <2>1, RowsStay DEF KnownRows
      <3> QED
        BY <1>7, <2>2, <3>1 DEF Releasing
    <2>3. ASSUME SweepFails(k)
          PROVE  s \in orphaned'
      BY <1>7, <2>3 DEF SweepFails
    <2>4. ~SweepRelease(k)
      BY <1>4, <1>7 DEF SweepRelease
    <2>5. ~StartSweep(k) /\ \A r \in Resvs : ~SweepExpire(k, r)
      BY <1>7, <2>1 DEF StartSweep, SweepExpire
    <2>6. ASSUME NEW j \in Sweeps, j # k,
                 \/ StartSweep(j) \/ SweepRelease(j) \/ SweepFails(j)
                 \/ \E r \in Resvs : SweepExpire(j, r)
          PROVE  sweep'[k] = sweep[k]
      BY <2>6 DEF StartSweep, SweepRelease, SweepFails, SweepExpire, TypeOK
    <2> QED
      BY <2>2, <2>3, <2>4, <2>5, <2>6, SweepChanges
  <1>8. ASSUME s \in orphaned
        PROVE  Claiming(s)' \/ s \in orphaned'
    <2>1. ASSUME NEW w \in Workers, NEW t \in Slots, CreateClaim(w, t), t # s
          PROVE  s \in orphaned'
      BY <1>8, <2>1 DEF CreateClaim
    <2>2. ASSUME \/ \E w \in Workers : WorkerFails(w)
                 \/ \E c \in Calls : CallFails(c)
                 \/ \E k \in Sweeps : SweepFails(k)
          PROVE  s \in orphaned'
      BY <1>8, <2>2 DEF WorkerFails, CallFails, SweepFails
    <2> QED
      BY <1>1, <1>8, <2>1, <2>2, OrphanChanges
  <1> QED
    BY <1>2, <1>3, <1>5, <1>6, <1>7, <1>8 DEF Accounted, Claiming, HeldFirmly,
         Releasing

\* Every step keeps the tables and the handlers well typed.
LEMMA TypeStep == TypeOK /\ KnownRows /\ [Next]_vars => TypeOK'
  <1> SUFFICES ASSUME TypeOK, KnownRows, [Next]_vars PROVE TypeOK'
    OBVIOUS
  <1> USE RowTypes, SetResType, SetSlotType, GotoType DEF TypeOK, EndCall,
       EndWorker, tables
  <1> /\ "DISPONIBLE" \in SlotStatuses /\ "OCUPADA" \in SlotStatuses
      /\ "RESERVADA" \in SlotStatuses /\ "NO_DISPONIBLE" \in SlotStatuses
    BY DEF SlotStatuses
  <1> /\ "CANCELLED" \in ResStatuses /\ "CONFIRMED" \in ResStatuses
      /\ "COMPLETED" \in ResStatuses /\ "EXPIRED" \in ResStatuses
    BY DEF ResStatuses, Live
  <1>1. ASSUME Tick
        PROVE  TypeOK'
    BY <1>1 DEF Tick
  <1>2. ASSUME NEW w \in Workers, NEW u \in Users, NEW b \in Branches,
               NEW t \in Scheduled \cup {Asap}, StartCreate(w, u, b, t)
        PROVE  TypeOK'
    BY <1>2, ParkingAssumption DEF StartCreate, WorkerState, WorkerPC, Asap
  <1>3. ASSUME NEW w \in Workers, CreateCheckSession(w)
        PROVE  TypeOK'
    BY <1>3 DEF CreateCheckSession, WorkerState, WorkerPC
  <1>4. ASSUME NEW w \in Workers, NEW s \in Slots, CreateClaim(w, s)
        PROVE  TypeOK'
    <2>1. worker' \in [Workers -> WorkerState]
      <3> DEFINE claimed == [worker[w] EXCEPT !.pc = "insert", !.slot = s]
      <3>1. worker' = [worker EXCEPT ![w] = claimed]
        BY <1>4 DEF CreateClaim
      <3>2. claimed \in WorkerState
        BY DEF WorkerState, WorkerPC
      <3> QED
        BY <3>1, <3>2
    <2>2. slotStatus' \in [Slots -> SlotStatuses]
      BY <1>4 DEF CreateClaim
    <2> QED
      BY <1>4, <2>1, <2>2 DEF CreateClaim
  <1>5. ASSUME NEW w \in Workers, CreateNoSlot(w)
        PROVE  TypeOK'
    BY <1>5 DEF CreateNoSlot
  <1>6. ASSUME NEW w \in Workers, NEW r \in Resvs, CreateInsert(w, r)
        PROVE  TypeOK'
    BY <1>6 DEF CreateInsert, ResRow, ResStatuses, Live, WorkerState, KnownRows
  <1>31. ASSUME NEW w \in Workers, CreateReadsClock(w)
        PROVE  TypeOK'
    BY <1>31 DEF CreateReadsClock, WorkerState
  <1>7. ASSUME NEW c \in Calls, NEW r \in Resvs,
               StartCancel(c, r) PROVE TypeOK'
    BY <1>7 DEF StartCancel, CallState, CallPC, IdleCall
  <1>8. ASSUME NEW c \in Calls, CancelUpdate(c)
        PROVE  TypeOK'
    BY <1>8 DEF CancelUpdate, CallPC
  <1>9. ASSUME NEW c \in Calls, CancelRelease(c)
        PROVE  TypeOK'
    BY <1>9 DEF CancelRelease
  <1>10. ASSUME NEW c \in Calls, NEW r \in Resvs, StartEntry(c, r)
        PROVE  TypeOK'
    BY <1>10 DEF StartEntry, CallState, CallPC, Live
  <1>11. ASSUME NEW c \in Calls, EntryCheckSession(c)
        PROVE  TypeOK'
    BY <1>11 DEF EntryCheckSession, CallPC
  <1>12. ASSUME NEW c \in Calls, EntryConfirm(c)
        PROVE  TypeOK'
    BY <1>12 DEF EntryConfirm, CallPC
  <1>13. ASSUME NEW c \in Calls, EntryCreate(c)
        PROVE  TypeOK'
    <2> DEFINE q == call[c].resv
               row == [status |-> "ACTIVE", entryAt |-> call[c].at,
                       exitAt |-> 0]
    <2>1. CASE session[q].status = "NONE"
      <3>1. session' = [session EXCEPT ![q] = row]
        BY <1>13, <2>1 DEF EntryCreate
      <3>2. call[c].at \in Nat
        BY DEF CallState
      <3>3. row \in SessionRow
        BY <3>2 DEF SessionRow, SessionStatuses
      <3>4. session' \in [Resvs -> SessionRow]
        BY <3>1, <3>3
      <3>5. call' \in [Calls -> CallState]
        BY <1>13, <2>1 DEF EntryCreate, CallPC
      <3> QED
        BY <1>13, <3>4, <3>5 DEF EntryCreate
    <2>2. CASE session[q].status # "NONE"
      BY <1>13, <2>2 DEF EntryCreate
    <2> QED
      BY <2>1, <2>2
  <1>14. ASSUME NEW c \in Calls, EntryOccupy(c)
        PROVE  TypeOK'
    BY <1>14 DEF EntryOccupy
  <1>15. ASSUME NEW c \in Calls, NEW r \in Resvs, StartExit(c, r)
        PROVE  TypeOK'
    BY <1>15 DEF StartExit, CallState, CallPC, IdleCall
  <1>16. ASSUME NEW c \in Calls, ExitCheckPayment(c)
        PROVE  TypeOK'
    BY <1>16 DEF ExitCheckPayment, CallPC
  <1>17. ASSUME NEW c \in Calls, ExitRecheck(c)
        PROVE  TypeOK'
    BY <1>17 DEF ExitRecheck, CallPC
  <1>18. ASSUME NEW c \in Calls, ExitComplete(c)
        PROVE  TypeOK'
    BY <1>18 DEF ExitComplete, SessionRow, SessionStatuses, CallState, CallPC
  <1>19. ASSUME NEW c \in Calls, ExitRelease(c)
        PROVE  TypeOK'
    BY <1>19 DEF ExitRelease, CallPC
  <1>20. ASSUME NEW c \in Calls, ExitClose(c)
        PROVE  TypeOK'
    BY <1>20 DEF ExitClose
  <1>21. ASSUME NEW k \in Sweeps, StartSweep(k)
        PROVE  TypeOK'
    BY <1>21 DEF StartSweep, SweepState
  <1>22. ASSUME NEW k \in Sweeps, NEW r \in Resvs, SweepExpire(k, r)
        PROVE  TypeOK'
    BY <1>22 DEF SweepExpire, SweepState
  <1>23. ASSUME NEW k \in Sweeps, SweepRelease(k)
        PROVE  TypeOK'
    BY <1>23 DEF SweepRelease, SweepState
  <1>24. ASSUME NEW s \in Slots, ReportSlotBlocked(s)
        PROVE  TypeOK'
    BY <1>24 DEF ReportSlotBlocked
  <1>25. ASSUME NEW b \in Branches, SimulateBranchFull(b)
        PROVE  TypeOK'
    BY <1>25 DEF SimulateBranchFull
  <1>26. ASSUME NEW r \in Resvs, NEW t \in session[r].entryAt..now, Pay(r, t)
        PROVE  TypeOK'
    <2>1. session[r].entryAt \in Int /\ t \in Int
      BY DEF SessionRow
    <2>2. Price(session[r].entryAt, t) \in Nat
      BY <2>1, PriceType
    <2> QED
      BY <1>26, <2>2 DEF Pay
  <1>27. ASSUME NEW w \in Workers, WorkerFails(w)
        PROVE  TypeOK'
    BY <1>27 DEF WorkerFails, KnownRows
  <1>28. ASSUME NEW c \in Calls, CallFails(c)
        PROVE  TypeOK'
    BY <1>28 DEF CallFails, KnownRows, CallState
  <1>29. ASSUME NEW k \in Sweeps, SweepFails(k)
        PROVE  TypeOK'
    <2>1. sweep[k].current # None => res[sweep[k].current].slot \in Slots
      BY DEF KnownRows, SweepState
    <2>2. orphaned' \in SUBSET Slots
      BY <1>29, <2>1 DEF SweepFails
    <2> QED
      BY <1>29, <2>2 DEF SweepFails
  <1>30. CASE UNCHANGED vars
    BY <1>30 DEF vars
  <1> QED
    BY <1>1, <1>2, <1>3, <1>4, <1>5, <1>6, <1>7, <1>8, <1>9, <1>10, <1>11,
         <1>12, <1>13, <1>14, <1>15, <1>16, <1>17, <1>18, <1>19, <1>20, <1>21,
         <1>22, <1>23, <1>24, <1>25, <1>26, <1>27, <1>28, <1>29, <1>30, <1>31
         DEF Next, Step, Failure, Request, WorkerStep, CallStep, SweepStep

\* A PENDING row has just been inserted, or is the row it was.
LEMMA PendingRows ==
    ASSUME TypeOK, [Next]_vars, NEW r \in Resvs, res'[r].status = "PENDING"
    PROVE  res'[r] = res[r] \/ \E w \in Workers : CreateInsert(w, r)
  <1>1. ASSUME NEW c \in Calls,
               CancelUpdate(c) \/ EntryConfirm(c) \/ ExitClose(c)
        PROVE  res'[r] = res[r]
    BY <1>1 DEF CancelUpdate, EntryConfirm, ExitClose, SetRes, TypeOK, ResRow
  <1>2. ASSUME NEW k \in Sweeps, NEW q \in Resvs, SweepExpire(k, q)
        PROVE  res'[r] = res[r]
    BY <1>2 DEF SweepExpire, SetRes, TypeOK, ResRow
  <1>3. ASSUME NEW w \in Workers, NEW q \in Resvs, CreateInsert(w, q), q # r
        PROVE  res'[r] = res[r]
    BY <1>3 DEF CreateInsert, TypeOK
  <1> QED
    BY <1>1, <1>2, <1>3, ReservationChanges

\* An execution that runs after a step ran before it for the same user, or
\* begins with it, having found no live reservation of its user.
LEMMA WorkerRuns ==
    ASSUME TypeOK, [Next]_vars, NEW w \in Workers, worker'[w].pc # "idle"
    PROVE  \/ worker[w].pc # "idle" /\ worker'[w].user = worker[w].user
           \/ /\ res' = res
              /\ \A r \in Resvs : ~(/\ res[r].user = worker'[w].user
                                    /\ res[r].status \in Live)
  <1>1. ASSUME NEW u \in Users, NEW b \in Branches,
               NEW t \in Scheduled \cup {Asap}, StartCreate(w, u, b, t)
        PROVE  /\ res' = res /\ worker'[w].user = u
               /\ \A r \in Resvs : ~(res[r].user = u /\ res[r].status \in Live)
    BY <1>1 DEF StartCreate, TypeOK, tables
  <1>2. ASSUME NEW s \in Slots, CreateClaim(w, s)
        PROVE  worker[w].pc # "idle" /\ worker'[w].user = worker[w].user
    BY <1>2 DEF CreateClaim, TypeOK, WorkerState
  <1>3. ASSUME CreateCheckSession(w),
               worker'[w] = [worker[w] EXCEPT !.pc = "claim"]
        PROVE  worker[w].pc # "idle" /\ worker'[w].user = worker[w].user
    BY <1>3 DEF CreateCheckSession, TypeOK, WorkerState
  <1>4. ASSUME CreateReadsClock(w),
               worker'[w] = [worker[w] EXCEPT !.startAt = now]
        PROVE  worker[w].pc # "idle" /\ worker'[w].user = worker[w].user
    BY <1>4 DEF CreateReadsClock, TypeOK, WorkerState
  <1>5. worker'[w] # IdleWorker
    BY DEF IdleWorker
  <1> QED
    BY <1>1, <1>2, <1>3, <1>4, <1>5, WorkerSteps

\* What an execution cannot have seen is on its record.
LEMMA UnseenPendingStep ==
    ASSUME TypeOK, UnseenPending, [Next]_vars, Record
    PROVE  UnseenPending'
  <1> SUFFICES ASSUME NEW w \in Workers, worker'[w].pc # "idle",
                      NEW r \in Resvs, res'[r].status = "PENDING",
                      res'[r].user = worker'[w].user
               PROVE  r \in since'[w]
    BY DEF UnseenPending
  <1>1. since'[w] = since[w] \cup NewRows
    BY DEF Record
  <1>2. ASSUME NEW v \in Workers, CreateInsert(v, r)
        PROVE  r \in NewRows
    BY <1>2 DEF CreateInsert, NewRows
  <1>3. CASE res'[r] = res[r]
    <2>1. worker[w].pc # "idle" /\ worker'[w].user = worker[w].user
      BY <1>3, WorkerRuns DEF Live
    <2> QED
      BY <1>1, <1>3, <2>1 DEF UnseenPending
  <1> QED
    BY <1>1, <1>2, <1>3, PendingRows

\* The execution that inserts a second PENDING row of a user has the first one
\* on its record.
LEMMA TwoPendingStep ==
    ASSUME TypeOK, UnseenPending, TwoPendingOnlyByOverlap, [Next]_vars, Record
    PROVE  TwoPendingOnlyByOverlap'
  <1>1. ASSUME NEW r \in Resvs, NEW q \in Resvs, r # q,
               res'[r].status = "PENDING", res'[q].status = "PENDING",
               res'[r].user = res'[q].user,
               NEW w \in Workers, CreateInsert(w, r)
        PROVE  {q, r} \in overlaps'
    <2>1. res'[q] = res[q] /\ res'[r].user = worker[w].user
      BY <1>1 DEF CreateInsert, TypeOK
    <2>2. q \in since[w]
      BY <1>1, <2>1 DEF UnseenPending, CreateInsert
    <2>3. r \in NewRows
      BY <1>1 DEF CreateInsert, NewRows
    <2>4. w \in Ending
      BY <1>1 DEF CreateInsert, EndWorker, IdleWorker, Ending, TypeOK
    <2> QED
      BY <2>2, <2>3, <2>4 DEF Record
  <1> SUFFICES ASSUME NEW r1 \in Resvs, NEW r2 \in Resvs, r1 # r2,
                      res'[r1].status = "PENDING", res'[r2].status = "PENDING",
                      res'[r1].user = res'[r2].user
               PROVE  {r1, r2} \in overlaps'
    BY DEF TwoPendingOnlyByOverlap
  <1>2. {r1, r2} = {r2, r1}
    OBVIOUS
  <1>3. CASE res'[r1] = res[r1] /\ res'[r2] = res[r2]
    BY <1>3 DEF TwoPendingOnlyByOverlap, Record
  <1> QED
    BY <1>1, <1>2, <1>3, PendingRows

\* The empty tables satisfy the invariant.
LEMMA InitInvariant == Init => TypeOK /\ Inductive
  <1> SUFFICES ASSUME Init PROVE TypeOK /\ Inductive
    OBVIOUS
  <1>1. TypeOK
    BY RowTypes DEF Init, TypeOK, SlotStatuses
  <1>2. KnownRows
    BY DEF Init, KnownRows, NoRow, NoSession, IdleWorker, IdleCall, IdleSweep
  <1>3. Accounted
    BY DEF Init, Accounted
  <1>4. CallsInTime
    BY DEF Init, CallsInTime, IdleCall, EntryPC, ExitPC
  <1>5. StaysInTime
    BY DEF Init, StaysInTime, NoSession
  <1>6. ExitsArePaid
    BY DEF Init, ExitsArePaid, IdleCall, PaidPC
  <1>7. CompletedStaysArePaid
    BY DEF Init, CompletedStaysArePaid, NoSession
  <1>8. SweepsAreDue
    BY DEF Init, SweepsAreDue, IdleSweep
  <1>9. NeverExpiredEarly
    BY DEF Init, NeverExpiredEarly, NoRow
  <1> QED
    BY <1>1, <1>2, <1>3, <1>4, <1>5, <1>6, <1>7, <1>8, <1>9 DEF Inductive

\* TypeOK /\ Inductive is an inductive invariant of the handlers, failures
\* of any of their statements included.
THEOREM InductiveHolds == Spec => [](TypeOK /\ Inductive)
  <1>1. TypeOK /\ Inductive /\ [Next]_vars => (TypeOK /\ Inductive)'
    <2> SUFFICES ASSUME TypeOK, Inductive, [Next]_vars
                 PROVE  (TypeOK /\ Inductive)'
      OBVIOUS
    <2>1. TypeOK'
      BY TypeStep DEF Inductive
    <2>2. KnownRows'
      BY <2>1, KnownRowsStep DEF Inductive
    <2> QED
      BY <2>1, <2>2, AccountedStep, CallsInTimeStep, StaysInTimeStep,
         ExitsArePaidStep, CompletedStaysArePaidStep, SweepsAreDueStep,
         NeverExpiredEarlyStep DEF Inductive
  <1> QED
    BY <1>1, InitInvariant, PTL DEF Spec

\* The tables and what handlers remember keep their types in every
\* interleaving of CreateReservation, cancel, entry, exit and sweeps.
THEOREM TypeCorrect == Spec => []TypeOK
  BY InductiveHolds, PTL

\* A RESERVADA slot has a worker about to insert its reservation, a live
\* reservation, a handler about to release it, or was left by one that died.
THEOREM ReservedSlotsTheorem == Spec => []ReservedSlotsAreAccountedFor
  <1>1. Inductive => ReservedSlotsAreAccountedFor
    BY DEF Inductive, Accounted, ReservedSlotsAreAccountedFor, HeldFirmly, Held
  <1> QED
    BY <1>1, InductiveHolds, PTL

\* RegisterExit completes no session that its recorded payment does not
\* cover, however exits, payments and the clock interleave.
THEOREM CompletedStaysTheorem == Spec => []CompletedStaysArePaid
  <1>1. Inductive => CompletedStaysArePaid
    BY DEF Inductive
  <1> QED
    BY <1>1, InductiveHolds, PTL

\* ExpireOverdueReservations never expires a reservation within its
\* tolerance, although it acts on rows read some time before.
THEOREM ExpirationTheorem == Spec => []NeverExpiredEarly
  <1>1. Inductive => NeverExpiredEarly
    BY DEF Inductive
  <1> QED
    BY <1>1, InductiveHolds, PTL

\* Entry and exit times are ordered, and no earlier than the reservation's
\* start, although each call reads its own clock.
THEOREM StayTheorem == Spec => []StayWithinReservation
  <1>1. Inductive => StayWithinReservation
    BY DEF Inductive, StaysInTime, StayWithinReservation
  <1> QED
    BY <1>1, InductiveHolds, PTL

\* A reservation has one stay: concurrent entries and exits never recreate,
\* reopen or move the start of a session.
THEOREM OneStayTheorem == Spec => OneStayPerReservation
  <1>1. TypeOK /\ [Next]_vars =>
          [\A r \in Resvs : session[r].status # "NONE" =>
              /\ session'[r].entryAt = session[r].entryAt
              /\ session'[r].status
                   \in {session[r].status, "COMPLETED"}]_session
    BY SessionsStay
  <1> QED
    BY <1>1, TypeCorrect, PTL DEF Spec, OneStayPerReservation

\* However many queue workers run, a user has two PENDING reservations only
\* when the executions that inserted them overlapped.
THEOREM TwoPendingTheorem == ReplicasSpec => []TwoPendingOnlyByOverlap
  <1> DEFINE Inv == UnseenPending /\ TwoPendingOnlyByOverlap
  <1>1. ReplicasInit => Init /\ Inv
    BY DEF ReplicasInit, Init, UnseenPending, TwoPendingOnlyByOverlap, NoRow,
       IdleWorker
  <1>2. [Next /\ Record]_replicaVars => [Next]_vars
    BY DEF replicaVars
  <1>3. ReplicasSpec => []TypeOK
    <2>1. ReplicasSpec => Spec
      BY <1>1, <1>2, PTL DEF ReplicasSpec, Spec
    <2> QED
      BY <2>1, TypeCorrect, PTL
  <1>4. TypeOK /\ Inv /\ [Next /\ Record]_replicaVars => Inv'
    <2>1. CASE UNCHANGED replicaVars
      BY <2>1 DEF replicaVars, vars, tables, UnseenPending,
         TwoPendingOnlyByOverlap
    <2> QED
      BY <1>2, <2>1, UnseenPendingStep, TwoPendingStep
  <1> QED
    BY <1>1, <1>3, <1>4, PTL DEF ReplicasSpec

-----------------------------------------------------------------------------
(* Payments of a stay, as the payments service keeps them.                   *)

\* A price is one hour at least, and a later instant never costs less.
LEMMA PriceGrows ==
    ASSUME NEW e \in Int, NEW t \in Int, NEW u \in Int, t <= u
    PROVE  Price(e, t) >= 1 /\ Price(e, t) <= Price(e, u)
<1>1. (t - e + Hour - 1) \div Hour <= (u - e + Hour - 1) \div Hour
  BY ParkingAssumption
<1> QED
  BY <1>1, ParkingAssumption DEF Price

\* A whole number of hours takes as many hours.
LEMMA WholeHours ==
    ASSUME NEW n \in Nat
    PROVE  (n * Hour) \div Hour = n
  BY ParkingAssumption

\* A stay that costs q hours has begun its q-th hour.
LEMMA HoursTake ==
    ASSUME NEW x \in Nat, NEW q \in Nat \ {0},
           q <= (x + Hour - 1) \div Hour
    PROVE  x >= (q - 1) * Hour + 1
<1> DEFINE d == (x + Hour - 1) \div Hour
<1>1. d \in Nat /\ d * Hour <= x + Hour - 1
  BY ParkingAssumption
<1>2. q * Hour <= d * Hour
  BY <1>1, ParkingAssumption
<1>3. q * Hour = (q - 1) * Hour + Hour
  BY ParkingAssumption
<1> QED
  BY <1>1, <1>2, <1>3, ParkingAssumption

\* Every amount up to what a stay costs was its price at some instant of it.
LEMMA EveryPriceComes ==
    ASSUME NEW e \in Nat, NEW u \in Nat, e <= u, NEW q \in Nat \ {0},
           q <= Price(e, u)
    PROVE  \E t \in e..u : Price(e, t) = q
<1>1. CASE q = 1
  <2>1. (e - e + Hour - 1) \div Hour <= 1
    BY ParkingAssumption
  <2>2. Price(e, e) = 1
    BY <2>1, ParkingAssumption DEF Price
  <2> QED
    BY <1>1, <2>2
<1>2. CASE q > 1
  <2> DEFINE t == e + (q - 1) * Hour + 1
  <2>1. (q - 1) * Hour \in Nat
    BY ParkingAssumption
  <2>2. q <= (u - e + Hour - 1) \div Hour
    BY <1>2, ParkingAssumption DEF Price
  <2>3. t \in e..u
    BY <2>1, <2>2, HoursTake
  <2>4. t - e + Hour - 1 = q * Hour
    BY <2>1, ParkingAssumption
  <2>5. Price(e, t) = q
    BY <1>2, <2>4, WholeHours DEF Price
  <2> QED
    BY <2>3, <2>5
<1> QED
  BY <1>1, <1>2

\* What a stay costs by now is a number.
LEMMA DueType == TypeOK => \A r \in Resvs : Due(r) \in Nat
<1> SUFFICES ASSUME TypeOK, NEW r \in Resvs
             PROVE  Due(r) \in Nat
  OBVIOUS
<1>1. session[r].entryAt \in Int /\ now \in Int
  BY DEF TypeOK, SessionRow
<1>2. Price(session[r].entryAt, now) \in Nat
  BY <1>1, PriceType
<1> QED
  BY <1>2 DEF Due

\* The same after a step.
LEMMA DueTypeNext == TypeOK' => (\A r \in Resvs : Due(r) \in Nat)'
  BY DueType, PTL

\* A payment is a Record of the ledger, and time and the entry only Accrue:
\* the quote was the price at an instant of the stay.
LEMMA LedgerSteps ==
    ASSUME TypeOK, TypeOK', Inductive, [Next]_vars, NEW r \in Resvs
    PROVE  [Ledger(r)!LedgerNext]_<<paid[r], Due(r)>>
<1> USE DEF TypeOK, SessionRow
<1>1. ASSUME NEW q \in Resvs, NEW t \in session[q].entryAt..now, Pay(q, t)
      PROVE  [Ledger(r)!LedgerNext]_<<paid[r], Due(r)>>
  <2>1. UNCHANGED Due(r)
    BY <1>1 DEF Pay, Due
  <2>2. CASE q = r
    <3>1. paid'[r] = Price(session[r].entryAt, t) /\ paid'[r] > paid[r]
      BY <1>1, <2>2, PriceType DEF Pay
    <3>2. Due(r) = Price(session[r].entryAt, now)
      BY <1>1, <2>2 DEF Pay, Due
    <3>3. paid'[r] <= Due(r)
      BY <1>1, <2>2, <3>1, <3>2, PriceGrows
    <3> QED
      BY <2>1, <3>1, <3>3 DEF Ledger!LedgerNext, Ledger!Record
  <2>3. CASE q # r
    BY <1>1, <2>1, <2>3 DEF Pay
  <2> QED
    BY <2>2, <2>3
<1>2. CASE UNCHANGED paid
  <2>1. Due(r) \in Nat /\ Due(r)' \in Nat
    BY DueType, DueTypeNext
  <2>2. Due(r)' >= Due(r)
    <3>1. CASE session[r].status = "NONE"
      BY <2>1, <3>1 DEF Due
    <3>2. CASE session[r].status # "NONE"
      <4>1. /\ session'[r].entryAt = session[r].entryAt
            /\ session'[r].status # "NONE"
        BY <3>2, SessionsStay
      <4>2. now' >= now
        BY TimePasses
      <4>3. Price(session[r].entryAt, now) <= Price(session[r].entryAt, now')
        BY <4>2, PriceGrows
      <4> QED
        BY <3>2, <4>1, <4>3 DEF Due
    <3> QED
      BY <3>1, <3>2
  <2>3. CASE Due(r)' = Due(r)
    BY <1>2, <2>3
  <2>4. CASE Due(r)' > Due(r)
    BY <1>2, <2>4 DEF Ledger!LedgerNext, Ledger!Accrue
  <2>5. Due(r)' = Due(r) \/ Due(r)' > Due(r)
    <3>1. \A a, b \in Nat : b >= a => b = a \/ b > a
      OBVIOUS
    <3> QED
      BY Zenon, <2>1, <2>2, <3>1
  <2> QED
    BY Zenon, <2>3, <2>4, <2>5
<1> QED
  BY <1>1, <1>2, PaymentChanges

\* Of every reservation the backend sees a ledger that begins with nothing.
LEMMA LedgerStarts ==
    ASSUME NEW r \in Resvs
    PROVE  Init => Ledger(r)!LedgerInit
  BY DEF Init, NoSession, Due, Ledger!LedgerInit

\* What Parking has the payments service do is what PaymentLedger promises,
\* and Payments keeps (Payments_proofs): the record of a stay only grows, and
\* to amounts that were due at some instant of it.
THEOREM PaymentsFollowLedger ==
    ASSUME NEW r \in Resvs
    PROVE  Spec => Ledger(r)!LedgerSpec
<1>1. (TypeOK /\ Inductive) /\ (TypeOK /\ Inductive)' /\ [Next]_vars
        => [Ledger(r)!LedgerNext]_<<paid[r], Due(r)>>
  BY LedgerSteps
<1>2. Init => Ledger(r)!LedgerInit
  BY LedgerStarts
<1> QED
  BY <1>1, <1>2, InductiveHolds, PTL DEF Spec, Ledger!LedgerSpec

\* And it leaves out nothing: while the stay lasts, any record the ledger may
\* bring the amount to is a payment Parking can take.
THEOREM EveryRecordIsPaid ==
    Spec => [](\A r \in Resvs : session[r].status = "ACTIVE" =>
                  \A q \in Payable(r) : \E t \in session[r].entryAt..now :
                      Price(session[r].entryAt, t) = q)
<1>1. TypeOK /\ Inductive =>
        \A r \in Resvs : session[r].status = "ACTIVE" =>
            \A q \in Payable(r) : \E t \in session[r].entryAt..now :
                Price(session[r].entryAt, t) = q
  <2> SUFFICES ASSUME TypeOK, Inductive, NEW r \in Resvs,
                      session[r].status = "ACTIVE", NEW q \in Payable(r)
               PROVE  \E t \in session[r].entryAt..now :
                          Price(session[r].entryAt, t) = q
    OBVIOUS
  <2>1. session[r].entryAt \in Nat /\ now \in Nat /\ paid[r] \in Nat
    BY DEF TypeOK, SessionRow
  <2>2. session[r].entryAt <= now
    BY DEF Inductive, StaysInTime
  <2>3. q \in Nat \ {0} /\ q <= Price(session[r].entryAt, now)
    BY <2>1 DEF Payable, Due
  <2> QED
    BY <2>1, <2>2, <2>3, EveryPriceComes
<1> QED
  BY <1>1, InductiveHolds, PTL

=============================================================================
