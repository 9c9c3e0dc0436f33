------------------------ MODULE ParkingSerial_proofs ------------------------
(* When one handler runs at a time and nothing fails, for any number of      *)
(* users, slots, rows and handlers: a slot on which nobody cancelled with    *)
(* the car parked is safe, and until the first such cancellation the backend *)
(* implements ParkingLot. SerialInvariant is what every step preserves; the  *)
(* lemmas on Keeps say which row has a slot before and after each step, and  *)
(* both the invariant and the refinement follow from them.                   *)
EXTENDS ParkingSerial, Parking_proofs

UsersKnown ==
    /\ \A r \in Resvs : res[r].status # "NONE" => res[r].user \in Users
    /\ \A w \in Workers : worker[w].pc # "idle" => worker[w].user \in Users

EvictedExist == \A q \in evicted : q \in Resvs /\ res[q].status # "NONE"

\* No user keeps two slots, and an undisturbed slot is kept by one row.
KeptApart ==
    \A r, q \in Resvs :
        /\ Keeps(r) /\ Keeps(q)
        /\ \/ res[r].user = res[q].user
           \/ res[r].slot = res[q].slot /\ Undisturbed(res[r].slot)
        => r = q

KeptClosed ==
    \A r \in Resvs : Keeps(r) /\ Undisturbed(res[r].slot)
                        => slotStatus[res[r].slot] # "DISPONIBLE"

\* A worker handles a request of a user who keeps no slot, and the slot that it
\* has claimed is nobody's.
ClaimsApart ==
    \A w \in Workers : worker[w].pc # "idle" =>
        /\ \A r \in Resvs : Keeps(r) => res[r].user # worker[w].user
        /\ worker[w].pc = "insert" /\ Undisturbed(worker[w].slot) =>
              /\ slotStatus[worker[w].slot] # "DISPONIBLE"
              /\ \A r \in Resvs : Keeps(r) => res[r].slot # worker[w].slot

ParkedIsConfirmed ==
    \A r \in Resvs :
        session[r].status = "ACTIVE" /\ r \notin evicted
            => res[r].status = "CONFIRMED"

\* What a call has read, or written, is still so.
CallsStand ==
    \A c \in Calls : LET r == call[c].resv IN
        /\ call[c].pc = "cancelUpdate" => res[r].status \in Live
        /\ call[c].pc = "cancelRelease" => res[r].status = "CANCELLED"
        /\ call[c].pc = "entrySession" =>
              res[r].status \in Live /\ res[r].status = call[c].seen
        /\ call[c].pc = "entryConfirm" => res[r].status = "PENDING"
        /\ call[c].pc = "entryCreate" => res[r].status = "CONFIRMED"
        /\ call[c].pc \in {"entryOccupy"} \cup ExitPC =>
              session[r].status = "ACTIVE"
        /\ call[c].pc \in {"exitRelease", "exitClose"} =>
              /\ session[r].status = "COMPLETED"
              /\ r \notin evicted => res[r].status = "CONFIRMED"

SweepsStand ==
    \A k \in Sweeps : \A r \in sweep[k].todo :
        res[r].status = IF r = sweep[k].current THEN "EXPIRED" ELSE "PENDING"

SerialInvariant ==
    /\ TypeOK /\ KnownRows
    /\ OneAtATime /\ EvictedExist
    /\ UsersKnown /\ KeptApart /\ KeptClosed /\ ClaimsApart
    /\ ParkedIsConfirmed /\ CallsStand /\ SweepsStand

-----------------------------------------------------------------------------
(* Who runs, and who keeps a slot.                                           *)

NoCallRuns == \A c \in Calls : call[c].pc = "idle"
NoWorkerRuns == \A w \in Workers : worker[w].pc = "idle"
NoSweepRuns == \A k \in Sweeps : sweep[k].todo = {} /\ sweep[k].current = None

OnlyCall(c) ==
    /\ \A d \in Calls : d # c => call[d].pc = "idle"
    /\ NoWorkerRuns /\ NoSweepRuns

OnlyWorker(w) ==
    /\ \A v \in Workers : v # w => worker[v].pc = "idle"
    /\ NoCallRuns /\ NoSweepRuns

OnlySweep(k) ==
    /\ \A j \in Sweeps : j # k => sweep[j].todo = {} /\ sweep[j].current = None
    /\ NoCallRuns /\ NoWorkerRuns

\* Everything a call can do.
AnyCallStep(c) ==
    \/ CallStep(c)
    \/ \E r \in Resvs :
          StartCancel(c, r) \/ StartEntry(c, r) \/ StartExit(c, r)

AnyWorkerStep(w) ==
    \/ WorkerStep(w)
    \/ \E u \in Users, b \in Branches, t \in Scheduled \cup {Asap} :
          StartCreate(w, u, b, t)

AnySweepStep(k) == StartSweep(k) \/ SweepStep(k)

\* Steps that are no handler's.
OutsideStep ==
    \/ Tick
    \/ \E s \in Slots : ReportSlotBlocked(s)
    \/ \E b \in Branches : SimulateBranchFull(b)
    \/ \E r \in Resvs : \E t \in session[r].entryAt..now : Pay(r, t)

\* Every step is one of these.
LEMMA StepKinds ==
    Step => \/ OutsideStep
            \/ \E c \in Calls : AnyCallStep(c)
            \/ \E w \in Workers : AnyWorkerStep(w)
            \/ \E k \in Sweeps : AnySweepStep(k)
  BY DEF Step, Request, OutsideStep, AnyCallStep, AnyWorkerStep, AnySweepStep

\* A handler that runs is the only one that does.
LEMMA RunsAlone ==
    KnownRows /\ OneAtATime =>
        /\ \A c \in Calls : call[c].pc # "idle" => OnlyCall(c)
        /\ \A w \in Workers : worker[w].pc # "idle" => OnlyWorker(w)
        /\ \A k \in Sweeps : sweep[k].todo # {} => OnlySweep(k)
<1> SUFFICES ASSUME KnownRows, OneAtATime
             PROVE  /\ \A c \in Calls : call[c].pc # "idle" => OnlyCall(c)
                    /\ \A w \in Workers : worker[w].pc # "idle" => OnlyWorker(w)
                    /\ \A k \in Sweeps : sweep[k].todo # {} => OnlySweep(k)
  OBVIOUS
<1>0. /\ \A w \in Workers : worker[w].pc # "idle" => <<"worker", w>> \in InFlight
      /\ \A c \in Calls : call[c].pc # "idle" => <<"call", c>> \in InFlight
      /\ \A k \in Sweeps : sweep[k].todo # {} => <<"sweep", k>> \in InFlight
  BY DEF InFlight
<1>1. \A k \in Sweeps : sweep[k].todo = {} => sweep[k].current = None
  BY DEF KnownRows
<1>2. ASSUME NEW c \in Calls, call[c].pc # "idle"
      PROVE  OnlyCall(c)
  <2>1. <<"call", c>> \in InFlight
    BY <1>0, <1>2
  <2>2. \A d \in Calls : d # c => call[d].pc = "idle"
    BY <1>0, <2>1 DEF OneAtATime
  <2>3. \A w \in Workers : worker[w].pc = "idle"
    BY <1>0, <2>1 DEF OneAtATime
  <2>4. \A k \in Sweeps : sweep[k].todo = {}
    BY <1>0, <2>1 DEF OneAtATime
  <2> QED
    BY Zenon, <1>1, <2>2, <2>3, <2>4 DEF OnlyCall, NoWorkerRuns, NoSweepRuns
<1>3. ASSUME NEW w \in Workers, worker[w].pc # "idle"
      PROVE  OnlyWorker(w)
  <2>1. <<"worker", w>> \in InFlight
    BY <1>0, <1>3
  <2>2. \A v \in Workers : v # w => worker[v].pc = "idle"
    BY <1>0, <2>1 DEF OneAtATime
  <2>3. \A c \in Calls : call[c].pc = "idle"
    BY <1>0, <2>1 DEF OneAtATime
  <2>4. \A k \in Sweeps : sweep[k].todo = {}
    BY <1>0, <2>1 DEF OneAtATime
  <2> QED
    BY Zenon, <1>1, <2>2, <2>3, <2>4 DEF OnlyWorker, NoCallRuns, NoSweepRuns
<1>4. ASSUME NEW k \in Sweeps, sweep[k].todo # {}
      PROVE  OnlySweep(k)
  <2>1. <<"sweep", k>> \in InFlight
    BY <1>0, <1>4
  <2>2. \A j \in Sweeps : j # k => sweep[j].todo = {}
    BY <1>0, <2>1 DEF OneAtATime
  <2>3. \A c \in Calls : call[c].pc = "idle"
    BY <1>0, <2>1 DEF OneAtATime
  <2>4. \A w \in Workers : worker[w].pc = "idle"
    BY <1>0, <2>1 DEF OneAtATime
  <2> QED
    BY Zenon, <1>1, <2>2, <2>3, <2>4 DEF OnlySweep, NoCallRuns, NoWorkerRuns
<1> QED
  BY <1>2, <1>3, <1>4

\* The same of the state after a step.
LEMMA RunsAloneNext ==
    (KnownRows /\ OneAtATime =>
        /\ \A c \in Calls : call[c].pc # "idle" => OnlyCall(c)
        /\ \A w \in Workers : worker[w].pc # "idle" => OnlyWorker(w)
        /\ \A k \in Sweeps : sweep[k].todo # {} => OnlySweep(k))'
  BY RunsAlone, PTL

\* A call moves alone, and leaves the other handlers as they are.
LEMMA CallMovesAlone ==
    ASSUME TypeOK, KnownRows, OneAtATime, KnownRows', OneAtATime',
           NEW c \in Calls, AnyCallStep(c)
    PROVE  /\ OnlyCall(c) /\ worker' = worker /\ sweep' = sweep
           /\ \A d \in Calls : d # c => call'[d] = call[d]
<1>1. CASE CallStep(c)
  <2>1. /\ call[c].pc # "idle" /\ worker' = worker /\ sweep' = sweep
        /\ \E i : call' = [call EXCEPT ![c] = i]
    BY <1>1 DEF CallStep, CancelUpdate, CancelRelease, EntryCheckSession,
       EntryConfirm, EntryCreate, EntryOccupy, ExitCheckPayment, ExitRecheck,
       ExitComplete, ExitRelease, ExitClose, Goto, EndCall
  <2>2. \A d \in Calls : d # c => call'[d] = call[d]
    BY <2>1 DEF TypeOK
  <2> QED
    BY <2>1, <2>2, RunsAlone
<1>2. ASSUME NEW r \in Resvs,
             StartCancel(c, r) \/ StartEntry(c, r) \/ StartExit(c, r)
      PROVE  /\ OnlyCall(c) /\ worker' = worker /\ sweep' = sweep
             /\ \A d \in Calls : d # c => call'[d] = call[d]
  <2>1. /\ worker' = worker /\ sweep' = sweep /\ call'[c].pc # "idle"
        /\ \A d \in Calls : d # c => call'[d] = call[d]
    <3>1. CASE StartCancel(c, r)
      BY <3>1 DEF TypeOK, StartCancel, IdleCall
    <3>2. CASE StartEntry(c, r)
      BY <3>2 DEF TypeOK, StartEntry
    <3>3. CASE StartExit(c, r)
      BY <3>3 DEF TypeOK, StartExit, IdleCall
    <3> QED
      BY <1>2, <3>1, <3>2, <3>3
  <2>2. OnlyCall(c)'
    BY <2>1, RunsAloneNext
  <2> QED
    BY <2>1, <2>2 DEF OnlyCall, NoWorkerRuns, NoSweepRuns
<1> QED
  BY <1>1, <1>2 DEF AnyCallStep

\* A worker moves alone, and leaves the other handlers as they are.
LEMMA WorkerMovesAlone ==
    ASSUME TypeOK, KnownRows, OneAtATime, KnownRows', OneAtATime',
           NEW w \in Workers, AnyWorkerStep(w)
    PROVE  /\ OnlyWorker(w) /\ call' = call /\ sweep' = sweep
           /\ \A v \in Workers : v # w => worker'[v] = worker[v]
           /\ session' = session
<1>1. CASE WorkerStep(w)
  <2>1. /\ worker[w].pc # "idle" /\ call' = call /\ sweep' = sweep
        /\ session' = session
        /\ \E i : worker' = [worker EXCEPT ![w] = i]
    BY <1>1 DEF WorkerStep, CreateCheckSession, CreateClaim, CreateNoSlot,
       CreateReadsClock, CreateInsert, EndWorker, tables
  <2>2. \A v \in Workers : v # w => worker'[v] = worker[v]
    BY <2>1 DEF TypeOK
  <2> QED
    BY <2>1, <2>2, RunsAlone
<1>2. ASSUME NEW u \in Users, NEW b \in Branches, NEW t \in Scheduled \cup {Asap},
             StartCreate(w, u, b, t)
      PROVE  /\ OnlyWorker(w) /\ call' = call /\ sweep' = sweep
             /\ \A v \in Workers : v # w => worker'[v] = worker[v]
             /\ session' = session
  <2>1. /\ call' = call /\ sweep' = sweep /\ worker'[w].pc # "idle"
        /\ session' = session
        /\ \A v \in Workers : v # w => worker'[v] = worker[v]
    BY <1>2 DEF TypeOK, StartCreate, tables
  <2>2. OnlyWorker(w)'
    BY <2>1, RunsAloneNext
  <2> QED
    BY <2>1, <2>2 DEF OnlyWorker, NoCallRuns, NoSweepRuns
<1> QED
  BY <1>1, <1>2 DEF AnyWorkerStep

\* A sweep moves alone, and leaves the other handlers as they are.
LEMMA SweepMovesAlone ==
    ASSUME TypeOK, KnownRows, OneAtATime, KnownRows', OneAtATime',
           NEW k \in Sweeps, AnySweepStep(k)
    PROVE  /\ OnlySweep(k) /\ call' = call /\ worker' = worker
           /\ \A j \in Sweeps : j # k => sweep'[j] = sweep[j]
           /\ session' = session
<1>1. CASE SweepStep(k)
  <2>1. /\ call' = call /\ worker' = worker /\ session' = session
        /\ \A j \in Sweeps : j # k => sweep'[j] = sweep[j]
    BY <1>1 DEF TypeOK, SweepStep, SweepExpire, SweepRelease
  <2>2. sweep[k].todo # {}
    BY <1>1 DEF SweepStep, SweepExpire, SweepRelease, KnownRows
  <2> QED
    BY <2>1, <2>2, RunsAlone
<1>2. CASE StartSweep(k)
  <2>1. /\ call' = call /\ worker' = worker /\ session' = session
        /\ \A j \in Sweeps : j # k => sweep'[j] = sweep[j]
        /\ sweep'[k].todo # {}
    BY <1>2 DEF TypeOK, StartSweep, SweepState, tables
  <2>2. OnlySweep(k)'
    BY <2>1, RunsAloneNext
  <2> QED
    BY <2>1, <2>2 DEF OnlySweep, NoCallRuns, NoWorkerRuns
<1> QED
  BY <1>1, <1>2 DEF AnySweepStep

\* Which rows keep their slots while a call runs.
LEMMA KeepsOfCall ==
    \A c \in Calls : OnlyCall(c) => \A r \in Resvs :
        Keeps(r) <=>
            \/ /\ res[r].status \in Live
               /\ ~(call[c].pc = "exitClose" /\ call[c].resv = r)
            \/ call[c].pc = "cancelRelease" /\ call[c].resv = r
<1> SUFFICES ASSUME NEW c \in Calls, OnlyCall(c), NEW r \in Resvs
             PROVE  Keeps(r) <=>
                \/ /\ res[r].status \in Live
                   /\ ~(call[c].pc = "exitClose" /\ call[c].resv = r)
                \/ call[c].pc = "cancelRelease" /\ call[c].resv = r
  OBVIOUS
<1>1. \A k \in Sweeps : sweep[k].current # r
  BY ParkingAssumption DEF OnlyCall, NoSweepRuns
<1>2. \A d \in Calls : call[d].pc \in {"exitClose", "cancelRelease"} => d = c
  BY DEF OnlyCall
<1> QED
  BY <1>1, <1>2 DEF Keeps

\* The same after a step.
LEMMA KeepsOfCallNext ==
    (\A c \in Calls : OnlyCall(c) => \A r \in Resvs :
        Keeps(r) <=>
            \/ /\ res[r].status \in Live
               /\ ~(call[c].pc = "exitClose" /\ call[c].resv = r)
            \/ call[c].pc = "cancelRelease" /\ call[c].resv = r)'
  BY KeepsOfCall, PTL

\* Which rows keep their slots while no call runs.
LEMMA KeepsOfOthers ==
    NoCallRuns => \A r \in Resvs :
        Keeps(r) <=> \/ res[r].status \in Live
                     \/ \E k \in Sweeps : sweep[k].current = r
  BY DEF NoCallRuns, Keeps

\* The same after a step.
LEMMA KeepsOfOthersNext ==
    (NoCallRuns => \A r \in Resvs :
        Keeps(r) <=> \/ res[r].status \in Live
                     \/ \E k \in Sweeps : sweep[k].current = r)'
  BY KeepsOfOthers, PTL

\* The statements of a call that release a slot.
FreeingPC == {"cancelRelease", "exitRelease"}

\* A call takes a slot away from a row only as it makes it DISPONIBLE.
LEMMA CallKeeps ==
    ASSUME SerialInvariant, KnownRows', OneAtATime',
           NEW c \in Calls, AnyCallStep(c), NEW r \in Resvs
    PROVE  Keeps(r)' <=> /\ Keeps(r)
                         /\ ~(call[c].pc \in FreeingPC /\ call[c].resv = r)
<1> USE DEF FreeingPC
<1>1. /\ OnlyCall(c) /\ worker' = worker /\ sweep' = sweep
      /\ \A d \in Calls : d # c => call'[d] = call[d]
  BY CallMovesAlone DEF SerialInvariant
<1>2. OnlyCall(c)'
  BY <1>1 DEF OnlyCall, NoWorkerRuns, NoSweepRuns
<1>3. Keeps(r) <=>
            \/ /\ res[r].status \in Live
               /\ ~(call[c].pc = "exitClose" /\ call[c].resv = r)
            \/ call[c].pc = "cancelRelease" /\ call[c].resv = r
  BY <1>1, KeepsOfCall
<1>4. Keeps(r)' <=>
            \/ /\ res'[r].status \in Live
               /\ ~(call'[c].pc = "exitClose" /\ call'[c].resv = r)
            \/ call'[c].pc = "cancelRelease" /\ call'[c].resv = r
  BY <1>2, KeepsOfCallNext
<1>5. /\ call \in [Calls -> CallState] /\ res \in [Resvs -> ResRow]
      /\ call[c].pc # "idle" => call[c].resv \in Resvs
  BY DEF SerialInvariant, TypeOK, KnownRows
<1>6. /\ call[c].pc = "cancelUpdate" => res[call[c].resv].status \in Live
      /\ call[c].pc = "cancelRelease" => res[call[c].resv].status = "CANCELLED"
      /\ call[c].pc = "entryConfirm" => res[call[c].resv].status = "PENDING"
  BY DEF SerialInvariant, CallsStand
<1> DEFINE StartsIdle ==
        /\ call[c].pc = "idle" /\ res' = res
        /\ call'[c].pc \in {"cancelUpdate", "entrySession", "exitPayment"}
<1>7. CASE \E q \in Resvs :
             StartCancel(c, q) \/ StartEntry(c, q) \/ StartExit(c, q)
  <2>1. StartsIdle
    <3>1. ASSUME NEW q \in Resvs, StartCancel(c, q)
          PROVE  StartsIdle
      BY <1>5, <3>1 DEF StartCancel, IdleCall, tables
    <3>2. ASSUME NEW q \in Resvs, StartEntry(c, q)
          PROVE  StartsIdle
      BY <1>5, <3>2 DEF StartEntry, tables
    <3>3. ASSUME NEW q \in Resvs, StartExit(c, q)
          PROVE  StartsIdle
      BY <1>5, <3>3 DEF StartExit, IdleCall, tables
    <3> QED
      BY <1>7, <3>1, <3>2, <3>3
  <2> QED
    BY <1>3, <1>4, <2>1
<1>8. CASE CancelUpdate(c)
  <2>1. /\ call[c].pc = "cancelUpdate" /\ call'[c].pc = "cancelRelease"
        /\ call'[c].resv = call[c].resv
        /\ res' = [res EXCEPT ![call[c].resv].status = "CANCELLED"]
    BY <1>5, <1>8 DEF CancelUpdate, SetRes, Goto, CallState
  <2> QED
    BY <1>3, <1>4, <1>5, <1>6, <2>1 DEF Live, ResRow
<1>9. CASE CancelRelease(c) \/ EntryOccupy(c)
  <2>1. /\ call[c].pc \in {"cancelRelease", "entryOccupy"}
        /\ call'[c].pc = "idle" /\ res' = res
    BY <1>5, <1>9 DEF CancelRelease, EntryOccupy, EndCall, IdleCall
  <2> QED
    BY <1>3, <1>4, <1>6, <1>9, <2>1 DEF Live, CancelRelease, EntryOccupy
<1>10. CASE \/ EntryCheckSession(c) \/ EntryCreate(c)
            \/ ExitCheckPayment(c) \/ ExitRecheck(c) \/ ExitComplete(c)
  <2>1. /\ call[c].pc \in {"entrySession", "entryCreate", "exitPayment",
                           "exitSession", "exitComplete"}
        /\ call'[c].pc \notin {"exitClose", "cancelRelease"}
        /\ res' = res
    BY <1>5, <1>10
    DEF EntryCheckSession, EntryCreate, ExitCheckPayment, ExitRecheck,
        ExitComplete, EndCall, Goto, IdleCall, tables, CallState
  <2> QED
    BY <1>3, <1>4, <2>1
<1>11. CASE EntryConfirm(c)
  <2>1. /\ call[c].pc = "entryConfirm" /\ call'[c].pc = "entryCreate"
        /\ res' = [res EXCEPT ![call[c].resv].status = "CONFIRMED"]
    BY <1>5, <1>11 DEF EntryConfirm, SetRes, Goto, CallState
  <2> QED
    BY <1>3, <1>4, <1>5, <1>6, <2>1 DEF Live, ResRow
<1>12. CASE ExitRelease(c)
  <2>1. /\ call[c].pc = "exitRelease" /\ call'[c].pc = "exitClose"
        /\ call'[c].resv = call[c].resv /\ res' = res
    BY <1>5, <1>12 DEF ExitRelease, Goto, CallState
  <2> QED
    BY <1>3, <1>4, <1>6, <2>1 DEF Live
<1>13. CASE ExitClose(c)
  <2>1. /\ call[c].pc = "exitClose" /\ call'[c].pc = "idle"
        /\ res' = [res EXCEPT ![call[c].resv].status = "COMPLETED"]
    BY <1>5, <1>13 DEF ExitClose, SetRes, EndCall, IdleCall
  <2> QED
    BY <1>3, <1>4, <1>5, <2>1 DEF Live, ResRow
<1> QED
  BY <1>7, <1>8, <1>9, <1>10, <1>11, <1>12, <1>13 DEF AnyCallStep, CallStep

\* A worker gives a slot to the row that it inserts.
LEMMA WorkerKeeps ==
    ASSUME SerialInvariant, KnownRows', OneAtATime',
           NEW w \in Workers, AnyWorkerStep(w), NEW r \in Resvs
    PROVE  Keeps(r)' <=> Keeps(r) \/ CreateInsert(w, r)
<1>1. /\ OnlyWorker(w) /\ call' = call /\ sweep' = sweep
      /\ \A v \in Workers : v # w => worker'[v] = worker[v]
  BY WorkerMovesAlone DEF SerialInvariant
<1>2. NoCallRuns /\ NoCallRuns'
  BY <1>1 DEF OnlyWorker, NoCallRuns
<1>3. /\ Keeps(r) <=> \/ res[r].status \in Live
                      \/ \E k \in Sweeps : sweep[k].current = r
      /\ Keeps(r)' <=> \/ res'[r].status \in Live
                       \/ \E k \in Sweeps : sweep[k].current = r
  BY <1>1, <1>2, KeepsOfOthers, KeepsOfOthersNext
<1>4. CASE \E q \in Resvs : CreateInsert(w, q)
  <2>1. PICK q \in Resvs : CreateInsert(w, q)
    BY <1>4
  <2>2. res'[q].status = "PENDING" /\ \A p \in Resvs : p # q => res'[p] = res[p]
    BY <2>1 DEF CreateInsert, SerialInvariant, TypeOK
  <2>3. CreateInsert(w, r) => r = q
    BY <2>1, <2>2 DEF CreateInsert, SerialInvariant, TypeOK
  <2> QED
    BY <1>3, <2>1, <2>2, <2>3 DEF Live
<1>5. CASE ~\E q \in Resvs : CreateInsert(w, q)
  <2>1. res' = res
    BY <1>5 DEF AnyWorkerStep, WorkerStep, StartCreate, CreateCheckSession,
       CreateClaim, CreateNoSlot, CreateReadsClock, tables
  <2> QED
    BY <1>3, <1>5, <2>1
<1> QED
  BY <1>4, <1>5

\* A sweep takes a slot away from a row only as it makes it DISPONIBLE.
LEMMA SweepKeeps ==
    ASSUME SerialInvariant, KnownRows', OneAtATime',
           NEW k \in Sweeps, AnySweepStep(k), NEW r \in Resvs
    PROVE  Keeps(r)' <=> Keeps(r) /\ ~(SweepRelease(k) /\ sweep[k].current = r)
<1>1. /\ OnlySweep(k) /\ call' = call /\ worker' = worker
      /\ \A j \in Sweeps : j # k => sweep'[j] = sweep[j]
  BY SweepMovesAlone DEF SerialInvariant
<1>2. NoCallRuns /\ NoCallRuns'
  BY <1>1 DEF OnlySweep, NoCallRuns
<1>3. \A j \in Sweeps : j # k => sweep[j].current # r /\ sweep'[j].current # r
  BY <1>1, ParkingAssumption DEF OnlySweep
<1>4. /\ Keeps(r) <=> res[r].status \in Live \/ sweep[k].current = r
      /\ Keeps(r)' <=> res'[r].status \in Live \/ sweep'[k].current = r
  BY <1>2, <1>3, KeepsOfOthers, KeepsOfOthersNext
<1>5. /\ sweep \in [Sweeps -> SweepState] /\ res \in [Resvs -> ResRow]
      /\ \A q \in sweep[k].todo :
            res[q].status
              = IF q = sweep[k].current THEN "EXPIRED" ELSE "PENDING"
      /\ sweep[k].current # None => sweep[k].current \in sweep[k].todo
  BY DEF SerialInvariant, TypeOK, KnownRows, SweepsStand
<1>6. CASE StartSweep(k)
  <2>1. res' = res /\ sweep'[k].current = sweep[k].current
        /\ ~SweepRelease(k)
    BY <1>5, <1>6 DEF StartSweep, SweepRelease, tables, SweepState
  <2> QED
    BY <1>4, <2>1
<1>7. ASSUME NEW q \in Resvs, SweepExpire(k, q)
      PROVE  Keeps(r)' <=> Keeps(r) /\ ~(SweepRelease(k) /\ sweep[k].current = r)
  <2>1. /\ res' = [res EXCEPT ![q].status = "EXPIRED"]
        /\ sweep'[k].current = q /\ sweep[k].current = None
        /\ res[q].status = "PENDING" /\ ~SweepRelease(k)
    BY <1>5, <1>7, ParkingAssumption
    DEF SweepExpire, SweepRelease, SetRes, SweepState
  <2> QED
    BY <1>4, <1>5, <2>1, ParkingAssumption DEF Live, ResRow
<1>8. CASE SweepRelease(k)
  <2>1. /\ res' = res /\ sweep'[k].current = None
        /\ res[sweep[k].current].status = "EXPIRED"
    BY <1>5, <1>8 DEF SweepRelease, SweepState
  <2> QED
    BY <1>4, <1>8, <2>1, ParkingAssumption DEF Live
<1> QED
  BY <1>6, <1>7, <1>8 DEF AnySweepStep, SweepStep

\* What is no handler's step moves no handler and no row.
LEMMA OutsideKeeps ==
    ASSUME OutsideStep \/ UNCHANGED vars
    PROVE  /\ res' = res /\ session' = session
           /\ worker' = worker /\ call' = call /\ sweep' = sweep
           /\ \A r \in Resvs : Keeps(r)' <=> Keeps(r)
  BY DEF OutsideStep, Tick, ReportSlotBlocked, SimulateBranchFull, Pay, Keeps,
     vars, tables

-----------------------------------------------------------------------------
(* SerialInvariant is preserved.                                             *)

\* A step of the serial backend, with what is known of the state it leads to.
SerialMove ==
    /\ [Step]_vars /\ evicted' = evicted \cup CancelledParked
    /\ TypeOK' /\ KnownRows' /\ OneAtATime'

\* Every such step is a handler's that runs alone, or no handler's.
LEMMA MoveKinds ==
    SerialMove => \/ OutsideStep \/ UNCHANGED vars
                  \/ \E c \in Calls : AnyCallStep(c)
                  \/ \E w \in Workers : AnyWorkerStep(w)
                  \/ \E k \in Sweeps : AnySweepStep(k)
  BY StepKinds DEF SerialMove

\* A step that does not fail is one of the steps that may fail.
LEMMA MoveIsStep == SerialMove => [Next]_vars
  BY DEF SerialMove, Next

\* A row that keeps a slot is in the table.
LEMMA KeptRowsExist ==
    ASSUME SerialInvariant, NEW r \in Resvs, Keeps(r)
    PROVE  res[r].status # "NONE" /\ res[r].slot \in Slots
<1>1. res[r].status # "NONE"
  <2>1. CASE res[r].status \in Live
    BY <2>1 DEF Live
  <2>2. CASE \E c \in Calls : call[c].pc = "cancelRelease" /\ call[c].resv = r
    BY <2>2 DEF SerialInvariant, CallsStand
  <2>3. CASE \E k \in Sweeps : sweep[k].current = r
    BY <2>3, ParkingAssumption DEF SerialInvariant, SweepsStand, KnownRows
  <2> QED
    BY <2>1, <2>2, <2>3 DEF Keeps
<1> QED
  BY <1>1 DEF SerialInvariant, KnownRows

\* Evicted rows stay in the table, and a slot once disturbed stays so.
LEMMA EvictedStay ==
    ASSUME SerialInvariant, SerialMove
    PROVE  /\ EvictedExist'
           /\ \A q \in evicted : q \in evicted'
           /\ \A s : Undisturbed(s)' => Undisturbed(s)
<1>0. TypeOK /\ KnownRows /\ [Next]_vars /\ evicted' = evicted \cup CancelledParked
  BY MoveIsStep DEF SerialInvariant, SerialMove
<1>1. \A q \in evicted : /\ q \in Resvs /\ res'[q].status # "NONE"
                          /\ res'[q].slot = res[q].slot
  BY <1>0, RowsStay DEF SerialInvariant, EvictedExist
<1>2. EvictedExist'
  BY <1>0, <1>1 DEF CancelledParked, EvictedExist
<1>3. \A s : Undisturbed(s)' => Undisturbed(s)
  BY <1>0, <1>1 DEF Undisturbed
<1> QED
  BY <1>0, <1>2, <1>3

\* A row keeps a slot after a step only if it did before, or is inserted.
LEMMA NewKeepers ==
    ASSUME SerialInvariant, SerialMove, NEW r \in Resvs, Keeps(r)'
    PROVE  Keeps(r) \/ \E w \in Workers : CreateInsert(w, r)
<1>1. KnownRows' /\ OneAtATime'
  BY DEF SerialMove
<1> QED
  BY <1>1, MoveKinds, CallKeeps, WorkerKeeps, SweepKeeps, OutsideKeeps

\* What an INSERT writes.
LEMMA Inserted ==
    ASSUME SerialInvariant, NEW w \in Workers, NEW r \in Resvs,
           CreateInsert(w, r)
    PROVE  /\ worker[w].pc = "insert" /\ worker'[w].pc = "idle"
           /\ worker[w].slot \in Slots /\ worker[w].user \in Users
           /\ res[r].status = "NONE" /\ res'[r].status = "PENDING"
           /\ res'[r].user = worker[w].user /\ res'[r].slot = worker[w].slot
           /\ \A q \in Resvs : q # r => res'[q] = res[q]
           /\ slotStatus' = slotStatus /\ session' = session
           /\ OnlyWorker(w)
<1>1. OnlyWorker(w)
  BY RunsAlone DEF SerialInvariant, CreateInsert
<1> QED
  BY <1>1 DEF CreateInsert, EndWorker, IdleWorker, SerialInvariant, TypeOK,
     KnownRows, UsersKnown

\* Slots stay apart, and so do users: an INSERT gives a row what its worker
\* had for itself.
LEMMA KeptApartStep == SerialInvariant /\ SerialMove => KeptApart'
<1> SUFFICES ASSUME SerialInvariant, SerialMove,
                    NEW r \in Resvs, NEW q \in Resvs, Keeps(r)', Keeps(q)',
                    \/ res'[r].user = res'[q].user
                    \/ res'[r].slot = res'[q].slot /\ Undisturbed(res[r].slot)'
             PROVE  r = q
  BY DEF KeptApart
<1> DEFINE Same(p, o) ==
        \/ res'[p].user = res'[o].user
        \/ res'[p].slot = res'[o].slot /\ Undisturbed(res'[p].slot)
<1>0. Same(r, q) /\ Same(q, r)
  BY EvictedStay
<1>1. ASSUME NEW p \in Resvs, Keeps(p)
      PROVE  res'[p].slot = res[p].slot /\ res'[p].user = res[p].user
  <2>1. res[p].status # "NONE"
    BY <1>1, KeptRowsExist
  <2> QED
    BY <2>1, MoveIsStep, RowsStay DEF SerialInvariant
<1>2. ASSUME NEW w \in Workers, NEW p \in Resvs, CreateInsert(w, p),
             NEW o \in Resvs, Keeps(o), Same(o, p)
      PROVE  FALSE
  BY <1>1, <1>2, Inserted DEF SerialInvariant, ClaimsApart
<1>3. ASSUME NEW w \in Workers, NEW p \in Resvs, CreateInsert(w, p),
             NEW v \in Workers, NEW o \in Resvs, CreateInsert(v, o)
      PROVE  p = o
  BY <1>3, Inserted
<1>4. /\ Keeps(r) \/ \E w \in Workers : CreateInsert(w, r)
      /\ Keeps(q) \/ \E w \in Workers : CreateInsert(w, q)
  BY NewKeepers
<1>5. CASE Keeps(r) /\ Keeps(q)
  BY <1>0, <1>1, <1>5 DEF SerialInvariant, KeptApart
<1> HIDE DEF Same
<1> QED
  BY <1>0, <1>2, <1>3, <1>4, <1>5

\* The statements that make a slot DISPONIBLE.
LEMMA SlotOpens ==
    ASSUME TypeOK, [Next]_vars, NEW s \in Slots,
           slotStatus[s] # "DISPONIBLE", slotStatus'[s] = "DISPONIBLE"
    PROVE  \/ \E c \in Calls : /\ CancelRelease(c) \/ ExitRelease(c)
                               /\ s = res[call[c].resv].slot
           \/ \E k \in Sweeps : /\ SweepRelease(k)
                                /\ s = res[sweep[k].current].slot
<1> USE DEF TypeOK, SetSlot
<1>1. CASE UNCHANGED slotStatus
  BY <1>1
<1>2. ASSUME NEW w \in Workers, NEW t \in Slots, CreateClaim(w, t)
      PROVE  FALSE
  BY <1>2 DEF CreateClaim
<1>3. ASSUME NEW c \in Calls,
             CancelRelease(c) \/ EntryOccupy(c) \/ ExitRelease(c)
      PROVE  /\ CancelRelease(c) \/ ExitRelease(c)
             /\ s = res[call[c].resv].slot
  BY <1>3 DEF CancelRelease, EntryOccupy, ExitRelease
<1>4. ASSUME NEW k \in Sweeps, SweepRelease(k)
      PROVE  s = res[sweep[k].current].slot
  BY <1>4 DEF SweepRelease
<1>5. ASSUME NEW t \in Slots, ReportSlotBlocked(t)
      PROVE  FALSE
  BY <1>5 DEF ReportSlotBlocked
<1>6. ASSUME NEW b \in Branches, SimulateBranchFull(b)
      PROVE  FALSE
  BY <1>6 DEF SimulateBranchFull
<1> QED
  BY <1>1, <1>2, <1>3, <1>4, <1>5, <1>6, SlotChanges

\* A row gives its slot up in this step.
GivesUp(r) == Keeps(r) /\ ~Keeps(r)'

\* A call releases the slot that its reservation keeps and does not keep any
\* longer. An evicted car leaves with a slot that its reservation has given up
\* before.
LEMMA CallReleasesItsOwn ==
    ASSUME SerialInvariant, SerialMove, NEW c \in Calls,
           CancelRelease(c) \/ ExitRelease(c)
    PROVE  /\ OnlyCall(c)
           /\ \E r \in Resvs : r = call[c].resv /\ (r \in evicted \/ GivesUp(r))
<1>0. KnownRows' /\ OneAtATime'
  BY DEF SerialMove
<1>1. call[c].pc \in FreeingPC /\ AnyCallStep(c)
  BY DEF CancelRelease, ExitRelease, FreeingPC, AnyCallStep, CallStep
<1>2. OnlyCall(c) /\ call[c].resv \in Resvs
  BY <1>1, RunsAlone DEF SerialInvariant, KnownRows, FreeingPC
<1>3. PICK r \in Resvs : r = call[c].resv
  BY <1>2
<1>4. r \in evicted \/ Keeps(r)
  BY <1>1, <1>2, <1>3, KeepsOfCall
  DEF SerialInvariant, CallsStand, FreeingPC, Live
<1>5. ~Keeps(r)'
  BY <1>0, <1>1, <1>3, CallKeeps
<1> QED
  BY <1>2, <1>3, <1>4, <1>5 DEF GivesUp

\* So does a sweep with the slot of the row it has expired.
LEMMA SweepReleasesItsOwn ==
    ASSUME SerialInvariant, SerialMove, NEW k \in Sweeps, SweepRelease(k)
    PROVE  OnlySweep(k) /\ \E r \in Resvs : r = sweep[k].current /\ GivesUp(r)
<1>0. KnownRows' /\ OneAtATime'
  BY DEF SerialMove
<1>1. /\ sweep[k].current \in sweep[k].todo /\ sweep[k].todo \in SUBSET Resvs
      /\ AnySweepStep(k)
  BY DEF SweepRelease, AnySweepStep, SweepStep, SerialInvariant, KnownRows,
         TypeOK, SweepState
<1>2. OnlySweep(k) /\ sweep[k].current \in Resvs
  BY <1>1, RunsAlone DEF SerialInvariant
<1>3. PICK r \in Resvs : r = sweep[k].current
  BY <1>2
<1>4. Keeps(r)
  BY <1>3 DEF Keeps
<1>5. ~Keeps(r)'
  BY <1>0, <1>1, <1>3, SweepKeeps
<1> QED
  BY <1>2, <1>3, <1>4, <1>5 DEF GivesUp

\* The slot of a row that goes on keeping it is not made DISPONIBLE.
LEMMA KeptClosedStep == SerialInvariant /\ SerialMove => KeptClosed'
<1> SUFFICES ASSUME SerialInvariant, SerialMove, NEW r \in Resvs, Keeps(r)',
                    Undisturbed(res[r].slot)',
                    slotStatus'[res'[r].slot] = "DISPONIBLE"
             PROVE  FALSE
  BY DEF KeptClosed
<1>0. Undisturbed(res'[r].slot)
  BY EvictedStay
<1>1. ASSUME NEW w \in Workers, CreateInsert(w, r)
      PROVE  FALSE
  BY <1>0, <1>1, Inserted DEF SerialInvariant, ClaimsApart
<1>2. Keeps(r)
  BY <1>1, NewKeepers
<1>4. /\ res[r].slot \in Slots /\ res'[r].slot = res[r].slot
      /\ Undisturbed(res[r].slot)
  BY <1>0, <1>2, KeptRowsExist, MoveIsStep, RowsStay DEF SerialInvariant
<1>3. slotStatus[res[r].slot] # "DISPONIBLE"
  BY <1>2, <1>4 DEF SerialInvariant, KeptClosed
<1>5. PICK q \in Resvs : Keeps(q) /\ ~Keeps(q)' /\ res[q].slot = res[r].slot
  BY <1>3, <1>4, SlotOpens, MoveIsStep, CallReleasesItsOwn,
     SweepReleasesItsOwn
  DEF SerialInvariant, Undisturbed, GivesUp
<1>6. q = r
  BY <1>2, <1>4, <1>5 DEF SerialInvariant, KeptApart
<1> QED
  BY <1>5, <1>6

\* A worker's user keeps no slot until the row of the request is inserted, and
\* the slot it claims was nobody's.
LEMMA ClaimsApartStep == SerialInvariant /\ SerialMove => ClaimsApart'
<1> SUFFICES ASSUME SerialInvariant, SerialMove,
                    NEW w \in Workers, worker'[w].pc # "idle"
             PROVE  /\ \A r \in Resvs : Keeps(r)' => res'[r].user # worker'[w].user
                    /\ worker'[w].pc = "insert" /\ Undisturbed(worker[w].slot)' =>
                        /\ slotStatus'[worker'[w].slot] # "DISPONIBLE"
                        /\ \A r \in Resvs :
                              Keeps(r)' => res'[r].slot # worker'[w].slot
  BY DEF ClaimsApart
<1> DEFINE Apart ==
        /\ \A r \in Resvs : Keeps(r)' => res'[r].user # worker'[w].user
        /\ worker'[w].pc = "insert" /\ Undisturbed(worker'[w].slot) =>
            /\ slotStatus'[worker'[w].slot] # "DISPONIBLE"
            /\ \A r \in Resvs : Keeps(r)' => res'[r].slot # worker'[w].slot
<1>0. TypeOK /\ KnownRows /\ [Next]_vars /\ KnownRows' /\ OneAtATime'
  BY MoveIsStep DEF SerialInvariant, SerialMove
<1>1. OnlyWorker(w)'
  BY <1>0, RunsAloneNext
<1>2. ASSUME OutsideStep \/ UNCHANGED vars
      PROVE  Apart
  <2>1. /\ res' = res /\ worker' = worker
        /\ \A r \in Resvs : Keeps(r)' <=> Keeps(r)
    BY <1>2, OutsideKeeps
  <2>2. worker[w].pc = "insert" => worker[w].slot \in Slots
    BY <1>0 DEF KnownRows
  <2>3. ~ \E c \in Calls : CancelRelease(c) \/ ExitRelease(c)
    BY <1>1, <1>2, <2>1, OutsideKeeps
    DEF OnlyWorker, NoCallRuns, CancelRelease, ExitRelease
  <2>4. ~ \E k \in Sweeps : SweepRelease(k)
    BY <1>1, <1>2, <2>1, OutsideKeeps, CallReleasesItsOwn,
       SweepReleasesItsOwn DEF GivesUp
  <2>5. \A s \in Slots : slotStatus[s] # "DISPONIBLE"
                            => slotStatus'[s] # "DISPONIBLE"
    BY <1>0, <2>3, <2>4, SlotOpens
  <2> QED
    BY <2>1, <2>2, <2>5 DEF SerialInvariant, ClaimsApart
<1>3. ASSUME NEW c \in Calls, AnyCallStep(c)
      PROVE  FALSE
  BY <1>0, <1>3, CallMovesAlone DEF SerialInvariant, OnlyCall, NoWorkerRuns
<1>4. ASSUME NEW k \in Sweeps, AnySweepStep(k)
      PROVE  FALSE
  BY <1>0, <1>4, SweepMovesAlone DEF SerialInvariant, OnlySweep, NoWorkerRuns
<1>5. ASSUME NEW v \in Workers, AnyWorkerStep(v)
      PROVE  Apart
  <2>1. /\ OnlyWorker(v) /\ call' = call /\ sweep' = sweep
        /\ \A i \in Workers : i # v => worker'[i] = worker[i]
    BY <1>0, <1>5, WorkerMovesAlone DEF SerialInvariant
  <2>2. v = w
    BY <2>1 DEF OnlyWorker
  <2>3. ASSUME NEW r \in Resvs, CreateInsert(w, r)
        PROVE  FALSE
    BY <2>3, Inserted
  <2>4. \A r \in Resvs : Keeps(r)' <=> Keeps(r)
    BY <1>0, <1>5, <2>2, <2>3, WorkerKeeps
  <2>5. worker \in [Workers -> WorkerState] /\ slotStatus \in [Slots -> SlotStatuses]
    BY <1>0 DEF TypeOK
  <2>6. CASE CreateCheckSession(w)
    <3>1. /\ res' = res /\ worker'[w].pc = "claim" /\ worker[w].pc # "idle"
          /\ worker'[w].user = worker[w].user
      BY <2>5, <2>6 DEF CreateCheckSession, EndWorker, IdleWorker, tables,
         WorkerState
    <3> QED
      BY <2>4, <3>1 DEF SerialInvariant, ClaimsApart
  <2>7. ASSUME NEW s \in Slots, CreateClaim(w, s)
        PROVE  Apart
    <3>1. /\ res' = res /\ worker[w].pc # "idle" /\ slotStatus[s] = "DISPONIBLE"
          /\ worker'[w].user = worker[w].user /\ worker'[w].slot = s
          /\ slotStatus'[s] = "RESERVADA"
      BY <2>5, <2>7 DEF CreateClaim, SetSlot, WorkerState
    <3>2. \A r \in Resvs :
              Keeps(r) /\ Undisturbed(s) => res[r].slot # s
      BY <3>1 DEF SerialInvariant, KeptClosed
    <3> QED
      BY <2>4, <3>1, <3>2 DEF SerialInvariant, ClaimsApart
  <2>8. CASE CreateNoSlot(w)
    BY <2>5, <2>8 DEF CreateNoSlot, EndWorker, IdleWorker
  <2>10. CASE CreateReadsClock(w)
    <3>1. /\ res' = res /\ slotStatus' = slotStatus
          /\ worker[w].pc = "insert"
          /\ worker'[w].user = worker[w].user
          /\ worker'[w].slot = worker[w].slot
      BY <2>5, <2>10 DEF CreateReadsClock, tables, WorkerState
    <3> QED
      BY <2>4, <3>1 DEF SerialInvariant, ClaimsApart
  <2>9. ASSUME NEW u \in Users, NEW b \in Branches,
               NEW t \in Scheduled \cup {Asap}, StartCreate(w, u, b, t)
        PROVE  Apart
    <3>1. /\ res' = res /\ worker'[w].pc = "checkSession"
          /\ worker'[w].user = u
      BY <2>5, <2>9 DEF StartCreate, tables
    <3>2. \A r \in Resvs : Keeps(r) => res[r].status \in Live
      BY <2>1, KeepsOfOthers, ParkingAssumption
      DEF OnlyWorker, NoSweepRuns
    <3>3. \A r \in Resvs : ~(res[r].user = u /\ res[r].status \in Live)
      BY <2>9 DEF StartCreate
    <3> QED
      BY <2>4, <3>1, <3>2, <3>3
  <2> QED
    BY <1>5, <2>2, <2>3, <2>6, <2>7, <2>8, <2>9, <2>10
    DEF AnyWorkerStep, WorkerStep
<1>6. Apart
  <2> HIDE DEF Apart
  <2> QED
    BY <1>2, <1>3, <1>4, <1>5, MoveKinds
<1> QED
  BY <1>6, EvictedStay

\* The reservation of a parked car is CONFIRMED unless it has been cancelled:
\* no sweep reads it as overdue.
LEMMA ParkedIsConfirmedStep ==
    SerialInvariant /\ SerialMove => ParkedIsConfirmed'
<1> SUFFICES ASSUME SerialInvariant, SerialMove,
                    NEW r \in Resvs, session'[r].status = "ACTIVE",
                    r \notin evicted'
             PROVE  res'[r].status = "CONFIRMED"
  BY DEF ParkedIsConfirmed
<1>0. TypeOK /\ KnownRows /\ [Next]_vars /\ r \notin evicted
  BY MoveIsStep, EvictedStay DEF SerialInvariant
<1>1. CASE session[r].status = "ACTIVE"
  <2>1. res[r].status = "CONFIRMED"
    BY <1>0, <1>1 DEF SerialInvariant, ParkedIsConfirmed
  <2>2. ASSUME NEW w \in Workers, NEW q \in Resvs, CreateInsert(w, q)
        PROVE  res'[r].status = "CONFIRMED"
    BY <1>0, <2>1, <2>2 DEF CreateInsert, TypeOK
  <2>3. ASSUME NEW c \in Calls,
               CancelUpdate(c) \/ EntryConfirm(c) \/ ExitClose(c)
        PROVE  res'[r].status = "CONFIRMED"
    <3>1. CancelUpdate(c) => call[c].resv # r
      <4>1. r \notin CancelledParked
        BY DEF SerialMove
      <4> QED
        BY <1>0, <1>1, <2>1, <4>1
        DEF CancelUpdate, SetRes, CancelledParked, TypeOK, ResRow
    <3>2. ExitClose(c) => call[c].resv # r
      BY <1>1 DEF ExitClose, SerialInvariant, CallsStand
    <3> QED
      BY <1>0, <2>1, <2>3, <3>1, <3>2
      DEF CancelUpdate, EntryConfirm, ExitClose, SetRes, TypeOK, ResRow
  <2>4. ASSUME NEW k \in Sweeps, NEW q \in Resvs, SweepExpire(k, q)
        PROVE  res'[r].status = "CONFIRMED"
    <3>1. q # r
      BY <2>1, <2>4, ParkingAssumption
      DEF SweepExpire, SerialInvariant, SweepsStand
    <3> QED
      BY <1>0, <2>1, <2>4, <3>1 DEF SweepExpire, SetRes, TypeOK, ResRow
  <2> QED
    BY <1>0, <2>1, <2>2, <2>3, <2>4, ReservationChanges
<1>2. CASE session[r].status # "ACTIVE"
  <2>1. PICK c \in Calls : EntryCreate(c) \/ ExitComplete(c)
    BY <1>0, <1>2, SessionChanges
  <2>2. EntryCreate(c) /\ r = call[c].resv
    BY <1>0, <1>2, <2>1 DEF EntryCreate, ExitComplete, TypeOK, SessionRow
  <2>3. res' = res
    BY <2>2 DEF EntryCreate
  <2> QED
    BY <2>2, <2>3 DEF EntryCreate, SerialInvariant, CallsStand
<1> QED
  BY <1>1, <1>2

\* Users stay known: rows and workers get them from requests.
LEMMA UsersKnownStep == SerialInvariant /\ SerialMove => UsersKnown'
<1> SUFFICES ASSUME SerialInvariant, SerialMove
             PROVE  UsersKnown'
  OBVIOUS
<1>0. TypeOK /\ KnownRows /\ [Next]_vars
  BY MoveIsStep DEF SerialInvariant
<1>1. ASSUME NEW r \in Resvs, res'[r].status # "NONE"
      PROVE  res'[r].user \in Users
  <2>1. CASE res[r].status # "NONE"
    BY <1>0, <2>1, RowsStay DEF SerialInvariant, UsersKnown
  <2>2. CASE res[r].status = "NONE"
    <3>1. ASSUME NEW c \in Calls,
                 CancelUpdate(c) \/ EntryConfirm(c) \/ ExitClose(c)
          PROVE  res'[r] = res[r]
      <4>1. call[c].resv # r
        BY <1>0, <2>2, <3>1
        DEF CancelUpdate, EntryConfirm, ExitClose, KnownRows
      <4> QED
        BY <1>0, <3>1, <4>1
        DEF CancelUpdate, EntryConfirm, ExitClose, SetRes, TypeOK
    <3>2. ASSUME NEW k \in Sweeps, NEW q \in Resvs, SweepExpire(k, q)
          PROVE  res'[r] = res[r]
      BY <1>0, <2>2, <3>2 DEF SweepExpire, SetRes, TypeOK, KnownRows
    <3>3. \E w \in Workers, q \in Resvs : CreateInsert(w, q)
      BY <1>0, <1>1, <2>2, <3>1, <3>2, ReservationChanges
    <3> QED
      BY <1>1, <2>2, <3>3, Inserted
  <2> QED
    BY <2>1, <2>2
<1>2. ASSUME NEW w \in Workers, worker'[w].pc # "idle"
      PROVE  worker'[w].user \in Users
  <2>1. worker[w].pc # "idle" => worker[w].user \in Users
    BY DEF SerialInvariant, UsersKnown
  <2> QED
    <3>1. worker \in [Workers -> WorkerState]
      BY <1>0 DEF TypeOK
    <3>2. CASE worker'[w] = worker[w] \/ worker'[w] = IdleWorker
      BY <1>2, <2>1, <3>2 DEF IdleWorker
    <3>3. ASSUME NEW u \in Users, NEW b \in Branches,
                 NEW t \in Scheduled \cup {Asap}, StartCreate(w, u, b, t)
          PROVE  worker'[w].user \in Users
      BY <3>1, <3>3 DEF StartCreate
    <3>4. CASE /\ CreateCheckSession(w)
               /\ worker'[w] = [worker[w] EXCEPT !.pc = "claim"]
      BY <2>1, <3>1, <3>4 DEF CreateCheckSession, WorkerState
    <3>5. ASSUME NEW s \in Slots, CreateClaim(w, s)
          PROVE  worker'[w].user \in Users
      BY <2>1, <3>1, <3>5 DEF CreateClaim, WorkerState
    <3>6. CASE /\ CreateReadsClock(w)
               /\ worker'[w] = [worker[w] EXCEPT !.startAt = now]
      BY <2>1, <3>1, <3>6 DEF CreateReadsClock, WorkerState
    <3> QED
      BY <1>0, <3>2, <3>3, <3>4, <3>5, <3>6, WorkerSteps
<1> QED
  BY <1>1, <1>2 DEF UsersKnown

\* What a call has read or written stays so while it runs alone.
LEMMA CallsStandStep == SerialInvariant /\ SerialMove => CallsStand'
<1> SUFFICES ASSUME SerialInvariant, SerialMove
             PROVE  CallsStand'
  OBVIOUS
<1> DEFINE Stands(i, rows, stays, gone) ==
        LET r == i.resv IN
        /\ i.pc = "cancelUpdate" => rows[r].status \in Live
        /\ i.pc = "cancelRelease" => rows[r].status = "CANCELLED"
        /\ i.pc = "entrySession" =>
              rows[r].status \in Live /\ rows[r].status = i.seen
        /\ i.pc = "entryConfirm" => rows[r].status = "PENDING"
        /\ i.pc = "entryCreate" => rows[r].status = "CONFIRMED"
        /\ i.pc \in {"entryOccupy"} \cup ExitPC =>
              stays[r].status = "ACTIVE"
        /\ i.pc \in {"exitRelease", "exitClose"} =>
              /\ stays[r].status = "COMPLETED"
              /\ r \notin gone => rows[r].status = "CONFIRMED"
<1>0. TypeOK /\ KnownRows /\ KnownRows' /\ OneAtATime'
  BY DEF SerialInvariant, SerialMove
<1>a. \A q \in evicted : q \in evicted'
  BY EvictedStay
<1>1. \A c \in Calls : Stands(call[c], res, session, evicted)
  BY DEF SerialInvariant, CallsStand
<1>2. \A c \in Calls : call'[c].pc = "idle" => Stands(call'[c], res', session', evicted')
  BY DEF ExitPC
<1>3. ASSUME OutsideStep \/ UNCHANGED vars, NEW c \in Calls
      PROVE  Stands(call'[c], res', session', evicted')
  BY <1>a, <1>1, <1>3, OutsideKeeps
<1>4. ASSUME NEW w \in Workers, AnyWorkerStep(w), NEW c \in Calls
      PROVE  Stands(call'[c], res', session', evicted')
  <2>1. call'[c].pc = "idle"
    BY <1>0, <1>4, WorkerMovesAlone DEF SerialInvariant, OnlyWorker, NoCallRuns
  <2> QED
    BY <1>2, <2>1
<1>5. ASSUME NEW k \in Sweeps, AnySweepStep(k), NEW c \in Calls
      PROVE  Stands(call'[c], res', session', evicted')
  <2>1. call'[c].pc = "idle"
    BY <1>0, <1>5, SweepMovesAlone DEF SerialInvariant, OnlySweep, NoCallRuns
  <2> QED
    BY <1>2, <2>1
<1>6. ASSUME NEW c \in Calls, AnyCallStep(c)
      PROVE  Stands(call'[c], res', session', evicted')
  <2>1. /\ call \in [Calls -> CallState] /\ res \in [Resvs -> ResRow]
        /\ session \in [Resvs -> SessionRow]
        /\ call[c].pc # "idle" => call[c].resv \in Resvs
    BY <1>0 DEF TypeOK, KnownRows
  <2>2. Stands(call[c], res, session, evicted)
    BY <1>1
  <2> USE DEF Live
  <2>3. ASSUME NEW r \in Resvs, StartCancel(c, r)
        PROVE  Stands(call'[c], res', session', evicted')
    <3>1. /\ call'[c].pc = "cancelUpdate" /\ call'[c].resv = r
          /\ res' = res /\ res[r].status \in Live
      BY <2>1, <2>3 DEF StartCancel, IdleCall, tables
    <3> QED
      BY <3>1 DEF ExitPC
  <2>4. ASSUME NEW r \in Resvs, StartEntry(c, r)
        PROVE  Stands(call'[c], res', session', evicted')
    <3>1. /\ call'[c].pc = "entrySession" /\ call'[c].resv = r
          /\ res' = res /\ res[r].status \in Live
          /\ call'[c].seen = res[r].status
      BY <2>1, <2>4 DEF StartEntry, tables
    <3> QED
      BY <3>1 DEF ExitPC
  <2>5. ASSUME NEW r \in Resvs, StartExit(c, r)
        PROVE  Stands(call'[c], res', session', evicted')
    <3>1. /\ call'[c].pc = "exitPayment" /\ call'[c].resv = r
          /\ session' = session /\ session[r].status = "ACTIVE"
      BY <2>1, <2>5 DEF StartExit, IdleCall, tables
    <3> QED
      BY <3>1 DEF ExitPC
  <2>6. CASE CancelUpdate(c)
    <3>1. /\ call'[c].pc = "cancelRelease" /\ call'[c].resv = call[c].resv
          /\ res'[call[c].resv].status = "CANCELLED"
      BY <2>1, <2>6 DEF CancelUpdate, SetRes, Goto, CallState, ResRow
    <3> QED
      BY <3>1 DEF ExitPC
  <2>7. CASE CancelRelease(c) \/ EntryOccupy(c) \/ ExitClose(c)
    <3>1. call'[c].pc = "idle"
      BY <2>1, <2>7 DEF CancelRelease, EntryOccupy, ExitClose, EndCall, IdleCall
    <3> QED
      BY <1>2, <3>1
  <2>8. CASE EntryCheckSession(c)
    <3>1. /\ call[c].pc = "entrySession" /\ res' = res /\ session' = session
          /\ \/ call'[c].pc = "idle"
             \/ /\ call'[c].resv = call[c].resv
                /\ call'[c].pc = IF call[c].seen = "PENDING" THEN "entryConfirm"
                                                             ELSE "entryCreate"
      BY <2>1, <2>8
      DEF EntryCheckSession, EndCall, IdleCall, Goto, CallState, tables
    <3> QED
      BY <1>a, <1>2, <2>2, <3>1 DEF ExitPC
  <2>9. CASE EntryConfirm(c)
    <3>1. /\ call'[c].pc = "entryCreate" /\ call'[c].resv = call[c].resv
          /\ res'[call[c].resv].status = "CONFIRMED"
      BY <2>1, <2>9 DEF EntryConfirm, SetRes, Goto, CallState, ResRow
    <3> QED
      BY <3>1 DEF ExitPC
  <2>10. CASE EntryCreate(c)
    <3>1. \/ call'[c].pc = "idle"
          \/ /\ call'[c].pc = "entryOccupy" /\ call'[c].resv = call[c].resv
             /\ session'[call[c].resv].status = "ACTIVE"
      BY <2>1, <2>10
      DEF EntryCreate, EndCall, IdleCall, Goto, CallState, SessionRow
    <3> QED
      BY <1>2, <3>1 DEF ExitPC
  <2>11. CASE ExitCheckPayment(c) \/ ExitRecheck(c)
    <3>1. /\ call[c].pc \in ExitPC /\ res' = res /\ session' = session
          /\ \/ call'[c].pc = "idle"
             \/ call'[c].pc \in ExitPC /\ call'[c].resv = call[c].resv
      BY <2>1, <2>11
      DEF ExitCheckPayment, ExitRecheck, EndCall, IdleCall, Goto, CallState,
          tables, ExitPC
    <3> QED
      BY <1>a, <1>2, <2>2, <3>1 DEF ExitPC
  <2>12. CASE ExitComplete(c)
    <3>1. /\ call[c].pc = "exitComplete" /\ res' = res
          /\ call'[c].pc = "exitRelease" /\ call'[c].resv = call[c].resv
          /\ session'[call[c].resv].status = "COMPLETED"
      BY <2>1, <2>12 DEF ExitComplete, Goto, CallState, SessionRow
    <3>2. call[c].resv \notin evicted => res[call[c].resv].status = "CONFIRMED"
      BY <2>1, <2>2, <3>1 DEF ExitPC, SerialInvariant, ParkedIsConfirmed
    <3> QED
      BY <1>a, <3>1, <3>2 DEF ExitPC
  <2>13. CASE ExitRelease(c)
    <3>1. /\ call[c].pc = "exitRelease" /\ res' = res /\ session' = session
          /\ call'[c].pc = "exitClose" /\ call'[c].resv = call[c].resv
      BY <2>1, <2>13 DEF ExitRelease, Goto, CallState
    <3> QED
      BY <1>a, <2>2, <3>1 DEF ExitPC
  <2> HIDE DEF Stands
  <2> QED
    BY <1>6, <2>3, <2>4, <2>5, <2>6, <2>7, <2>8, <2>9, <2>10, <2>11, <2>12,
       <2>13 DEF AnyCallStep, CallStep
<1>7. ASSUME NEW d \in Calls, AnyCallStep(d), NEW c \in Calls
      PROVE  Stands(call'[c], res', session', evicted')
  <2>1. CASE c = d
    BY <1>6, <1>7, <2>1
  <2>2. CASE c # d
    <3>1. call'[c].pc = "idle"
      BY <1>0, <1>7, <2>2, CallMovesAlone DEF SerialInvariant, OnlyCall
    <3> QED
      BY <1>2, <3>1
  <2> QED
    BY <2>1, <2>2
<1>8. \A c \in Calls : Stands(call'[c], res', session', evicted')
  <2> HIDE DEF Stands
  <2> QED
    BY <1>3, <1>4, <1>5, <1>7, MoveKinds
<1> QED
  BY <1>8 DEF CallsStand

\* The rows a sweep has still to expire are PENDING: nobody writes them.
LEMMA SweepsStandStep == SerialInvariant /\ SerialMove => SweepsStand'
<1> SUFFICES ASSUME SerialInvariant, SerialMove,
                    NEW j \in Sweeps, NEW r \in sweep'[j].todo
             PROVE  res'[r].status = IF r = sweep'[j].current THEN "EXPIRED"
                                                             ELSE "PENDING"
  BY DEF SweepsStand
<1> DEFINE Stands ==
        res'[r].status = IF r = sweep'[j].current THEN "EXPIRED" ELSE "PENDING"
<1>0. TypeOK /\ KnownRows /\ KnownRows' /\ OneAtATime'
  BY DEF SerialInvariant, SerialMove
<1>1. OnlySweep(j)'
  BY <1>0, RunsAloneNext
<1>2. ASSUME OutsideStep \/ UNCHANGED vars
      PROVE  Stands
  BY <1>2, OutsideKeeps DEF SerialInvariant, SweepsStand
<1>3. ASSUME NEW c \in Calls, AnyCallStep(c)
      PROVE  FALSE
  BY <1>0, <1>3, CallMovesAlone DEF SerialInvariant, OnlyCall, NoSweepRuns
<1>4. ASSUME NEW w \in Workers, AnyWorkerStep(w)
      PROVE  FALSE
  BY <1>0, <1>4, WorkerMovesAlone DEF SerialInvariant, OnlyWorker, NoSweepRuns
<1>5. ASSUME NEW k \in Sweeps, AnySweepStep(k)
      PROVE  Stands
  <2>1. k = j
    BY <1>0, <1>5, SweepMovesAlone DEF SerialInvariant, OnlySweep
  <2>2. /\ sweep \in [Sweeps -> SweepState] /\ res \in [Resvs -> ResRow]
        /\ \A q \in sweep[j].todo :
              res[q].status
                = IF q = sweep[j].current THEN "EXPIRED" ELSE "PENDING"
        /\ sweep[j].current # None => sweep[j].current \in sweep[j].todo
    BY <1>0 DEF SerialInvariant, TypeOK, KnownRows, SweepsStand
  <2>3. CASE StartSweep(j)
    <3>1. sweep'[j].todo = {q \in Resvs : Overdue(q)} /\ res' = res
          /\ sweep'[j].current = sweep[j].current /\ sweep[j].todo = {}
      BY <2>2, <2>3 DEF StartSweep, SweepState, tables
    <3> QED
      BY <2>2, <3>1, ParkingAssumption DEF Overdue
  <2>4. ASSUME NEW q \in Resvs, SweepExpire(j, q)
        PROVE  Stands
    <3>1. /\ sweep'[j].todo = sweep[j].todo /\ sweep'[j].current = q
          /\ sweep[j].current = None /\ q \in sweep[j].todo
          /\ res' = [res EXCEPT ![q].status = "EXPIRED"]
      BY <2>2, <2>4 DEF SweepExpire, SetRes, SweepState
    <3>2. r \in Resvs /\ r # None
      BY <2>2, <3>1, ParkingAssumption DEF SweepState
    <3> QED
      BY <2>2, <3>1, <3>2 DEF ResRow
  <2>5. CASE SweepRelease(j)
    <3>1. /\ sweep'[j].todo = sweep[j].todo \ {sweep[j].current}
          /\ sweep'[j].current = None /\ res' = res
      BY <2>2, <2>5 DEF SweepRelease, SweepState
    <3>2. r \in Resvs /\ r # None
      BY <2>2, <3>1, ParkingAssumption DEF SweepState
    <3> QED
      BY <2>2, <3>1, <3>2
  <2> HIDE DEF Stands
  <2> QED
    BY <1>5, <2>1, <2>3, <2>4, <2>5 DEF AnySweepStep, SweepStep
<1>6. Stands
  <2> HIDE DEF Stands
  <2> QED
    BY <1>2, <1>3, <1>4, <1>5, MoveKinds
<1> QED
  BY <1>6

\* The reservation of a parked car keeps its slot, unless it was cancelled.
LEMMA ParkedKeeps ==
    ASSUME SerialInvariant, NEW r \in Resvs, session[r].status = "ACTIVE",
           r \notin evicted
    PROVE  Keeps(r)
<1>1. res[r].status \in Live
  BY DEF SerialInvariant, ParkedIsConfirmed, Live
<1>2. \A c \in Calls : ~(call[c].pc = "exitClose" /\ call[c].resv = r)
  BY DEF SerialInvariant, CallsStand
<1> QED
  BY <1>1, <1>2 DEF Keeps

\* Two live reservations never share a slot on which nobody cancelled with the
\* car parked.
AssignedOnce ==
    \A r, q \in Resvs :
        /\ res[r].status \in Live /\ res[q].status \in Live
        /\ res[r].slot = res[q].slot /\ Undisturbed(res[r].slot)
        => r = q

\* Live reservations have slots of their own, released ones included that an
\* exit has not closed yet.
LEMMA LiveApartStep ==
    SerialInvariant /\ AssignedOnce /\ SerialMove => AssignedOnce'
<1> SUFFICES ASSUME SerialInvariant, AssignedOnce, SerialMove,
                    NEW r \in Resvs, NEW q \in Resvs,
                    res'[r].status \in Live, res'[q].status \in Live,
                    res'[r].slot = res'[q].slot, Undisturbed(res[r].slot)'
             PROVE  r = q
  BY DEF AssignedOnce
<1>a. Undisturbed(res'[r].slot)
  BY EvictedStay
<1>0. TypeOK /\ KnownRows /\ [Next]_vars
  BY MoveIsStep DEF SerialInvariant
<1>1. ASSUME NEW p \in Resvs, res'[p].status \in Live
      PROVE  \/ res[p].status \in Live /\ res'[p].slot = res[p].slot
             \/ \E w \in Workers : CreateInsert(w, p)
  <2>1. CASE res'[p] = res[p]
    BY <1>1, <2>1
  <2>2. ASSUME NEW w \in Workers, NEW o \in Resvs, CreateInsert(w, o)
        PROVE  res'[p] = res[p] \/ CreateInsert(w, p)
    BY <2>2, Inserted
  <2>3. ASSUME NEW c \in Calls,
               CancelUpdate(c) \/ EntryConfirm(c) \/ ExitClose(c)
        PROVE  \/ res'[p] = res[p]
               \/ res[p].status \in Live /\ res'[p].slot = res[p].slot
    BY <1>0, <1>1, <2>3
    DEF CancelUpdate, EntryConfirm, ExitClose, SetRes, TypeOK, ResRow, Live,
        SerialInvariant, CallsStand
  <2>4. ASSUME NEW k \in Sweeps, NEW o \in Resvs, SweepExpire(k, o)
        PROVE  res'[p] = res[p]
    BY <1>0, <1>1, <2>4 DEF SweepExpire, SetRes, TypeOK, ResRow, Live
  <2> QED
    BY <1>0, <1>1, <2>1, <2>2, <2>3, <2>4, ReservationChanges
<1>2. ASSUME NEW w \in Workers, NEW p \in Resvs, CreateInsert(w, p),
             NEW o \in Resvs, res[o].status \in Live,
             Undisturbed(res'[p].slot)
      PROVE  res'[p].slot # res[o].slot
  <2>1. Keeps(o)
    BY <1>2, Inserted, KeepsOfOthers DEF OnlyWorker
  <2> QED
    BY <1>2, <2>1, Inserted DEF SerialInvariant, ClaimsApart
<1>3. ASSUME NEW w \in Workers, NEW p \in Resvs, CreateInsert(w, p),
             NEW v \in Workers, NEW o \in Resvs, CreateInsert(v, o)
      PROVE  p = o
  BY <1>3, Inserted
<1>4. CASE res[r].status \in Live /\ res[q].status \in Live
           /\ res'[r].slot = res[r].slot /\ res'[q].slot = res[q].slot
  BY <1>a, <1>4 DEF AssignedOnce
<1> QED
  BY <1>a, <1>1, <1>2, <1>3, <1>4

\* Nothing runs and no row exists yet.
LEMMA InitSerialInvariant == SerialInit => SerialInvariant /\ AssignedOnce
<1> SUFFICES ASSUME Init, evicted = {}
             PROVE  SerialInvariant /\ AssignedOnce
  BY DEF SerialInit
<1>1. TypeOK /\ KnownRows
  BY InitInvariant DEF Inductive
<1>2. NoCallRuns /\ NoWorkerRuns /\ NoSweepRuns
  BY DEF Init, NoCallRuns, NoWorkerRuns, NoSweepRuns, IdleCall, IdleWorker,
     IdleSweep
<1>3. /\ \A r \in Resvs : res[r].status = "NONE" /\ session[r].status = "NONE"
      /\ \A r \in Resvs : res[r].status \notin Live
  BY DEF Init, NoRow, NoSession, Live
<1>4. \A r \in Resvs : ~Keeps(r)
  BY <1>2, <1>3, KeepsOfOthers, ParkingAssumption DEF NoSweepRuns
<1>5. OneAtATime
  BY <1>2 DEF OneAtATime, InFlight, NoCallRuns, NoWorkerRuns, NoSweepRuns
<1>6. KeptApart /\ KeptClosed /\ ParkedIsConfirmed /\ AssignedOnce
  BY <1>3, <1>4 DEF KeptApart, KeptClosed, ParkedIsConfirmed, AssignedOnce
<1>7. UsersKnown /\ ClaimsApart
  BY <1>2, <1>3 DEF UsersKnown, ClaimsApart, NoWorkerRuns
<1>8. EvictedExist /\ CallsStand
  BY <1>2 DEF EvictedExist, CallsStand, NoCallRuns, ExitPC
<1>9. SweepsStand
  BY <1>2 DEF SweepsStand, NoSweepRuns
<1> QED
  BY <1>1, <1>5, <1>6, <1>7, <1>8, <1>9 DEF SerialInvariant

\* A step of the specification is such a move.
LEMMA SerialNextMoves ==
    SerialInvariant /\ [SerialNext]_serialVars => SerialMove
<1> SUFFICES ASSUME SerialInvariant, [SerialNext]_serialVars
             PROVE  SerialMove
  OBVIOUS
<1>1. [Step]_vars /\ [Next]_vars
  BY DEF SerialNext, Next, serialVars
<1>2. TypeOK'
  BY <1>1, TypeStep DEF SerialInvariant
<1>3. KnownRows'
  BY <1>1, <1>2, KnownRowsStep DEF SerialInvariant
<1>4. OneAtATime' /\ evicted' = evicted \cup CancelledParked
  <2>1. CASE SerialNext
    BY <2>1 DEF SerialNext
  <2>2. CASE UNCHANGED serialVars
    BY <2>2 DEF SerialInvariant, OneAtATime, InFlight, CancelledParked,
       serialVars, vars, tables
  <2> QED
    BY <2>1, <2>2
<1> QED
  BY <1>1, <1>2, <1>3, <1>4 DEF SerialMove

\* Every step of the serial backend preserves the invariant.
LEMMA SerialInvariantSteps ==
    SerialInvariant /\ [SerialNext]_serialVars => SerialInvariant'
<1> SUFFICES ASSUME SerialInvariant, [SerialNext]_serialVars
             PROVE  SerialInvariant'
  OBVIOUS
<1>1. SerialMove
  BY SerialNextMoves
<1>2. TypeOK' /\ KnownRows' /\ OneAtATime' /\ EvictedExist'
  BY <1>1, EvictedStay DEF SerialMove
<1> QED
  BY <1>1, <1>2, UsersKnownStep, KeptApartStep, KeptClosedStep,
     ClaimsApartStep, ParkedIsConfirmedStep, CallsStandStep, SweepsStandStep
  DEF SerialInvariant

\* What a handler that runs alone may rely on.
THEOREM SerialInvariantHolds == SerialSpec => []SerialInvariant
<1>1. SerialInit => SerialInvariant
  BY InitSerialInvariant
<1> QED
  BY <1>1, SerialInvariantSteps, PTL DEF SerialSpec

\* Policy 6 of a backend that runs one handler at a time: two live reservations
\* never share a slot on which nobody cancelled with the car parked.
THEOREM SerialAssignedOnce == SerialSpec => []AssignedOnce
<1>1. SerialInit => SerialInvariant /\ AssignedOnce
  BY InitSerialInvariant
<1>2. SerialInvariant /\ AssignedOnce /\ [SerialNext]_serialVars
        => SerialInvariant' /\ AssignedOnce'
  BY SerialInvariantSteps, SerialNextMoves, LiveApartStep
<1> QED
  BY <1>1, <1>2, PTL DEF SerialSpec

\* The slot of a parked car is not offered while handlers run alone, unless a
\* driver cancelled with a car parked on it.
THEOREM SerialParkedNotOffered == SerialSpec => []ParkedSlotsAreNotOffered
<1>1. SerialInvariant => ParkedSlotsAreNotOffered
  <2> SUFFICES ASSUME SerialInvariant, NEW r \in Resvs,
                      session[r].status = "ACTIVE", Undisturbed(res[r].slot)
               PROVE  slotStatus[res[r].slot] # "DISPONIBLE"
    BY DEF ParkedSlotsAreNotOffered
  <2>1. r \notin evicted
    BY DEF Undisturbed
  <2>2. Keeps(r)
    BY <2>1, ParkedKeeps
  <2> QED
    BY <2>2 DEF SerialInvariant, KeptClosed
<1> QED
  BY <1>1, SerialInvariantHolds, PTL

-----------------------------------------------------------------------------
(* The slots of the tables and the slots of ParkingLot.                      *)

\* Who has a slot: the worker that claimed it, or the row that keeps it.
LEMMA UsersOfSlot ==
    \A s \in Slots : \A u :
        u \in SlotUsers(s) <=>
            \/ \E w \in Workers : /\ worker[w].pc = "insert"
                                  /\ worker[w].slot = s /\ worker[w].user = u
            \/ \E r \in Resvs : Keeps(r) /\ res[r].slot = s /\ res[r].user = u
  BY DEF SlotUsers

\* The same after a step.
LEMMA UsersOfSlotNext ==
    (\A s \in Slots : \A u :
        u \in SlotUsers(s) <=>
            \/ \E w \in Workers : /\ worker[w].pc = "insert"
                                  /\ worker[w].slot = s /\ worker[w].user = u
            \/ \E r \in Resvs : Keeps(r) /\ res[r].slot = s /\ res[r].user = u)'
  BY UsersOfSlot, PTL

\* A slot has one holder at most, the only user it has.
LEMMA HolderOfSlot ==
    SerialInvariant /\ evicted = {} => \A s \in Slots :
        /\ SlotHolder[s] = None <=> SlotUsers(s) = {}
        /\ \A u \in SlotUsers(s) : u \in Users /\ SlotHolder[s] = u
<1> SUFFICES ASSUME SerialInvariant, evicted = {}, NEW s \in Slots
             PROVE  /\ SlotHolder[s] = None <=> SlotUsers(s) = {}
                    /\ \A u \in SlotUsers(s) : u \in Users /\ SlotHolder[s] = u
  OBVIOUS
<1>1. ASSUME NEW u \in SlotUsers(s)
      PROVE  u \in Users
  <2>1. CASE \E w \in Workers : worker[w].pc = "insert" /\ worker[w].user = u
    BY <2>1 DEF SerialInvariant, UsersKnown
  <2>2. ASSUME NEW r \in Resvs, Keeps(r), res[r].user = u
        PROVE  u \in Users
    BY <2>2, KeptRowsExist DEF SerialInvariant, UsersKnown
  <2> QED
    BY <2>1, <2>2, UsersOfSlot
<1>2. ASSUME NEW u \in SlotUsers(s), NEW v \in SlotUsers(s)
      PROVE  u = v
  <2>1. \A w \in Workers : \A r \in Resvs :
            worker[w].pc = "insert" /\ Keeps(r) => res[r].slot # worker[w].slot
    BY DEF SerialInvariant, ClaimsApart, Undisturbed
  <2>2. \A w, x \in Workers :
            worker[w].pc = "insert" /\ worker[x].pc = "insert" => w = x
    BY RunsAlone DEF SerialInvariant, OnlyWorker
  <2>3. \A r, q \in Resvs :
            Keeps(r) /\ Keeps(q) /\ res[r].slot = res[q].slot => r = q
    BY DEF SerialInvariant, KeptApart, Undisturbed
  <2>4. CASE \E w \in Workers : worker[w].pc = "insert" /\ worker[w].slot = s
    <3>1. PICK w \in Workers : worker[w].pc = "insert" /\ worker[w].slot = s
      BY <2>4
    <3>2. \A r \in Resvs : Keeps(r) => res[r].slot # s
      BY <2>1, <3>1
    <3> QED
      BY <2>2, <3>1, <3>2, UsersOfSlot
  <2>5. CASE ~\E w \in Workers : worker[w].pc = "insert" /\ worker[w].slot = s
    BY <2>3, <2>5, UsersOfSlot
  <2> QED
    BY <2>4, <2>5
<1>3. SlotHolder[s] = IF SlotUsers(s) = {} THEN None
                      ELSE CHOOSE u \in SlotUsers(s) : TRUE
  BY DEF SlotHolder
<1>4. SlotUsers(s) # {} => SlotHolder[s] \in SlotUsers(s)
  BY <1>3
<1> QED
  BY <1>1, <1>2, <1>3, <1>4, ParkingAssumption

\* The same after a step.
LEMMA HolderOfSlotNext ==
    (SerialInvariant /\ evicted = {} => \A s \in Slots :
        /\ SlotHolder[s] = None <=> SlotUsers(s) = {}
        /\ \A u \in SlotUsers(s) : u \in Users /\ SlotHolder[s] = u)'
  BY HolderOfSlot, PTL

\* A slot that has the users it had has the holder it had.
LEMMA SameHolder ==
    ASSUME SerialInvariant, SerialInvariant',
           evicted = {}, evicted' = {}, NEW s \in Slots,
           \A u : u \in SlotUsers(s)' <=> u \in SlotUsers(s)
    PROVE  SlotHolder'[s] = SlotHolder[s]
<1>1. CASE SlotUsers(s) = {}
  <2>1. SlotUsers(s)' = {}
    BY <1>1
  <2> QED
    BY <1>1, <2>1, HolderOfSlot, HolderOfSlotNext
<1>2. CASE SlotUsers(s) # {}
  BY <1>2, HolderOfSlot, HolderOfSlotNext
<1> QED
  BY <1>1, <1>2

\* A row that keeps its slot keeps its user.
LEMMA KeptRowsStay ==
    ASSUME SerialInvariant, SerialMove, NEW r \in Resvs, Keeps(r)
    PROVE  res'[r].slot = res[r].slot /\ res'[r].user = res[r].user
<1>1. res[r].status # "NONE"
  BY KeptRowsExist
<1> QED
  BY <1>1, MoveIsStep, RowsStay DEF SerialInvariant

\* No slot changes hands while the same rows keep their slots and the same
\* workers have one to insert.
LEMMA HoldersStay ==
    ASSUME SerialInvariant, SerialMove, SerialInvariant',
           evicted = {}, evicted' = {},
           \A r \in Resvs : Keeps(r)' <=> Keeps(r),
           \A w \in Workers :
               \/ /\ worker'[w].pc = worker[w].pc
                  /\ worker'[w].slot = worker[w].slot
                  /\ worker'[w].user = worker[w].user
               \/ worker[w].pc # "insert" /\ worker'[w].pc # "insert"
    PROVE  SlotHolder' = SlotHolder
<1>1. ASSUME NEW s \in Slots
      PROVE  SlotHolder'[s] = SlotHolder[s]
  <2>1. \A u : u \in SlotUsers(s)' <=> u \in SlotUsers(s)
    BY UsersOfSlot, UsersOfSlotNext, KeptRowsStay
  <2> QED
    BY <2>1, SameHolder
<1> QED
  BY <1>1 DEF SlotHolder

\* No car comes or goes while no session does.
LEMMA ParkedStay ==
    ASSUME SerialInvariant, SerialMove, evicted = {}, session' = session
    PROVE  ParkedOn' = ParkedOn
<1>1. \A r \in Resvs :
          session[r].status = "ACTIVE" => res'[r].slot = res[r].slot
  BY ParkedKeeps, KeptRowsStay
<1> QED
  BY <1>1 DEF ParkedOn

\* A row gives its slot back: no car is on it, and nobody else had it.
LEMMA GivesBack ==
    ASSUME SerialInvariant, SerialMove, SerialInvariant',
           evicted = {}, evicted' = {}, NEW r \in Resvs,
           Keeps(r), ~Keeps(r)', session[r].status # "ACTIVE",
           \A q \in Resvs : q # r => (Keeps(q)' <=> Keeps(q)),
           NoWorkerRuns, worker' = worker, session' = session,
           slotStatus' = [slotStatus EXCEPT ![res[r].slot] = "DISPONIBLE"]
    PROVE  res[r].slot \in Slots /\ Lot!GiveBack(res[r].slot)
<1>0. TypeOK /\ KeptApart
  BY DEF SerialInvariant
<1>1. res[r].slot \in Slots
  BY KeptRowsExist
<1>2. ParkedOn' = ParkedOn
  BY ParkedStay
<1>3. SlotHolder[res[r].slot] # None
  <2>1. res[r].user \in SlotUsers(res[r].slot)
    BY <1>1, UsersOfSlot
  <2> QED
    BY <1>1, <2>1, HolderOfSlot
<1>4. res[r].slot \notin ParkedOn
  <2>1. ASSUME NEW q \in Resvs, session[q].status = "ACTIVE",
               res[q].slot = res[r].slot
        PROVE  FALSE
    BY <1>0, <2>1, ParkedKeeps DEF KeptApart, Undisturbed
  <2> QED
    BY <2>1 DEF ParkedOn
<1>5. \A q \in Resvs : Keeps(q)' => Keeps(q) /\ q # r
  OBVIOUS
<1>6. ~\E w \in Workers : worker[w].pc = "insert" \/ worker'[w].pc = "insert"
  BY DEF NoWorkerRuns
<1>7. ASSUME NEW s \in Slots, s # res[r].slot
      PROVE  SlotHolder'[s] = SlotHolder[s]
  <2>1. \A u : u \in SlotUsers(s)' <=> u \in SlotUsers(s)
    BY <1>5, <1>6, <1>7, UsersOfSlot, UsersOfSlotNext, KeptRowsStay
  <2> QED
    BY <2>1, SameHolder
<1>8. ASSUME NEW s \in Slots, s = res[r].slot
      PROVE  SlotHolder'[s] = None
  <2>1. \A u : u \notin SlotUsers(s)'
    BY <1>0, <1>5, <1>6, <1>8, UsersOfSlotNext, KeptRowsStay DEF KeptApart, Undisturbed
  <2> QED
    BY <2>1, HolderOfSlotNext
<1>9. SlotHolder' = [SlotHolder EXCEPT ![res[r].slot] = None]
  BY <1>7, <1>8 DEF SlotHolder
<1>10. OpenSlots' = OpenSlots \cup {res[r].slot}
  BY <1>0, <1>1 DEF OpenSlots, TypeOK
<1> QED
  BY <1>1, <1>2, <1>3, <1>4, <1>9, <1>10 DEF Lot!GiveBack

\* Nothing that the lot shows has changed.
LEMMA LotStutters ==
    ASSUME SerialInvariant, SerialMove, SerialInvariant',
           evicted = {}, evicted' = {},
           \A r \in Resvs : Keeps(r)' <=> Keeps(r),
           \A w \in Workers :
               \/ /\ worker'[w].pc = worker[w].pc
                  /\ worker'[w].slot = worker[w].slot
                  /\ worker'[w].user = worker[w].user
               \/ worker[w].pc # "insert" /\ worker'[w].pc # "insert",
           session' = session, OpenSlots' = OpenSlots
    PROVE  UNCHANGED Lot!lotVars
<1>1. SlotHolder' = SlotHolder
  BY HoldersStay
<1>2. ParkedOn' = ParkedOn
  BY ParkedStay
<1> QED
  BY <1>1, <1>2 DEF Lot!lotVars

\* A blocked slot and a branch declared full withdraw slots; the clock and the
\* payments show nothing.
LEMMA OutsideWithdraws ==
    ASSUME SerialInvariant, SerialMove, SerialInvariant',
           evicted = {}, evicted' = {},
           OutsideStep \/ UNCHANGED vars
    PROVE  \E S \in SUBSET Slots : Lot!Withdraw(S)
<1>1. /\ res' = res /\ session' = session /\ worker' = worker
      /\ \A r \in Resvs : Keeps(r)' <=> Keeps(r)
  BY OutsideKeeps
<1>2. SlotHolder' = SlotHolder /\ ParkedOn' = ParkedOn
  BY <1>1, HoldersStay, ParkedStay
<1>3. \A r \in Resvs : ~(Keeps(r) /\ ~Keeps(r)')
  BY <1>1
<1>4. \A s \in Slots : slotStatus[s] # "DISPONIBLE"
                          => slotStatus'[s] # "DISPONIBLE"
  BY <1>3, MoveIsStep, SlotOpens, CallReleasesItsOwn,
     SweepReleasesItsOwn
  DEF SerialInvariant, GivesUp
<1>5. OpenSlots' = OpenSlots \ (OpenSlots \ OpenSlots')
  BY <1>4 DEF OpenSlots
<1>6. OpenSlots \ OpenSlots' \in SUBSET Slots
  BY DEF OpenSlots
<1> QED
  BY <1>2, <1>5, <1>6 DEF Lot!Withdraw

\* The claim assigns the slot to the user of the request, who has none.
LEMMA ClaimAssigns ==
    ASSUME SerialInvariant, SerialMove, SerialInvariant',
           evicted = {}, evicted' = {},
           NEW w \in Workers, NEW s \in Slots, CreateClaim(w, s)
    PROVE  Lot!Assign(s, worker[w].user) /\ worker[w].user \in Users
<1> DEFINE u == worker[w].user
<1>0. TypeOK /\ KeptClosed /\ UsersKnown /\ ClaimsApart
  BY DEF SerialInvariant
<1>1. /\ worker[w].pc = "claim" /\ worker'[w].pc = "insert"
      /\ worker'[w].slot = s /\ worker'[w].user = u
      /\ \A v \in Workers : v # w => worker'[v] = worker[v]
      /\ slotStatus[s] = "DISPONIBLE" /\ session' = session
      /\ slotStatus' = [slotStatus EXCEPT ![s] = "RESERVADA"]
  BY <1>0 DEF CreateClaim, SetSlot, TypeOK, WorkerState
<1>2. OnlyWorker(w) /\ u \in Users
  BY <1>0, <1>1, RunsAlone DEF SerialInvariant, UsersKnown
<1>3. \A v \in Workers : worker[v].pc # "insert"
  BY <1>1, <1>2 DEF OnlyWorker
<1>4. \A v \in Workers : worker'[v].pc = "insert" <=> v = w
  BY <1>1, <1>3
<1>5. \A r \in Resvs : Keeps(r)' <=> Keeps(r)
  <2>1. AnyWorkerStep(w) /\ \A r \in Resvs : ~CreateInsert(w, r)
    BY <1>1 DEF AnyWorkerStep, WorkerStep, CreateInsert
  <2> QED
    BY <2>1, WorkerKeeps DEF SerialMove
<1>6. \A r \in Resvs : Keeps(r) => res[r].slot # s /\ res[r].user # u
  BY <1>0, <1>1 DEF KeptClosed, ClaimsApart, Undisturbed
<1>7. SlotHolder[s] = None
  <2>1. \A v : v \notin SlotUsers(s)
    BY <1>3, <1>6, UsersOfSlot
  <2> QED
    BY <2>1, HolderOfSlot
<1>8. \A t \in Slots : SlotHolder[t] # u
  <2>1. ASSUME NEW t \in Slots, SlotHolder[t] = u
        PROVE  FALSE
    <3>1. u # None
      BY <1>2, ParkingAssumption
    <3>2. u \in SlotUsers(t)
      BY <2>1, <3>1, HolderOfSlot
    <3> QED
      BY <1>3, <1>6, <3>2, UsersOfSlot
  <2> QED
    BY <2>1
<1>9. ASSUME NEW t \in Slots, t # s
      PROVE  SlotHolder'[t] = SlotHolder[t]
  <2>1. \A v : v \in SlotUsers(t)' <=> v \in SlotUsers(t)
    BY <1>1, <1>3, <1>4, <1>5, <1>9, UsersOfSlot, UsersOfSlotNext,
       KeptRowsStay
  <2> QED
    BY <2>1, SameHolder
<1>10. SlotHolder'[s] = u
  <2>1. u \in SlotUsers(s)'
    BY <1>1, UsersOfSlotNext
  <2> QED
    BY <2>1, HolderOfSlotNext
<1>11. SlotHolder' = [SlotHolder EXCEPT ![s] = u]
  BY <1>9, <1>10 DEF SlotHolder
<1>12. ParkedOn' = ParkedOn
  BY <1>1, ParkedStay
<1>13. s \in OpenSlots /\ OpenSlots' = OpenSlots \ {s}
  BY <1>0, <1>1 DEF OpenSlots, TypeOK
<1> QED
  BY <1>2, <1>7, <1>8, <1>11, <1>12, <1>13 DEF Lot!Assign

\* The INSERT hands the slot from the worker to the row: nothing to see.
LEMMA InsertStutters ==
    ASSUME SerialInvariant, SerialMove, SerialInvariant',
           evicted = {}, evicted' = {},
           NEW w \in Workers, NEW r \in Resvs, CreateInsert(w, r)
    PROVE  UNCHANGED Lot!lotVars
<1>1. /\ worker[w].pc = "insert" /\ worker'[w].pc = "idle"
      /\ res'[r].user = worker[w].user /\ res'[r].slot = worker[w].slot
      /\ slotStatus' = slotStatus /\ session' = session
      /\ OnlyWorker(w) /\ res[r].status = "NONE"
  BY Inserted
<1>2. AnyWorkerStep(w)
  BY DEF AnyWorkerStep, WorkerStep
<1>3. \A v \in Workers : v # w => worker'[v] = worker[v] /\ worker[v].pc = "idle"
  BY <1>1, <1>2, WorkerMovesAlone DEF SerialInvariant, SerialMove, OnlyWorker
<1>4. ~Keeps(r)
  BY <1>1, KeptRowsExist
<1>5. \A q \in Resvs : Keeps(q)' <=> Keeps(q) \/ q = r
  <2>1. \A q \in Resvs : CreateInsert(w, q) => q = r
    BY Inserted
  <2> QED
    BY <1>2, <2>1, WorkerKeeps DEF SerialMove
<1>6. ASSUME NEW s \in Slots
      PROVE  SlotHolder'[s] = SlotHolder[s]
  <2>1. \A u : u \in SlotUsers(s)' <=> u \in SlotUsers(s)
    BY <1>1, <1>3, <1>4, <1>5, UsersOfSlot, UsersOfSlotNext, KeptRowsStay
  <2> QED
    BY <2>1, SameHolder
<1>7. SlotHolder' = SlotHolder
  BY <1>6 DEF SlotHolder
<1>8. ParkedOn' = ParkedOn
  BY <1>1, ParkedStay
<1>9. OpenSlots' = OpenSlots
  BY <1>1 DEF OpenSlots
<1> QED
  BY <1>7, <1>8, <1>9 DEF Lot!lotVars

\* The statements of a call are invisible, or park a car, or let it leave, or
\* give the slot back.
LEMMA CallImplementsLot ==
    ASSUME SerialInvariant, SerialMove, SerialInvariant',
           evicted = {}, evicted' = {},
           NEW c \in Calls, AnyCallStep(c)
    PROVE  [Lot!LotNext]_Lot!lotVars
<1>0. TypeOK /\ KnownRows /\ CallsStand /\ KeptApart
  BY DEF SerialInvariant
<1>1. /\ OnlyCall(c) /\ worker' = worker
      /\ \A r \in Resvs :
            Keeps(r)' <=> /\ Keeps(r)
                          /\ ~(call[c].pc \in FreeingPC /\ call[c].resv = r)
  BY CallMovesAlone, CallKeeps DEF SerialInvariant, SerialMove
<1>2. call[c].pc # "idle" => call[c].resv \in Resvs
  BY <1>0 DEF KnownRows
<1>3. CASE CancelRelease(c) \/ ExitRelease(c)
  <2>1. PICK r \in Resvs : r = call[c].resv /\ Keeps(r) /\ ~Keeps(r)'
    BY <1>3, CallReleasesItsOwn, SweepReleasesItsOwn DEF GivesUp
  <2>2. /\ session' = session
        /\ slotStatus' = [slotStatus EXCEPT ![res[r].slot] = "DISPONIBLE"]
    BY <1>3, <2>1 DEF CancelRelease, ExitRelease, SetSlot
  <2>3. session[r].status # "ACTIVE"
    BY <1>0, <1>3, <2>1
    DEF CancelRelease, ExitRelease, CallsStand, SerialInvariant,
        ParkedIsConfirmed
  <2>4. \A q \in Resvs : q # r => (Keeps(q)' <=> Keeps(q))
    BY <1>1, <2>1
  <2>5. NoWorkerRuns
    BY <1>1 DEF OnlyCall
  <2>6. res[r].slot \in Slots /\ Lot!GiveBack(res[r].slot)
    BY <1>1, <2>1, <2>2, <2>3, <2>4, <2>5, GivesBack
  <2> QED
    BY <2>6 DEF Lot!LotNext
<1>4. CASE EntryCreate(c) /\ session[call[c].resv].status = "NONE"
  <2>1. /\ call[c].pc = "entryCreate" /\ res' = res
        /\ slotStatus' = slotStatus
    BY <1>4 DEF EntryCreate
  <2>2. PICK r \in Resvs : r = call[c].resv
    BY <1>2, <2>1
  <2>3. session' = [session EXCEPT ![r] =
            [status |-> "ACTIVE", entryAt |-> call[c].at, exitAt |-> 0]]
    BY <1>4, <2>2 DEF EntryCreate
  <2>4. Keeps(r) /\ res[r].slot \in Slots
    <3>1. Keeps(r)
      BY <1>0, <1>1, <2>1, <2>2, KeepsOfCall DEF CallsStand, Live
    <3> QED
      BY <3>1, KeptRowsExist
  <2>5. SlotHolder[res[r].slot] # None
    <3>1. res[r].user \in SlotUsers(res[r].slot)
      BY <2>4, UsersOfSlot
    <3> QED
      BY <2>4, <3>1, HolderOfSlot
  <2>6. res[r].slot \notin ParkedOn
    <3>1. ASSUME NEW q \in Resvs, session[q].status = "ACTIVE",
                 res[q].slot = res[r].slot
          PROVE  FALSE
      BY <1>0, <1>4, <2>2, <2>4, <3>1, ParkedKeeps DEF KeptApart, Undisturbed
    <3> QED
      BY <3>1 DEF ParkedOn
  <2>7. ParkedOn' = ParkedOn \cup {res[r].slot}
    <3>1. \A q \in Resvs :
              session'[q].status = "ACTIVE"
                  <=> session[q].status = "ACTIVE" \/ q = r
      BY <1>0, <2>3 DEF TypeOK
    <3> QED
      BY <2>1, <3>1 DEF ParkedOn
  <2>8. SlotHolder' = SlotHolder
    BY <1>1, <2>1, HoldersStay DEF FreeingPC
  <2>9. OpenSlots' = OpenSlots
    BY <2>1 DEF OpenSlots
  <2>10. Lot!Park(res[r].slot)
    BY <2>5, <2>6, <2>7, <2>8, <2>9 DEF Lot!Park
  <2> QED
    BY <2>4, <2>10 DEF Lot!LotNext
<1>5. CASE ExitComplete(c)
  <2>1. /\ call[c].pc = "exitComplete" /\ res' = res
        /\ slotStatus' = slotStatus
    BY <1>5 DEF ExitComplete
  <2>2. PICK r \in Resvs : r = call[c].resv
    BY <1>2, <2>1
  <2>3. /\ session[r].status = "ACTIVE"
        /\ session' = [session EXCEPT ![r].status = "COMPLETED",
                                      ![r].exitAt = call[c].at]
    BY <1>0, <1>5, <2>1, <2>2 DEF ExitComplete, CallsStand, ExitPC
  <2>4. Keeps(r) /\ res[r].slot \in Slots
    BY <2>3, ParkedKeeps, KeptRowsExist
  <2>5. ParkedOn' = ParkedOn \ {res[r].slot}
    <3>1. \A q \in Resvs :
              session'[q].status = "ACTIVE"
                  <=> session[q].status = "ACTIVE" /\ q # r
      BY <1>0, <2>3 DEF TypeOK, SessionRow
    <3>2. \A q \in Resvs :
              session[q].status = "ACTIVE" /\ res[q].slot = res[r].slot
                  => q = r
      BY <1>0, <2>4, ParkedKeeps DEF KeptApart, Undisturbed
    <3> QED
      BY <2>1, <3>1, <3>2 DEF ParkedOn
  <2>6. SlotHolder' = SlotHolder
    BY <1>1, <2>1, HoldersStay DEF FreeingPC
  <2>7. OpenSlots' = OpenSlots
    BY <2>1 DEF OpenSlots
  <2>8. res[r].slot \in ParkedOn
    BY <2>3 DEF ParkedOn
  <2>9. Lot!Leave(res[r].slot)
    BY <2>5, <2>6, <2>7, <2>8 DEF Lot!Leave
  <2> QED
    BY <2>4, <2>9 DEF Lot!LotNext
<1>6. CASE EntryOccupy(c)
  <2>1. /\ call[c].pc = "entryOccupy" /\ session' = session
        /\ slotStatus' = [slotStatus EXCEPT
                            ![res[call[c].resv].slot] = "OCUPADA"]
    BY <1>6 DEF EntryOccupy, SetSlot
  <2>2. Keeps(call[c].resv)
    BY <1>0, <1>2, <2>1, ParkedKeeps DEF CallsStand
  <2>3. slotStatus[res[call[c].resv].slot] # "DISPONIBLE"
    BY <1>2, <2>1, <2>2 DEF SerialInvariant, KeptClosed, Undisturbed
  <2>4. OpenSlots' = OpenSlots
    BY <1>0, <2>1, <2>3 DEF OpenSlots, TypeOK
  <2> QED
    BY <1>1, <2>1, <2>4, LotStutters DEF FreeingPC
<1>7. CASE /\ ~(CancelRelease(c) \/ ExitRelease(c))
           /\ ~(EntryCreate(c) /\ session[call[c].resv].status = "NONE")
           /\ ~ExitComplete(c) /\ ~EntryOccupy(c)
  <2>1. /\ call[c].pc \notin FreeingPC
        /\ session' = session /\ slotStatus' = slotStatus
    <3>1. ASSUME NEW r \in Resvs,
                 StartCancel(c, r) \/ StartEntry(c, r) \/ StartExit(c, r)
          PROVE  /\ call[c].pc \notin FreeingPC
                 /\ session' = session /\ slotStatus' = slotStatus
      BY <3>1 DEF StartCancel, StartEntry, StartExit, tables, FreeingPC
    <3>2. CASE \/ CancelUpdate(c) \/ EntryCheckSession(c) \/ EntryConfirm(c)
               \/ ExitCheckPayment(c) \/ ExitRecheck(c) \/ ExitClose(c)
               \/ EntryCreate(c)
      BY <1>7, <3>2 DEF CancelUpdate, EntryCheckSession, EntryConfirm,
         ExitCheckPayment, ExitRecheck, ExitClose, EntryCreate, tables,
         FreeingPC
    <3> QED
      BY <1>7, <3>1, <3>2 DEF AnyCallStep, CallStep
  <2>2. OpenSlots' = OpenSlots
    BY <2>1 DEF OpenSlots
  <2> QED
    BY <1>1, <2>1, <2>2, LotStutters
<1> QED
  BY <1>3, <1>4, <1>5, <1>6, <1>7

\* A worker's claim assigns; its other statements are invisible.
LEMMA WorkerImplementsLot ==
    ASSUME SerialInvariant, SerialMove, SerialInvariant',
           evicted = {}, evicted' = {},
           NEW w \in Workers, AnyWorkerStep(w)
    PROVE  [Lot!LotNext]_Lot!lotVars
<1>1. ASSUME NEW s \in Slots, CreateClaim(w, s)
      PROVE  [Lot!LotNext]_Lot!lotVars
  <2>1. Lot!Assign(s, worker[w].user) /\ worker[w].user \in Users
    BY <1>1, ClaimAssigns
  <2> QED
    BY <2>1 DEF Lot!LotNext
<1>2. ASSUME NEW r \in Resvs, CreateInsert(w, r)
      PROVE  [Lot!LotNext]_Lot!lotVars
  BY <1>2, InsertStutters
<1>3. CASE ~(\E s \in Slots : CreateClaim(w, s))
           /\ ~(\E r \in Resvs : CreateInsert(w, r))
  <2>1. /\ \/ /\ worker'[w].pc = worker[w].pc
              /\ worker'[w].slot = worker[w].slot
              /\ worker'[w].user = worker[w].user
           \/ worker[w].pc # "insert" /\ worker'[w].pc # "insert"
        /\ slotStatus' = slotStatus
    BY <1>3
    DEF AnyWorkerStep, WorkerStep, StartCreate, CreateCheckSession,
        CreateNoSlot, CreateReadsClock, EndWorker, IdleWorker, tables,
        SerialInvariant, TypeOK, WorkerState
  <2>2. /\ session' = session
        /\ \A v \in Workers : v # w => worker'[v] = worker[v]
    BY WorkerMovesAlone DEF SerialInvariant, SerialMove
  <2>3. \A r \in Resvs : Keeps(r)' <=> Keeps(r)
    BY <1>3, WorkerKeeps DEF SerialMove
  <2>4. OpenSlots' = OpenSlots
    BY <2>1 DEF OpenSlots
  <2>5. UNCHANGED Lot!lotVars
    BY <2>1, <2>2, <2>3, <2>4, LotStutters
  <2> QED
    BY <2>5
<1> QED
  BY <1>1, <1>2, <1>3

\* A sweep gives back the slots of the rows that it has expired.
LEMMA SweepImplementsLot ==
    ASSUME SerialInvariant, SerialMove, SerialInvariant',
           evicted = {}, evicted' = {},
           NEW k \in Sweeps, AnySweepStep(k)
    PROVE  [Lot!LotNext]_Lot!lotVars
<1>1. /\ OnlySweep(k) /\ worker' = worker /\ session' = session
      /\ \A r \in Resvs :
            Keeps(r)' <=> Keeps(r) /\ ~(SweepRelease(k) /\ sweep[k].current = r)
  BY SweepMovesAlone, SweepKeeps DEF SerialInvariant, SerialMove
<1>2. CASE SweepRelease(k)
  <2>1. PICK r \in Resvs : r = sweep[k].current /\ Keeps(r) /\ ~Keeps(r)'
    BY <1>2, CallReleasesItsOwn, SweepReleasesItsOwn DEF GivesUp
  <2>2. slotStatus' = [slotStatus EXCEPT ![res[r].slot] = "DISPONIBLE"]
    BY <1>2, <2>1 DEF SweepRelease, SetSlot
  <2>3. session[r].status # "ACTIVE"
    BY <1>2, <2>1
    DEF SweepRelease, SerialInvariant, KnownRows, SweepsStand,
        ParkedIsConfirmed
  <2>4. \A q \in Resvs : q # r => (Keeps(q)' <=> Keeps(q))
    BY <1>1, <2>1
  <2>5. NoWorkerRuns
    BY <1>1 DEF OnlySweep
  <2>6. res[r].slot \in Slots /\ Lot!GiveBack(res[r].slot)
    BY <1>1, <2>1, <2>2, <2>3, <2>4, <2>5, GivesBack
  <2> QED
    BY <2>6 DEF Lot!LotNext
<1>3. CASE ~SweepRelease(k)
  <2>1. slotStatus' = slotStatus
    BY <1>3 DEF AnySweepStep, SweepStep, StartSweep, SweepExpire, tables
  <2>2. OpenSlots' = OpenSlots
    BY <2>1 DEF OpenSlots
  <2>3. UNCHANGED Lot!lotVars
    BY <1>1, <1>3, <2>2, LotStutters
  <2> QED
    BY <2>3
<1> QED
  BY <1>2, <1>3

\* The empty tables show an empty lot, all of it open.
LEMMA InitLot == SerialInit => Lot!LotInit
<1> SUFFICES ASSUME SerialInit, Init, evicted = {}
             PROVE  Lot!LotInit
  BY DEF SerialInit
<1>1. SerialInvariant
  BY InitSerialInvariant
<1>2. \A r \in Resvs : ~Keeps(r)
  BY <1>1, KeptRowsExist DEF Init, NoRow
<1>3. \A w \in Workers : worker[w].pc # "insert"
  BY DEF Init, IdleWorker
<1>4. \A s \in Slots : SlotHolder[s] = None
  <2>1. ASSUME NEW s \in Slots
        PROVE  SlotHolder[s] = None
    <3>1. \A u : u \notin SlotUsers(s)
      BY <1>2, <1>3, UsersOfSlot
    <3> QED
      BY <1>1, <3>1, HolderOfSlot
  <2> QED
    BY <2>1
<1>5. SlotHolder = [s \in Slots |-> None]
  BY <1>4 DEF SlotHolder
<1>6. ParkedOn = {}
  BY DEF ParkedOn, Init, NoSession
<1>7. OpenSlots = Slots
  BY DEF OpenSlots, Init
<1> QED
  BY <1>5, <1>6, <1>7 DEF Lot!LotInit

\* Until a driver cancels with the car parked, a backend whose handlers run
\* alone keeps the promise of ParkingLot: a slot is one driver's at a time, a
\* driver has one slot at a time, and a slot is offered again only by the one
\* who had it giving it back, with no car on it.
THEOREM SerialImplementsLot == SerialSpec => ImplementsLot
<1>1. SerialInit => Lot!LotInit
  BY InitLot
<1>2. SerialInvariant /\ SerialInvariant' /\ [SerialNext]_serialVars
        => [evicted' = {} =>
                UNCHANGED Lot!lotVars \/ Lot!LotNext]_serialVars
  <2> SUFFICES ASSUME SerialInvariant, SerialInvariant',
                      [SerialNext]_serialVars, evicted' = {}
               PROVE  [Lot!LotNext]_Lot!lotVars
    OBVIOUS
  <2>1. SerialMove /\ evicted = {}
    BY SerialNextMoves DEF SerialMove
  <2>2. CASE OutsideStep \/ UNCHANGED vars
    <3>1. \E S \in SUBSET Slots : Lot!Withdraw(S)
      BY <2>1, <2>2, OutsideWithdraws
    <3> QED
      BY <3>1 DEF Lot!LotNext
  <2> QED
    BY <2>1, <2>2, MoveKinds, CallImplementsLot, WorkerImplementsLot,
       SweepImplementsLot
<1> QED
  BY <1>1, <1>2, SerialInvariantHolds, PTL DEF SerialSpec, ImplementsLot
=============================================================================
