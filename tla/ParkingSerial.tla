---------------------------- MODULE ParkingSerial ----------------------------
(* The backend when one handler runs at a time and nothing fails. It then   *)
(* implements ParkingLot, until a driver cancels with the car parked: the   *)
(* handler accepts CONFIRMED (cancel-reservation.use-case.ts:38-51) without *)
(* asking for the session, and gives away the slot under the car.           *)
EXTENDS Parking

InFlight ==
    {<<"worker", w>> : w \in {v \in Workers : worker[v].pc # "idle"}}
        \cup {<<"call", c>> : c \in {d \in Calls : call[d].pc # "idle"}}
        \cup {<<"sweep", k>> : k \in {j \in Sweeps : sweep[j].todo # {}}}

OneAtATime == \A p, q \in InFlight : p = q

VARIABLE evicted \* history: rows cancelled while their car was parked

serialVars == <<vars, evicted>>

CancelledParked ==
    {r \in Resvs : /\ session[r].status = "ACTIVE"
                   /\ res[r].status # "CANCELLED"
                   /\ res'[r].status = "CANCELLED"}

SerialInit == Init /\ evicted = {}

SerialNext ==
    /\ Step
    /\ OneAtATime'
    /\ evicted' = evicted \cup CancelledParked

SerialSpec == SerialInit /\ [][SerialNext]_serialVars

-----------------------------------------------------------------------------
\* A row keeps its slot until the statement that makes the slot DISPONIBLE
\* again, whether or not the row itself says so already.
Keeps(r) ==
    \/ /\ res[r].status \in Live
       /\ \A c \in Calls : ~(call[c].pc = "exitClose" /\ call[c].resv = r)
    \/ \E c \in Calls : call[c].pc = "cancelRelease" /\ call[c].resv = r
    \/ \E k \in Sweeps : sweep[k].current = r

\* Whose the slot is, from the claim on.
SlotUsers(s) ==
    {worker[w].user : w \in {v \in Workers : /\ worker[v].pc = "insert"
                                             /\ worker[v].slot = s}}
        \cup {res[r].user : r \in {q \in Resvs : Keeps(q) /\ res[q].slot = s}}

SlotHolder ==
    [s \in Slots |-> IF SlotUsers(s) = {} THEN None
                     ELSE CHOOSE u \in SlotUsers(s) : TRUE]
ParkedOn == {res[r].slot : r \in {q \in Resvs : session[q].status = "ACTIVE"}}
OpenSlots == {s \in Slots : slotStatus[s] = "DISPONIBLE"}

Lot == INSTANCE ParkingLot
           WITH holder <- SlotHolder, parked <- ParkedOn, open <- OpenSlots

\* Until the first such cancellation, every step of a handler that runs alone
\* is invisible, or a step of the lot: [Lot!LotNext]_Lot!lotVars, with what TLC
\* finds soonest first.
ImplementsLot ==
    /\ Lot!LotInit
    /\ [][evicted' = {} => UNCHANGED Lot!lotVars \/ Lot!LotNext]_serialVars

-----------------------------------------------------------------------------
\* Nobody cancelled with the car parked on s.
Undisturbed(s) == \A q \in evicted : res[q].slot # s

\* The slot of a parked car is not offered to anybody, through any sequence of
\* requests, top-ups, sweeps and late exits, unless a driver cancelled with a
\* car parked on that very slot: what that does to one slot, and to those who
\* get it next, it does to no other.
ParkedSlotsAreNotOffered ==
    \A r \in Resvs :
        session[r].status = "ACTIVE" /\ Undisturbed(res[r].slot)
            => slotStatus[res[r].slot] # "DISPONIBLE"
==============================================================================
