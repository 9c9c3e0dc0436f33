------------------------------ MODULE ParkingLot ------------------------------
(* What the backend promises about slots, whatever handlers it is made of:  *)
(* a slot is one driver's at a time and a driver has one slot at a time; a  *)
(* slot is offered again only by the one who had it giving it back, and     *)
(* never with a car on it.                                                  *)
CONSTANTS Users, Slots, None

VARIABLES
    holder, \* whose slot it is
    parked, \* slots with a car on them
    open    \* slots that can be assigned

lotVars == <<holder, parked, open>>

LotInit ==
    /\ holder = [s \in Slots |-> None]
    /\ parked = {}
    /\ open = Slots

Assign(s, u) ==
    /\ s \in open /\ holder[s] = None
    /\ \A t \in Slots : holder[t] # u
    /\ holder' = [holder EXCEPT ![s] = u]
    /\ open' = open \ {s}
    /\ UNCHANGED parked

Park(s) ==
    /\ holder[s] # None /\ s \notin parked
    /\ parked' = parked \cup {s}
    /\ UNCHANGED <<holder, open>>

Leave(s) ==
    /\ s \in parked
    /\ parked' = parked \ {s}
    /\ UNCHANGED <<holder, open>>

GiveBack(s) ==
    /\ holder[s] # None /\ s \notin parked
    /\ holder' = [holder EXCEPT ![s] = None]
    /\ open' = open \cup {s}
    /\ UNCHANGED parked

\* A slot is reported blocked, or a branch is declared full.
Withdraw(S) ==
    /\ open' = open \ S
    /\ UNCHANGED <<holder, parked>>

LotNext ==
    \/ \E s \in Slots, u \in Users : Assign(s, u)
    \/ \E s \in Slots : Park(s) \/ Leave(s) \/ GiveBack(s)
    \/ \E S \in SUBSET Slots : Withdraw(S)

LotSpec == LotInit /\ [][LotNext]_lotVars
===============================================================================
