------------------------------ MODULE MCParking ------------------------------
(* Parking on small instances. Rows, users, slots, calls and sweeps are     *)
(* interchangeable, so the safety runs use symmetry; the liveness run not.  *)
EXTENDS ParkingInvariant, TLC

\* Every slot is in the same branch.
OneBranch == [s \in Slots |-> CHOOSE b \in Branches : TRUE]

\* Nobody schedules a reservation; or one start time in the future is allowed.
NobodySchedules == {}
OneScheduled == {1}

Symmetry ==
    Permutations(Users) \cup Permutations(Slots) \cup Permutations(Resvs)
        \cup Permutations(Calls) \cup Permutations(Workers)
=============================================================================
