-------------------------- MODULE MCParkingReplicas --------------------------
(* ParkingReplicas on a small instance: two workers, one user.              *)
EXTENDS ParkingReplicas, TLC

OneBranch == [s \in Slots |-> CHOOSE b \in Branches : TRUE]
NobodySchedules == {}
Symmetry == Permutations(Slots) \cup Permutations(Resvs)
                \cup Permutations(Workers)
=============================================================================
