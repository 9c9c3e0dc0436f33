--------------------------- MODULE MCParkingSerial ---------------------------
(* ParkingSerial on small instances.                                        *)
EXTENDS ParkingSerial, TLC

OneBranch == [s \in Slots |-> CHOOSE b \in Branches : TRUE]
NobodySchedules == {}
Symmetry == Permutations(Users) \cup Permutations(Slots)
                \cup Permutations(Resvs)
==============================================================================
