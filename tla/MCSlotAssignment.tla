--------------------------- MODULE MCSlotAssignment ---------------------------
(* SlotAssignment on the three branches of the seed, with few slots.         *)
EXTENDS SlotAssignment

SeedByName == <<"Miraflores", "San Borja", "San Isidro">>
SeedSlots ==
    [b \in ToSet(SeedByName) |->
        CASE b = "Miraflores" -> <<"m1", "m2">>
          [] b = "San Borja" -> <<"b1">>
          [] b = "San Isidro" -> <<"i1">>]
SeedTypes == [s \in {"m1", "m2", "b1", "i1"} |->
                 IF s = "b1" THEN "MOTO" ELSE "REGULAR"]

\* In tenths of a kilometre.
Apart(b, c) ==
    CASE b = c -> 0
      [] {b, c} = {"Miraflores", "San Isidro"} -> 37
      [] {b, c} = {"Miraflores", "San Borja"} -> 39
      [] {b, c} = {"San Borja", "San Isidro"} -> 52
SeedDistance ==
    [b \in ToSet(SeedByName) |-> [c \in ToSet(SeedByName) |-> Apart(b, c)]]
=============================================================================
