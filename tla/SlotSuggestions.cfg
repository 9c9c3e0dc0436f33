SPECIFICATION AssignmentSpec
CONSTANTS
  Null = Null
  ByName <- SeedByName
  SlotsOf <- SeedSlots
  Types = {"REGULAR", "MOTO"}
  TypeOf <- SeedTypes
  Distance <- SeedDistance
  Penalty = 50
INVARIANTS SuggestionHolds BestWhenQuiet
PROPERTY NoSlotIsForgotten
