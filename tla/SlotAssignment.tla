---------------------------- MODULE SlotAssignment ----------------------------
(***************************************************************************)
(* Politica 1: one execution of SlotAssignmentPolicy.assign, under either  *)
(* policy, while everybody else goes on changing slots.                    *)
(*                                                                         *)
(* Every statement is a step. A claim is one UPDATE, so SKIP LOCKED has    *)
(* nothing to skip. Slots are ordered by updatedAt, which every statement  *)
(* that writes a slot sets, so that two slots of a branch differ in it;    *)
(* branches and slots are never created or deleted while the service runs. *)
(***************************************************************************)
EXTENDS Naturals, FiniteSets, Sequences, SequencesExt

CONSTANTS
    ByName,    \* the branches, in the order of their names
    SlotsOf,   \* the slots of each branch, in the order of their codes
    Types, TypeOf,
    Distance,  \* distanceKmTo, in kilometres or a fraction of them
    Penalty,   \* OCCUPANCY_PENALTY_KM, in the same unit
    Null

Branches == ToSet(ByName)
Slots == UNION {ToSet(SlotsOf[b]) : b \in Branches}

ASSUME SlotAssignmentAssumption ==
    /\ ByName \in Seq(Branches) /\ IsInjective(ByName)
    /\ SlotsOf \in [Branches -> Seq(Slots)]
    /\ \A b \in Branches : IsInjective(SlotsOf[b])
    /\ \A b, c \in Branches :
          b # c => ToSet(SlotsOf[b]) \cap ToSet(SlotsOf[c]) = {}
    /\ TypeOf \in [Slots -> Types]
    /\ Distance \in [Branches -> [Branches -> Nat]] /\ Penalty \in Nat
    /\ Null \notin Types \cup Branches

VARIABLES
    slotStatus,
    updated,    \* of each branch, the slots from the least recently updated
    strategy,   \* SLOT_ASSIGNMENT_STRATEGY
    pc,
    request,    \* branch (Null: the id of none) and type (Null: any)
    toAsk,      \* other branches whose availability is not known yet
    candidates, \* other branches that answered they have room
    suggested,  \* the branch suggested; Null: there is none
    \* history, since the execution began
    hadRoom, wasFull, \* branches that did at some instant, for the type asked
    quiet       \* nobody else has changed a slot

slots == <<slotStatus, updated>>
noted == <<hadRoom, wasFull, quiet>>
assignmentVars ==
    <<slots, strategy, pc, request, toAsk, candidates, suggested, noted>>

BranchOf(s) == CHOOSE b \in Branches : s \in ToSet(SlotsOf[b])

\* The slots of a branch a request for a type may be given.
Free(b, type) ==
    {s \in ToSet(SlotsOf[b]) :
        slotStatus[s] = "DISPONIBLE" /\ type \in {TypeOf[s], Null}}

HasAvailability(b) == Free(b, request.type) # {}

AssignmentInit ==
    /\ slotStatus = [s \in Slots |-> "DISPONIBLE"]
    /\ updated = SlotsOf
    /\ strategy \in {"default", "balanced"}
    /\ pc = "idle" /\ request = [branch |-> Null, type |-> Null]
    /\ toAsk = {} /\ candidates = {} /\ suggested = Null
    /\ hadRoom = {} /\ wasFull = {} /\ quiet = TRUE

-----------------------------------------------------------------------------
(* Statements that write slots.                                            *)

Write(s, status) ==
    /\ slotStatus' = [slotStatus EXCEPT ![s] = status]
    /\ updated' = [updated EXCEPT ![BranchOf(s)] = Append(Remove(@, s), s)]

\* Mutant: the balanced policy claims by code, as the other one does.
FirstByCode(b, type) ==
    SelectSeq(SlotsOf[b], LAMBDA s : s \in Free(b, type))[1]

\* The first by code, or under the balanced policy the one updated the longest
\* ago.
FirstFree(b, type) ==
    LET order == IF strategy = "balanced" THEN updated[b] ELSE SlotsOf[b]
    IN SelectSeq(order, LAMBDA s : s \in Free(b, type))[1]

\* claimAvailableSlot and claimLeastRecentlyUsedSlot.
Claim(b, type) ==
    /\ Free(b, type) # {}
    /\ Write(FirstFree(b, type), "RESERVADA")

\* What the execution under way may have read of the branches.
Watch ==
    /\ UNCHANGED <<strategy, pc, request, toAsk, candidates, suggested>>
    /\ quiet' = FALSE
    /\ IF pc \in {"claim", "ask", "rank"}
       THEN /\ hadRoom' = hadRoom \cup {b \in Branches : HasAvailability(b)'}
            /\ wasFull' = wasFull \cup {b \in Branches : ~HasAvailability(b)'}
       ELSE UNCHANGED <<hadRoom, wasFull>>

\* Another worker claims a slot.
OthersClaim(b, type) == Claim(b, type) /\ Watch

\* A cancellation, an exit or a sweep releases a slot, an entry occupies it, or
\* it is reported blocked. A second release of a free slot is left out: it
\* would only make it the last to be claimed.
UpdateStatus(s, status) ==
    /\ slotStatus[s] # status
    /\ Write(s, status)
    /\ Watch

\* SimulateBranchFull.
MarkAllOccupied(b) ==
    LET marked == Free(b, Null) IN
    /\ marked # {}
    /\ slotStatus' = [s \in Slots |-> IF s \in marked THEN "OCUPADA"
                                                      ELSE slotStatus[s]]
    /\ updated' = [updated EXCEPT ![b] =
                      SelectSeq(@, LAMBDA s : s \notin marked)
                          \o SelectSeq(@, LAMBDA s : s \in marked)]
    /\ Watch

-----------------------------------------------------------------------------
(* assign.                                                                 *)

Start(branch, type) ==
    /\ pc = "idle"
    /\ pc' = "claim" /\ request' = [branch |-> branch, type |-> type]
    /\ hadRoom' = {b \in Branches : Free(b, type) # {}}
    /\ wasFull' = Branches \ hadRoom' /\ quiet' = TRUE
    /\ UNCHANGED <<slots, strategy, toAsk, candidates, suggested>>

\* Back to the caller, which keeps what is answered.
Forget ==
    /\ pc' = "idle" /\ request' = [branch |-> Null, type |-> Null]
    /\ toAsk' = {} /\ candidates' = {} /\ suggested' = Null
    /\ hadRoom' = {} /\ wasFull' = {} /\ quiet' = TRUE

\* ASSIGNED.
Assigned ==
    /\ pc = "claim" /\ request.branch # Null
    /\ Claim(request.branch, request.type)
    /\ Forget
    /\ UNCHANGED strategy

\* Nothing to claim: findById and findAllExcept.
LookElsewhere ==
    /\ pc = "claim"
    /\ request.branch # Null => ~HasAvailability(request.branch)
    /\ toAsk' = IF request.branch = Null THEN {}
                                         ELSE Branches \ {request.branch}
    /\ pc' = IF toAsk' = {} THEN "answered" ELSE "ask"
    /\ UNCHANGED <<slots, strategy, request, candidates, suggested, noted>>

Position(b) == CHOOSE i \in DOMAIN ByName : ByName[i] = b
Km(b) == Distance[request.branch][b]

\* Mutant: the branches are asked in the order of their names.
NearerByName(b, c) == Position(b) <= Position(c)

\* The sort by distance, which keeps the order by name of what is as far.
Nearer(b, c) ==
    \/ Km(b) < Km(c)
    \/ Km(b) = Km(c) /\ Position(b) <= Position(c)

\* The default policy asks the branches one by one, the nearest first.
AskNearest ==
    LET b == CHOOSE b \in toAsk : \A c \in toAsk : Nearer(b, c) IN
    /\ pc = "ask" /\ strategy = "default"
    /\ IF HasAvailability(b)
       THEN suggested' = b /\ UNCHANGED toAsk
       ELSE toAsk' = toAsk \ {b} /\ UNCHANGED suggested
    /\ pc' = IF HasAvailability(b) \/ toAsk' = {} THEN "answered" ELSE "ask"
    /\ UNCHANGED <<slots, strategy, request, candidates, noted>>

\* The balanced one asks them all at once; they answer in any order.
AskAvailability(b) ==
    /\ pc = "ask" /\ strategy = "balanced" /\ b \in toAsk
    /\ toAsk' = toAsk \ {b}
    /\ candidates' = IF HasAvailability(b) THEN candidates \cup {b}
                                           ELSE candidates
    /\ pc' = CASE toAsk' # {} -> "ask"
               [] toAsk' = {} /\ candidates' # {} -> "rank"
               [] OTHER -> "answered"
    /\ UNCHANGED <<slots, strategy, request, suggested, noted>>

Total(b) == Len(SlotsOf[b])

\* Mutant: the reserved slots are not counted.
TakenByCars(b) ==
    Cardinality({s \in ToSet(SlotsOf[b]) : slotStatus[s] = "OCUPADA"})

\* occupiedOrReserved: of every type, and not those that are blocked.
Taken(b) ==
    Cardinality({s \in ToSet(SlotsOf[b]) :
                    slotStatus[s] \in {"OCUPADA", "RESERVADA"}})

\* The score of a branch, times the slots it has.
Score(b) == Km(b) * Total(b) + Penalty * Taken(b)

\* The sort by score.
Better(b, c) ==
    LET left == Score(b) * Total(c)
        right == Score(c) * Total(b)
    IN left < right \/ (left = right /\ Position(b) <= Position(c))

\* getOccupancySummary of the candidates, and the best of them.
Rank ==
    /\ pc = "rank"
    /\ suggested' = CHOOSE b \in candidates :
                        \A c \in candidates : Better(b, c)
    /\ pc' = "answered"
    /\ UNCHANGED <<slots, strategy, request, toAsk, candidates, noted>>

\* SUGGEST_OTHER_BRANCH or NO_AVAILABILITY.
Answer ==
    /\ pc = "answered"
    /\ Forget
    /\ UNCHANGED <<slots, strategy>>

-----------------------------------------------------------------------------
Assign ==
    \/ \E branch \in Branches \cup {Null}, type \in Types \cup {Null} :
          Start(branch, type)
    \/ Assigned \/ LookElsewhere
    \/ AskNearest \/ (\E b \in Branches : AskAvailability(b)) \/ Rank
    \/ Answer

Others ==
    \/ \E b \in Branches, type \in Types \cup {Null} : OthersClaim(b, type)
    \/ \E s \in Slots, status \in {"DISPONIBLE", "OCUPADA", "NO_DISPONIBLE"} :
          UpdateStatus(s, status)
    \/ \E b \in Branches : MarkAllOccupied(b)

AssignmentNext == Assign \/ Others

AssignmentSpec == AssignmentInit /\ [][AssignmentNext]_assignmentVars

-----------------------------------------------------------------------------
(* Properties.                                                             *)

SlotStates == {"DISPONIBLE", "RESERVADA", "OCUPADA", "NO_DISPONIBLE"}

\* The types of the slots and of what the execution under way remembers.
AssignmentTypeOK ==
    /\ slotStatus \in [Slots -> SlotStates]
    /\ strategy \in {"default", "balanced"}
    /\ pc \in {"idle", "claim", "ask", "rank", "answered"}
    /\ request \in [branch : Branches \cup {Null}, type : Types \cup {Null}]
    /\ toAsk \subseteq Branches /\ candidates \subseteq Branches
    /\ suggested \in Branches \cup {Null}
    /\ hadRoom \subseteq Branches /\ wasFull \subseteq Branches
    /\ quiet \in BOOLEAN

\* Although the statements read one branch now and another later, a driver is
\* sent elsewhere only when his branch had no slot for him at some instant of
\* the assignment, and to a branch that had one at some instant of it; and
\* nobody is passed over: a branch nearer than the one the default policy
\* suggests was full at some instant, and so was every branch when there is
\* nothing to suggest, though perhaps not all at the same time (both policies
\* ask after the claim has failed: default-slot-assignment.policy.ts:33,
\* balanced-slot-assignment.policy.ts:42).
SuggestionHolds ==
    pc = "answered" /\ request.branch # Null =>
        \/ suggested = Null /\ wasFull = Branches
        \/ /\ suggested \in hadRoom
           /\ request.branch \in wasFull \ {suggested}
           /\ strategy = "default" =>
                 \A b \in Branches \ {request.branch} :
                     Km(b) < Km(suggested) => b \in wasFull

\* The part of the slots of a branch that is taken, added to the distance at
\* Penalty for the whole: no branch with room is less than the one suggested,
\* when nobody has interfered.
CostAtMost(b, c) ==
    IF strategy = "default" THEN Km(b) <= Km(c)
    ELSE LET used == [x \in {b, c} |->
                Cardinality({s \in ToSet(SlotsOf[x]) :
                    slotStatus[s] \notin {"DISPONIBLE", "NO_DISPONIBLE"}})]
             km == [x \in {b, c} |-> Km(x) * Len(SlotsOf[x])]
         IN (km[b] + Penalty * used[b]) * Len(SlotsOf[c])
                <= (km[c] + Penalty * used[c]) * Len(SlotsOf[b])

\* With nobody interfering the suggestion is the best there is: the nearest
\* branch with room, or that of the least distance plus penalty.
BestWhenQuiet ==
    pc = "answered" /\ quiet /\ suggested # Null =>
        \A b \in hadRoom \ {request.branch} : CostAtMost(suggested, b)

\* A slot of the branch and of the type of s is claimed.
OneLikeIsClaimed(s) ==
    \E z \in ToSet(SlotsOf[BranchOf(s)]) :
        /\ TypeOf[z] = TypeOf[s]
        /\ slotStatus[z] = "DISPONIBLE" /\ slotStatus'[z] = "RESERVADA"

\* "para repartir el desgaste fisico" (balanced-slot-assignment.policy.ts:16):
\* under the balanced policy no free slot is passed over for ever while others
\* like it are claimed, whatever is released or blocked in between.
NoSlotIsForgotten ==
    \A s \in Slots :
        strategy = "balanced" /\ []<><<OneLikeIsClaimed(s)>>_assignmentVars =>
            []<>(slotStatus[s] # "DISPONIBLE")
=============================================================================
