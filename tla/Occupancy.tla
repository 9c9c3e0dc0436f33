------------------------------ MODULE Occupancy ------------------------------
(* How a page comes to show the occupancy of a branch: each operation that   *)
(* changes a slot has a summary of the branch read and published, and the    *)
(* page has read a first summary over HTTP.                                  *)
(*                                                                           *)
(* A summary is known by how many changes it has seen. The page is mounted   *)
(* once; its events come over one socket, in order.                          *)
EXTENDS Naturals, Sequences

CONSTANTS
    MaxChanges, \* changes of the branch's slots (a bound)
    None

Changes == 1..MaxChanges

\* What is assumed of the constants.
OccupancyAssumption == MaxChanges \in Nat /\ None \notin 0..MaxChanges

VARIABLES
    changes,  \* changes made to the branch's slots so far
    notice,   \* what became of the notification of each
    role,     \* of the page's user: BranchesPage, or OccupancySection (admin)
    joined,   \* the socket is in a room the event is emitted to
    joining,  \* the page has asked to join the room of the branch
    wire,     \* notices on their way to the page
    phase,    \* of the page's own request
    fetched,  \* the summary it was answered with
    shown,    \* the summary on the page
    latest,   \* history: the newest summary published
    lost,     \* history: notices that did not reach the page
    disorder  \* history: an older summary was published after a newer one, or
              \* an event came between the page's request and its answer

backend == <<changes, notice, latest>>
page == <<role, joined, joining, wire, phase, fetched, shown>>
vars == <<backend, page, lost, disorder>>

Summary == 0..MaxChanges
Notices == [at : {"none", "owed", "done"}] \cup [at : {"read"}, seen : Summary]

Init ==
    /\ changes = 0
    /\ notice = [c \in Changes |-> [at |-> "none"]]
    /\ role \in {"USER", "ADMIN"}
    /\ joined = (role = "ADMIN") /\ joining = FALSE
    /\ wire = <<>> /\ phase = "list" /\ fetched = 0 /\ shown = None
    /\ latest = 0 /\ lost = {} /\ disorder = FALSE

-----------------------------------------------------------------------------
(* The backend. *)

\* Mutant: one of the operations does not notify.
ChangeSilently ==
    /\ changes < MaxChanges
    /\ changes' = changes + 1
    /\ notice' = [notice EXCEPT ![changes'].at = "done"]
    /\ UNCHANGED <<latest, page, lost, disorder>>

\* A reservation, its end, an entry, an exit, a block or a simulation changes
\* slots of the branch and calls notifyOccupancyUpdated.
ChangeSlots ==
    /\ changes < MaxChanges
    /\ changes' = changes + 1
    /\ notice' = [notice EXCEPT ![changes'].at = "owed"]
    /\ UNCHANGED <<latest, page, lost, disorder>>

GetOccupancySummary == changes

\* Mutant: the summary is of before the change.
ReadSummaryBefore(c) ==
    /\ notice[c].at = "owed"
    /\ notice' = [notice EXCEPT ![c] = [at |-> "read", seen |-> c - 1]]
    /\ UNCHANGED <<changes, latest, page, lost, disorder>>

\* Nobody waits for the summary.
ReadSummary(c) ==
    /\ notice[c].at = "owed"
    /\ notice' = [notice EXCEPT ![c] = [at |-> "read",
                                        seen |-> GetOccupancySummary]]
    /\ UNCHANGED <<changes, latest, page, lost, disorder>>

Done(c) == notice' = [notice EXCEPT ![c] = [at |-> "done"]]

\* No notice is on its way to the page.
Settled ==
    /\ \A c \in Changes : notice[c].at \in {"none", "done"}
    /\ wire = <<>>

\* The envelope goes to the room of the branch and to that of the admins. Of
\* two summaries the older may be published last.
PublishSummary(c) ==
    /\ notice[c].at = "read"
    /\ Done(c)
    /\ LET seen == notice[c].seen IN
       /\ disorder' = (disorder \/ seen < latest)
       /\ latest' = IF seen < latest THEN latest ELSE seen
       /\ IF joined
          THEN wire' = Append(wire, [of |-> c, seen |-> seen]) /\ lost' = lost
          ELSE lost' = lost \cup {c} /\ wire' = wire
    /\ UNCHANGED <<changes, role, joined, joining, phase, fetched, shown>>

\* The process dies, or the query or the publication fails: it is logged.
NoticeFails(c) ==
    /\ notice[c].at \in {"owed", "read"}
    /\ Done(c)
    /\ lost' = lost \cup {c}
    /\ UNCHANGED <<changes, latest, page, disorder>>

-----------------------------------------------------------------------------
(* realtime-service and the page. *)

\* The queue of the relay is exclusive: what was in it is lost with it.
RelayReconnects ==
    /\ wire # <<>>
    /\ wire' = <<>>
    /\ lost' = lost \cup {wire[i].of : i \in DOMAIN wire}
    /\ UNCHANGED <<backend, role, joined, joining, phase, fetched, shown,
                   disorder>>

\* The server joins a new connection to the room of the admins. The page joins
\* the room of a branch when its socket object or its branches change, and a
\* reconnection changes neither.
SocketReconnects ==
    /\ joined' = (role = "ADMIN")
    /\ wire' = <<>>
    /\ lost' = lost \cup {wire[i].of : i \in DOMAIN wire}
    /\ UNCHANGED <<backend, role, joining, phase, fetched, shown, disorder>>

\* The list of branches has come: the page asks for their occupancy, and to
\* join their rooms.
AskOccupancy ==
    /\ phase = "list"
    /\ phase' = "asked"
    /\ joining' = (role = "USER")
    /\ UNCHANGED <<backend, role, joined, wire, fetched, shown, lost,
                   disorder>>

JoinRooms ==
    /\ joining
    /\ joined' = TRUE /\ joining' = FALSE
    /\ UNCHANGED <<backend, role, wire, phase, fetched, shown, lost, disorder>>

\* compareBranchesOccupancy: it makes up for what was lost, unless an older
\* event is still to come.
CompareOccupancy ==
    /\ phase = "asked"
    /\ phase' = "read"
    /\ fetched' = GetOccupancySummary
    /\ lost' = IF Settled THEN {} ELSE lost
    /\ UNCHANGED <<backend, role, joined, joining, wire, shown, disorder>>

\* The answer replaces what events brought in the meantime.
ShowOccupancy ==
    /\ phase = "read"
    /\ phase' = "shown"
    /\ shown' = fetched
    /\ UNCHANGED <<backend, role, joined, joining, wire, fetched, lost,
                   disorder>>

\* An error is shown instead; the cards of the branches page go on taking in
\* events.
FetchFails ==
    /\ phase \in {"list", "asked", "read"}
    /\ phase' = "failed"
    /\ UNCHANGED <<backend, role, joined, joining, wire, fetched, shown, lost,
                   disorder>>

\* branch.occupancy.updated. The section of the admins ignores it until it has
\* its rows.
OnOccupancyUpdated ==
    /\ wire # <<>>
    /\ wire' = Tail(wire)
    /\ disorder' = (disorder \/ phase = "read")
    /\ IF role = "ADMIN" /\ phase # "shown"
       THEN lost' = lost \cup {Head(wire).of} /\ shown' = shown
       ELSE shown' = Head(wire).seen /\ lost' = lost
    /\ UNCHANGED <<backend, role, joined, joining, phase, fetched>>

-----------------------------------------------------------------------------
Next ==
    \/ ChangeSlots
    \/ \E c \in Changes :
          ReadSummary(c) \/ PublishSummary(c) \/ NoticeFails(c)
    \/ RelayReconnects \/ SocketReconnects
    \/ AskOccupancy \/ JoinRooms \/ CompareOccupancy
    \/ ShowOccupancy \/ FetchFails \/ OnOccupancyUpdated

Spec == Init /\ [][Next]_vars

-----------------------------------------------------------------------------
TypeOK ==
    /\ changes \in Summary /\ latest \in Summary /\ fetched \in Summary
    /\ notice \in [Changes -> Notices]
    /\ role \in {"USER", "ADMIN"}
    /\ joined \in BOOLEAN /\ joining \in BOOLEAN /\ disorder \in BOOLEAN
    /\ wire \in Seq([of : Changes, seen : Summary])
    /\ phase \in {"list", "asked", "read", "shown", "failed"}
    /\ shown \in Summary \cup {None}
    /\ lost \subseteq Changes

\* What the page shows in the end is the occupancy there is, whatever notices
\* of earlier changes were lost, if that of the last change was not, nothing
\* was published in another order than it was read, and no event came before
\* the answer to the page's own request.
FreshWhenQuiet ==
    Settled /\ phase = "shown" /\ ~disorder /\ changes \notin lost =>
        shown = changes

\* And it comes to that by itself.
Converges ==
    <>[](phase = "failed" \/ disorder \/ changes \in lost \/ shown = changes)
=============================================================================
