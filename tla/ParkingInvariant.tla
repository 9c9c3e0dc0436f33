--------------------------- MODULE ParkingInvariant ---------------------------
(* What running handlers may rely on: the invariants of Parking strengthened *)
(* with what each handler remembers, so that every step preserves them.      *)
EXTENDS Parking

\* Rows that handlers refer to exist, and so do the slots of rows.
KnownRows ==
    /\ \A r \in Resvs : res[r].status # "NONE" => res[r].slot \in Slots
    /\ \A r \in Resvs : session[r].status # "NONE" => res[r].status # "NONE"
    /\ \A w \in Workers : worker[w].pc = "insert" =>
          worker[w].slot \in Slots
    /\ \A c \in Calls : call[c].pc # "idle" =>
          call[c].resv \in Resvs /\ res[call[c].resv].status # "NONE"
    /\ \A k \in Sweeps :
          /\ \A r \in sweep[k].todo : res[r].status # "NONE"
          /\ sweep[k].current # None => sweep[k].current \in sweep[k].todo

\* A live reservation whose slot no exit has released yet. ExitClose may take
\* the others away from a slot that was claimed again after the release.
HeldFirmly(s) ==
    \E r \in Resvs :
        /\ res[r].status \in Live /\ res[r].slot = s
        /\ \A c \in Calls : ~(call[c].pc = "exitClose" /\ call[c].resv = r)

Accounted ==
    \A s \in Slots : slotStatus[s] = "RESERVADA" =>
        Claiming(s) \/ HeldFirmly(s) \/ Releasing(s) \/ s \in orphaned

EntryPC == {"entrySession", "entryConfirm", "entryCreate", "entryOccupy"}
ExitPC == {"exitPayment", "exitSession", "exitComplete"}
PaidPC == {"exitSession", "exitComplete"}

\* What the clock readings of entries and exits in progress say.
CallsInTime ==
    \A c \in Calls : LET r == call[c].resv IN
        /\ call[c].pc \in EntryPC =>
              res[r].startAt <= call[c].at /\ call[c].at <= now
        /\ call[c].pc \in ExitPC =>
              session[r].status # "NONE" /\ session[r].entryAt <= call[c].at

StaysInTime ==
    \A r \in Resvs : session[r].status # "NONE" =>
        /\ res[r].startAt <= session[r].entryAt
        /\ session[r].entryAt <= now
        /\ session[r].status = "COMPLETED"
             => session[r].entryAt <= session[r].exitAt

\* An exit past its first lookup acts on a payment that covers its own clock.
ExitsArePaid ==
    \A c \in Calls : call[c].pc \in PaidPC =>
        Covers(call[c].resv, call[c].at)

SweepsAreDue ==
    \A k \in Sweeps : \A r \in sweep[k].todo : ExpiresAt(r) < now

Inductive ==
    /\ KnownRows /\ Accounted
    /\ CallsInTime /\ StaysInTime
    /\ ExitsArePaid /\ CompletedStaysArePaid
    /\ SweepsAreDue /\ NeverExpiredEarly

-----------------------------------------------------------------------------
\* What the stay of r costs by now: the ledger of its payments begins with it.
Due(r) ==
    IF session[r].status = "NONE" THEN 0 ELSE Price(session[r].entryAt, now)

Ledger(r) == INSTANCE PaymentLedger WITH paid <- paid[r], due <- Due(r)

\* The amounts that a payment of the stay of r can bring the record to.
Payable(r) == {q \in Nat : paid[r] < q /\ q <= Due(r)}
=============================================================================
