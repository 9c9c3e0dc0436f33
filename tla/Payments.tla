------------------------------- MODULE Payments -------------------------------
(* RegisterPayment in the payments service, for one parking session: the     *)
(* quote comes from the backend, the charge from the payment method, and the *)
(* row of the session (sessionId is unique) is written by separate SQL       *)
(* statements, with no transaction around them.                              *)
(*                                                                           *)
(* Amounts are billable hours. A charge is approved: the payment methods     *)
(* reject amounts that are not positive only, and none is asked for here.    *)
EXTENDS Integers, FiniteSets, FiniteSetsExt

CONSTANTS
    Calls,  \* the requests to pay, each of them made once
    MaxDue, \* bound: the stay costs no more than this
    None

Rows == [amount : Nat, refs : SUBSET Calls]

ASSUME PaymentsAssumption ==
    /\ IsFiniteSet(Calls)
    /\ MaxDue \in Nat \ {0}
    /\ None \notin Calls \cup Rows

VARIABLES
    due,     \* what the backend would quote now
    row,     \* the row of payments, or None
    pc,
    amount,  \* of each call: the quote, then what is missing
    base,    \* of each top-up: the row increaseAmount read
    charged, \* what the payment method took for each call
    disturbed \* history: two requests have overlapped, or one has failed

vars == <<due, row, pc, amount, base, charged, disturbed>>

Recorded == IF row = None THEN 0 ELSE row.amount

Running(c) == pc[c] \notin {"idle", "done"}
Goto(c, label) == pc' = [pc EXCEPT ![c] = label]

-----------------------------------------------------------------------------
Init ==
    /\ due = 1
    /\ row = None
    /\ pc = [c \in Calls |-> "idle"]
    /\ amount = [c \in Calls |-> 0]
    /\ base = [c \in Calls |-> None]
    /\ charged = [c \in Calls |-> 0]
    /\ disturbed = FALSE

\* Another hour of the stay begins.
HourPasses ==
    /\ due < MaxDue
    /\ due' = due + 1
    /\ UNCHANGED <<row, pc, amount, base, charged>>

GetQuote(c) ==
    /\ pc[c] = "idle"
    /\ amount' = [amount EXCEPT ![c] = due]
    /\ Goto(c, "find")
    /\ UNCHANGED <<due, row, base, charged>>

\* Mutant: the whole quote is charged, whatever is on record.
FindChargingAll(c) ==
    /\ pc[c] = "find"
    /\ IF row = None
       THEN Goto(c, "charge")
       ELSE IF amount[c] <= row.amount THEN Goto(c, "done")
                                       ELSE Goto(c, "chargeMissing")
    /\ UNCHANGED <<due, row, amount, base, charged>>

\* findBySessionId. A row that covers the quote is returned as it is.
FindBySession(c) ==
    /\ pc[c] = "find"
    /\ IF row = None
       THEN Goto(c, "charge") /\ UNCHANGED amount
       ELSE IF amount[c] <= row.amount
       THEN Goto(c, "done") /\ UNCHANGED amount
       ELSE /\ amount' = [amount EXCEPT ![c] = @ - row.amount]
            /\ Goto(c, "chargeMissing")
    /\ UNCHANGED <<due, row, base, charged>>

Charge(c) ==
    /\ pc[c] \in {"charge", "chargeMissing"}
    /\ charged' = [charged EXCEPT ![c] = amount[c]]
    /\ Goto(c, IF pc[c] = "charge" THEN "create" ELSE "read")
    /\ UNCHANGED <<due, row, amount, base>>

\* The INSERT, which fails when the session has a row by now.
Create(c) ==
    /\ pc[c] = "create"
    /\ row' = IF row = None THEN [amount |-> charged[c], refs |-> {c}] ELSE row
    /\ Goto(c, "done")
    /\ UNCHANGED <<due, amount, base, charged>>

\* increaseAmount reads the row ...
ReadRow(c) ==
    /\ pc[c] = "read"
    /\ base' = [base EXCEPT ![c] = row]
    /\ Goto(c, "write")
    /\ UNCHANGED <<due, row, amount, charged>>

\* Mutant: the UPDATE increments the amount, but not what was read with it.
IncrementAmount(c) ==
    /\ pc[c] = "write"
    /\ row' = [amount |-> row.amount + charged[c],
               refs |-> base[c].refs \cup {c}]
    /\ Goto(c, "done")
    /\ UNCHANGED <<due, amount, base, charged>>

\* Mutant: what was missing replaces the amount.
WriteMissingOnly(c) ==
    /\ pc[c] = "write"
    /\ row' = [amount |-> charged[c], refs |-> base[c].refs \cup {c}]
    /\ Goto(c, "done")
    /\ UNCHANGED <<due, amount, base, charged>>

\* ... and writes back the sum, with the reference of the charge appended.
WriteRow(c) ==
    /\ pc[c] = "write"
    /\ row' = [amount |-> base[c].amount + charged[c],
               refs |-> base[c].refs \cup {c}]
    /\ Goto(c, "done")
    /\ UNCHANGED <<due, amount, base, charged>>

\* A statement fails or the process dies: nothing takes a charge back.
CallFails(c) ==
    /\ Running(c)
    /\ Goto(c, "done")
    /\ UNCHANGED <<due, row, amount, base, charged>>

CallStep(c) ==
    \/ GetQuote(c) \/ FindBySession(c) \/ Charge(c)
    \/ Create(c) \/ ReadRow(c) \/ WriteRow(c)

Step == HourPasses \/ \E c \in Calls : CallStep(c)

OneAtATime == \A c, d \in Calls : Running(c) /\ Running(d) => c = d

Next ==
    \/ Step /\ disturbed' = (disturbed \/ ~OneAtATime')
    \/ \E c \in Calls : CallFails(c) /\ disturbed' = TRUE

Spec == Init /\ [][Next]_vars

-----------------------------------------------------------------------------
SumCharged(S) == MapThenSumSet(LAMBDA c : charged[c], S)

Labels == {"idle", "find", "charge", "chargeMissing", "create", "read",
           "write", "done"}

\* The types of the row and of what each call remembers.
TypeOK ==
    /\ due \in 1..MaxDue
    /\ row \in Rows \cup {None}
    /\ pc \in [Calls -> Labels]
    /\ amount \in [Calls -> 0..MaxDue]
    /\ base \in [Calls -> Rows \cup {None}]
    /\ charged \in [Calls -> 0..MaxDue]
    /\ disturbed \in BOOLEAN

\* The amount on record is that of the charges the row refers to, whichever
\* top-ups overlap: the exit of a stay never rests on money nobody paid.
RowAddsUp == row # None => row.amount = SumCharged(row.refs)

\* "Sin cobrar de nuevo si ya cubre la tarifa": the driver is never charged
\* more than the stay costs, as long as his requests have come one at a time
\* and none has failed.
NeverOvercharged == ~disturbed => SumCharged(Calls) <= due

Ledger == INSTANCE PaymentLedger WITH paid <- Recorded

\* Until then, the service keeps the ledger the backend relies on.
ImplementsLedger ==
    /\ Ledger!LedgerInit
    /\ [][~disturbed' => [Ledger!LedgerNext]_<<Recorded, due>>]_vars
=============================================================================
