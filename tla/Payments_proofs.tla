--------------------------- MODULE Payments_proofs ---------------------------
(* What RegisterPayment keeps, for any number of requests and any length of  *)
(* the stay: the row adds up however requests overlap and fail; and as long  *)
(* as they come one at a time and none fails, the service keeps the ledger   *)
(* that the backend relies on, and nobody is charged more than is due.       *)
EXTENDS Payments, FiniteSetTheorems, WellFoundedInduction, TLAPS

\* What the request in progress knows, nobody has made stale.
CallKnows(c) ==
    /\ pc[c] \in {"find", "charge"} => amount[c] \in 1..due
    /\ pc[c] \in {"charge", "create"} => row = None
    /\ pc[c] = "create" => charged[c] \in 1..due
    /\ pc[c] \in {"chargeMissing", "read", "write"} => row # None
    /\ pc[c] = "chargeMissing" =>
          amount[c] > 0 /\ row.amount + amount[c] <= due
    /\ pc[c] \in {"read", "write"} =>
          charged[c] > 0 /\ row.amount + charged[c] <= due
    /\ pc[c] = "write" => base[c] = row

\* The record never exceeds what is due, and one request runs at a time.
SerialInductive ==
    /\ TypeOK
    /\ OneAtATime
    /\ row # None => row.amount \in 1..due
    /\ \A c \in Calls : CallKnows(c)

\* The null of the database is no row.
LEMMA RowIsNotNone == ASSUME NEW r \in Rows PROVE r # None
  BY PaymentsAssumption DEF Rows

\* Nobody has asked to pay yet.
LEMMA InitSerial == Init => SerialInductive
<1> SUFFICES ASSUME Init
             PROVE  SerialInductive
  OBVIOUS
<1>1. disturbed \in BOOLEAN
  BY Zenon DEF Init
<1> QED
  BY <1>1, PaymentsAssumption
  DEF Init, SerialInductive, TypeOK, OneAtATime, Running, CallKnows, Rows,
      Labels

\* The hour that passes leaves every request's knowledge true.
LEMMA HourSerial ==
    SerialInductive /\ HourPasses /\ disturbed' \in BOOLEAN => SerialInductive'
<1> SUFFICES ASSUME SerialInductive, HourPasses, disturbed' \in BOOLEAN
             PROVE  SerialInductive'
  OBVIOUS
<1>1. due \in Nat /\ due' = due + 1 /\ due' \in 1..MaxDue
  BY PaymentsAssumption DEF SerialInductive, TypeOK, HourPasses
<1>2. TypeOK'
  BY <1>1 DEF SerialInductive, TypeOK, HourPasses
<1>3. OneAtATime'
  BY DEF SerialInductive, OneAtATime, Running, HourPasses
<1>4. row' # None => row'.amount \in 1..due'
  BY <1>1 DEF SerialInductive, HourPasses
<1>5. ASSUME NEW c \in Calls
      PROVE  CallKnows(c)'
  <2>1. CallKnows(c) /\ (row # None => row.amount \in Nat)
    BY DEF SerialInductive, TypeOK, Rows
  <2>2. amount[c] \in Nat /\ charged[c] \in Nat
    BY PaymentsAssumption DEF SerialInductive, TypeOK
  <2> QED
    BY <1>1, <2>1, <2>2 DEF CallKnows, HourPasses
<1> QED
  BY <1>2, <1>3, <1>4, <1>5 DEF SerialInductive

\* A step of one request does not concern the others, which do not run.
LEMMA OthersAreIdle ==
    ASSUME SerialInductive, NEW c \in Calls, CallStep(c), Running(c),
           NEW d \in Calls, d # c
    PROVE  CallKnows(d)'
  <1>1. ~Running(d)
    BY DEF SerialInductive, OneAtATime
  <1>2. pc'[d] = pc[d]
    BY DEF CallStep, GetQuote, FindBySession, Charge, Create, ReadRow,
        WriteRow, Goto, SerialInductive, TypeOK
  <1> QED
    BY <1>1, <1>2 DEF Running, CallKnows

\* The numbers a request works with, in the form the steps use them.
LEMMA CallTypes ==
    ASSUME SerialInductive, NEW c \in Calls
    PROVE  /\ due \in 1..MaxDue /\ MaxDue \in Nat
           /\ amount[c] \in 0..MaxDue /\ charged[c] \in 0..MaxDue
           /\ row # None => row.amount \in 1..due /\ row.refs \in SUBSET Calls
           /\ CallKnows(c)
  BY PaymentsAssumption DEF SerialInductive, TypeOK, Rows

\* Every step of a request keeps the invariant, if it still runs alone.
LEMMA CallSerial ==
    ASSUME SerialInductive, NEW c \in Calls, CallStep(c), OneAtATime',
           disturbed' \in BOOLEAN
    PROVE  SerialInductive'
<1> USE PaymentsAssumption
<1>1. CASE GetQuote(c)
  <2>1. TypeOK'
    BY <1>1 DEF SerialInductive, TypeOK, GetQuote, Goto, Labels
  <2>2. row' # None => row'.amount \in 1..due'
    BY <1>1 DEF SerialInductive, GetQuote
  <2>3. ASSUME NEW d \in Calls
        PROVE  CallKnows(d)'
    <3>1. CallKnows(d) /\ due \in Nat \ {0}
      BY DEF SerialInductive, TypeOK
    <3>2. d # c => pc'[d] = pc[d] /\ amount'[d] = amount[d]
      BY <1>1 DEF GetQuote, Goto, SerialInductive, TypeOK
    <3>3. pc'[c] = "find" /\ amount'[c] = due
      BY <1>1 DEF GetQuote, Goto, SerialInductive, TypeOK
    <3> QED
      BY <1>1, <3>1, <3>2, <3>3 DEF CallKnows, GetQuote
  <2> QED
    BY <2>1, <2>2, <2>3 DEF SerialInductive
<1>2. CASE FindBySession(c)
  <2> USE CallTypes
  <2>0. pc[c] = "find" /\ Running(c)
    BY <1>2 DEF FindBySession, Running
  <2>1. amount[c] \in 1..due
    BY <2>0 DEF CallKnows
  <2>2. TypeOK'
    <3>1. pc' \in [Calls -> Labels]
      BY <1>2 DEF SerialInductive, TypeOK, FindBySession, Goto, Labels
    <3>2. amount' \in [Calls -> 0..MaxDue]
      BY <1>2, <2>1 DEF SerialInductive, TypeOK, FindBySession
    <3> QED
      BY <1>2, <3>1, <3>2 DEF SerialInductive, TypeOK, FindBySession
  <2>3. row' # None => row'.amount \in 1..due'
    BY <1>2 DEF FindBySession
  <2>4. CallKnows(c)'
    <3>1. CASE row = None
      <4>1. pc'[c] = "charge" /\ amount'[c] = amount[c] /\ row' = None
            /\ due' = due
        BY <1>2, <3>1 DEF FindBySession, Goto, SerialInductive, TypeOK
      <4> QED
        BY <4>1, <2>1 DEF CallKnows
    <3>2. CASE row # None /\ amount[c] <= row.amount
      <4>1. pc'[c] = "done"
        BY <1>2, <3>2 DEF FindBySession, Goto, SerialInductive, TypeOK
      <4> QED
        BY <4>1 DEF CallKnows
    <3>3. CASE row # None /\ ~(amount[c] <= row.amount)
      <4>1. /\ pc'[c] = "chargeMissing" /\ amount'[c] = amount[c] - row.amount
            /\ row' = row /\ due' = due
        BY <1>2, <3>3 DEF FindBySession, Goto, SerialInductive, TypeOK
      <4> QED
        BY <4>1, <2>1, <3>3 DEF CallKnows
    <3> QED
      BY <3>1, <3>2, <3>3
  <2> QED
    BY <2>0, <2>2, <2>3, <2>4, OthersAreIdle DEF SerialInductive
<1>3. CASE Charge(c)
  <2> USE CallTypes
  <2>0. Running(c) /\ row' = row /\ due' = due /\ charged'[c] = amount[c]
    BY <1>3 DEF Charge, Running, SerialInductive, TypeOK
  <2>1. TypeOK'
    BY <1>3 DEF SerialInductive, TypeOK, Charge, Goto, Labels
  <2>2. row' # None => row'.amount \in 1..due'
    BY <2>0
  <2>3. CallKnows(c)'
    <3>1. CASE pc[c] = "charge"
      <4>1. pc'[c] = "create"
        BY <1>3, <3>1 DEF Charge, Goto, SerialInductive, TypeOK
      <4> QED
        BY <2>0, <3>1, <4>1 DEF CallKnows
    <3>2. CASE pc[c] = "chargeMissing"
      <4>1. pc'[c] = "read"
        BY <1>3, <3>2 DEF Charge, Goto, SerialInductive, TypeOK
      <4> QED
        BY <2>0, <3>2, <4>1 DEF CallKnows
    <3> QED
      BY <1>3, <3>1, <3>2 DEF Charge
  <2> QED
    BY <2>0, <2>1, <2>2, <2>3, OthersAreIdle DEF SerialInductive
<1>4. CASE Create(c)
  <2> USE CallTypes
  <2>0. Running(c) /\ row = None /\ charged[c] \in 1..due /\ due' = due
    BY <1>4 DEF Create, Running, CallKnows
  <2>1. row' = [amount |-> charged[c], refs |-> {c}] /\ row' \in Rows
    BY <1>4, <2>0 DEF Create, Rows
  <2>2. TypeOK'
    BY <1>4, <2>1 DEF SerialInductive, TypeOK, Create, Goto, Labels
  <2>3. row' # None => row'.amount \in 1..due'
    BY <2>0, <2>1
  <2>4. CallKnows(c)'
    <3>1. pc'[c] = "done"
      BY <1>4 DEF Create, Goto, SerialInductive, TypeOK
    <3> QED
      BY <3>1 DEF CallKnows
  <2> QED
    BY <2>0, <2>2, <2>3, <2>4, OthersAreIdle DEF SerialInductive
<1>5. CASE ReadRow(c)
  <2> USE CallTypes
  <2>0. Running(c) /\ row' = row /\ due' = due /\ charged' = charged
    BY <1>5 DEF ReadRow, Running
  <2>1. TypeOK'
    BY <1>5 DEF SerialInductive, TypeOK, ReadRow, Goto, Labels
  <2>2. row' # None => row'.amount \in 1..due'
    BY <2>0
  <2>3. CallKnows(c)'
    <3>1. pc[c] = "read" /\ pc'[c] = "write" /\ base'[c] = row
      BY <1>5 DEF ReadRow, Goto, SerialInductive, TypeOK
    <3> QED
      BY <2>0, <3>1 DEF CallKnows
  <2> QED
    BY <2>0, <2>1, <2>2, <2>3, OthersAreIdle DEF SerialInductive
<1>6. CASE WriteRow(c)
  <2> USE CallTypes
  <2>0. /\ Running(c) /\ due' = due /\ base[c] = row /\ row # None
        /\ charged[c] > 0 /\ row.amount + charged[c] <= due
    BY <1>6 DEF WriteRow, Running, CallKnows
  <2>1. row' = [amount |-> row.amount + charged[c], refs |-> row.refs \cup {c}]
    BY <1>6, <2>0 DEF WriteRow
  <2>2. row' \in Rows
    BY <2>0, <2>1 DEF Rows
  <2>3. TypeOK'
    BY <1>6, <2>2 DEF SerialInductive, TypeOK, WriteRow, Goto, Labels
  <2>4. row' # None => row'.amount \in 1..due'
    BY <2>0, <2>1
  <2>5. CallKnows(c)'
    <3>1. pc'[c] = "done"
      BY <1>6 DEF WriteRow, Goto, SerialInductive, TypeOK
    <3> QED
      BY <3>1 DEF CallKnows
  <2> QED
    BY <2>0, <2>3, <2>4, <2>5, OthersAreIdle DEF SerialInductive
<1> QED
  BY <1>1, <1>2, <1>3, <1>4, <1>5, <1>6 DEF CallStep

\* The initial states are those of an empty ledger.
LEMMA LedgerStarts == Init => Ledger!LedgerInit
  BY DEF Init, Ledger!LedgerInit, Recorded

\* A request that writes the row adds its charge to the record.
LEMMA RecordGrows ==
    ASSUME SerialInductive, NEW c \in Calls, Create(c) \/ WriteRow(c)
    PROVE  /\ Recorded' = Recorded + charged[c] /\ due' = due
           /\ charged[c] > 0 /\ Recorded + charged[c] <= due
<1>1. CASE Create(c)
  <2>1. row = None /\ charged[c] \in 1..due
    BY <1>1, CallTypes DEF Create, CallKnows
  <2>2. row' = [amount |-> charged[c], refs |-> {c}] /\ due' = due
    BY <1>1, <2>1 DEF Create
  <2>3. row' \in Rows
    BY <2>1, <2>2, CallTypes DEF Rows
  <2> QED
    BY <2>1, <2>2, <2>3, RowIsNotNone, CallTypes DEF Recorded
<1>2. CASE WriteRow(c)
  <2>1. /\ base[c] = row /\ row # None
        /\ charged[c] > 0 /\ row.amount + charged[c] <= due
    BY <1>2, CallTypes DEF WriteRow, CallKnows
  <2>2. /\ row' = [amount |-> row.amount + charged[c],
                   refs |-> row.refs \cup {c}]
        /\ due' = due
    BY <1>2, <2>1 DEF WriteRow
  <2>3. row' \in Rows
    BY <2>1, <2>2, CallTypes DEF Rows
  <2> QED
    BY <2>1, <2>2, <2>3, RowIsNotNone, CallTypes DEF Recorded
<1> QED
  BY <1>1, <1>2

\* Writing the row records what was due; all else is the hour or a stutter.
LEMMA LedgerSteps ==
    SerialInductive /\ [Step]_vars => [Ledger!LedgerNext]_<<Recorded, due>>
<1> SUFFICES ASSUME SerialInductive, [Step]_vars
             PROVE  [Ledger!LedgerNext]_<<Recorded, due>>
  OBVIOUS
<1>1. CASE HourPasses
  <2>1. due' > due
    BY <1>1, PaymentsAssumption DEF SerialInductive, TypeOK, HourPasses
  <2> QED
    BY <1>1, <2>1
    DEF HourPasses, Ledger!LedgerNext, Ledger!Accrue, Recorded
<1>2. ASSUME NEW c \in Calls, Create(c) \/ WriteRow(c)
      PROVE  Ledger!Record
  BY <1>2, RecordGrows, CallTypes, PaymentsAssumption
  DEF Ledger!Record, Recorded, SerialInductive, TypeOK
<1>3. ASSUME NEW c \in Calls, GetQuote(c) \/ FindBySession(c) \/ Charge(c)
                                \/ ReadRow(c)
      PROVE  UNCHANGED <<Recorded, due>>
  BY <1>3 DEF GetQuote, FindBySession, Charge, ReadRow, Recorded
<1>4. CASE UNCHANGED vars
  BY <1>4 DEF vars, Recorded
<1> QED
  BY <1>1, <1>2, <1>3, <1>4 DEF Step, CallStep, Ledger!LedgerNext

\* A call that tops up has seen a row, and a row is never deleted.
TopsUpARow ==
    \A c \in Calls : /\ pc[c] \in {"chargeMissing", "read"} => row # None
                     /\ pc[c] = "write" => base[c] # None

\* The statements of a call keep the types, however calls overlap and fail.
LEMMA TypeSteps ==
    TypeOK /\ TopsUpARow /\ [Next]_vars => TypeOK' /\ TopsUpARow'
<1> USE PaymentsAssumption
<1> SUFFICES ASSUME TypeOK, TopsUpARow, [Next]_vars
             PROVE  TypeOK' /\ TopsUpARow'
  OBVIOUS
<1>0. disturbed' \in BOOLEAN
  BY Zenon DEF TypeOK, Next, vars
<1>1. CASE UNCHANGED vars \/ HourPasses
  BY <1>0, <1>1 DEF TypeOK, TopsUpARow, vars, HourPasses
<1>2. ASSUME NEW c \in Calls, CallFails(c)
      PROVE  TypeOK' /\ TopsUpARow'
  BY <1>0, <1>2 DEF TypeOK, TopsUpARow, CallFails, Goto, Labels
<1>3. ASSUME NEW c \in Calls, GetQuote(c) \/ Charge(c) \/ ReadRow(c)
      PROVE  TypeOK' /\ TopsUpARow'
  BY <1>0, <1>3 DEF TypeOK, TopsUpARow, GetQuote, Charge, ReadRow, Goto, Labels
<1>4. ASSUME NEW c \in Calls, FindBySession(c)
      PROVE  TypeOK' /\ TopsUpARow'
  <2>1. row # None => row.amount \in Nat
    BY DEF TypeOK, Rows
  <2>2. amount' \in [Calls -> 0..MaxDue]
    BY <1>4, <2>1 DEF TypeOK, FindBySession
  <2>3. pc' \in [Calls -> Labels]
    BY <1>4 DEF TypeOK, FindBySession, Goto, Labels
  <2>4. TopsUpARow'
    BY <1>4 DEF TypeOK, TopsUpARow, FindBySession, Goto
  <2> QED
    BY <1>0, <1>4, <2>2, <2>3, <2>4 DEF TypeOK, FindBySession
<1>5. ASSUME NEW c \in Calls, Create(c)
      PROVE  TypeOK' /\ TopsUpARow'
  <2>1. row' \in Rows
    BY <1>5 DEF TypeOK, Create, Rows
  <2> QED
    BY <1>0, <1>5, <2>1, RowIsNotNone
    DEF TypeOK, TopsUpARow, Create, Goto, Labels
<1>6. ASSUME NEW c \in Calls, WriteRow(c)
      PROVE  TypeOK' /\ TopsUpARow'
  <2>1. base[c] \in Rows /\ charged[c] \in Nat
    BY <1>6 DEF TypeOK, TopsUpARow, WriteRow
  <2>2. row' \in Rows
    BY <1>6, <2>1 DEF WriteRow, Rows
  <2> QED
    BY <1>0, <1>6, <2>2, RowIsNotNone
    DEF TypeOK, TopsUpARow, WriteRow, Goto, Labels
<1> QED
  BY <1>1, <1>2, <1>3, <1>4, <1>5, <1>6 DEF Next, Step, CallStep

\* The row and what the calls remember keep their types.
THEOREM PaymentsType == Spec => []TypeOK
<1>1. Init => TypeOK /\ TopsUpARow
  BY InitSerial DEF Init, TopsUpARow, SerialInductive
<1> QED
  BY <1>1, TypeSteps, PTL DEF Spec

\* What holds whatever happens, and what holds until requests overlap or fail.
PaymentsInductive ==
    TypeOK /\ TopsUpARow /\ (~disturbed => SerialInductive)

\* Nothing has disturbed the execution before an undisturbed step: the step is
\* one of the hour, or of a request that runs alone.
LEMMA Undisturbed ==
    [Next]_vars /\ ~disturbed' => ~disturbed /\ [Step /\ OneAtATime']_vars
<1> SUFFICES ASSUME [Next]_vars, ~disturbed'
             PROVE  ~disturbed /\ [Step /\ OneAtATime']_vars
  OBVIOUS
<1>1. CASE UNCHANGED vars
  <2>1. disturbed' = disturbed
    BY <1>1 DEF vars
  <2> QED
    BY Zenon, <1>1, <2>1
<1>2. CASE Step /\ disturbed' = (disturbed \/ ~OneAtATime')
  <2>1. ~(disturbed \/ ~OneAtATime')
    BY Zenon, <1>2
  <2> QED
    BY Zenon, <1>2, <2>1
<1>3. CASE \E c \in Calls : CallFails(c) /\ disturbed' = TRUE
  BY Zenon, <1>3
<1> QED
  BY Zenon, <1>1, <1>2, <1>3 DEF Next

\* Every step keeps the invariant.
LEMMA InductiveSteps ==
    PaymentsInductive /\ [Next]_vars => PaymentsInductive'
<1> SUFFICES ASSUME PaymentsInductive, [Next]_vars
             PROVE  PaymentsInductive'
  OBVIOUS
<1>1. TypeOK' /\ TopsUpARow'
  BY TypeSteps DEF PaymentsInductive
<1>2. ASSUME ~disturbed'
      PROVE  SerialInductive'
  <2>1. SerialInductive /\ [Step /\ OneAtATime']_vars
    BY <1>2, Undisturbed DEF PaymentsInductive
  <2>2. disturbed' \in BOOLEAN
    BY <1>1 DEF TypeOK
  <2>3. CASE UNCHANGED vars
    BY <2>1, <2>3
    DEF SerialInductive, TypeOK, OneAtATime, Running, CallKnows, vars
  <2>4. CASE Step /\ OneAtATime'
    BY <2>1, <2>2, <2>4, HourSerial, CallSerial DEF Step
  <2> QED
    BY <2>1, <2>3, <2>4
<1> QED
  BY <1>1, <1>2 DEF PaymentsInductive

\* A request that runs alone, with none that failed before, acts on what it
\* read.
THEOREM SerialHolds == Spec => [](~disturbed => SerialInductive)
<1>1. Init => PaymentsInductive
  BY InitSerial DEF Init, PaymentsInductive, TopsUpARow, SerialInductive
<1>2. PaymentsInductive => (~disturbed => SerialInductive)
  BY DEF PaymentsInductive
<1> QED
  BY <1>1, <1>2, InductiveSteps, PTL DEF Spec

\* Until requests overlap or fail, the payments service implements the ledger:
\* this is what Parking's action Pay assumes of it.
THEOREM SerialImplementsLedger == Spec => ImplementsLedger
<1>1. Init => PaymentsInductive
  BY InitSerial DEF Init, PaymentsInductive, TopsUpARow, SerialInductive
<1>2. PaymentsInductive /\ [Next]_vars
        => [~disturbed' => [Ledger!LedgerNext]_<<Recorded, due>>]_vars
  <2> SUFFICES ASSUME PaymentsInductive, [Next]_vars, ~disturbed'
               PROVE  [Ledger!LedgerNext]_<<Recorded, due>>
    OBVIOUS
  <2>1. SerialInductive /\ [Step /\ OneAtATime']_vars
    BY Undisturbed DEF PaymentsInductive
  <2> QED
    BY <2>1, LedgerSteps
<1> QED
  BY <1>1, <1>2, LedgerStarts, InductiveSteps, PTL DEF Spec, ImplementsLedger

-----------------------------------------------------------------------------
(* Sums over finite sets. Their recursion is that of the community modules'  *)
(* MapThenFoldSet; what holds of every sum is proved on a smallest set that  *)
(* would refute it.                                                          *)

\* The sum of f over S.
SumOf(f, S) == MapThenSumSet(LAMBDA x : f[x], S)

\* The element that a sum over s takes first.
Pick(s) == CHOOSE x \in s : TRUE

\* g gives every subset of S its sum.
IsSum(g, f, S) ==
    g = [s \in SUBSET S |-> IF s = {} THEN 0 ELSE f[Pick(s)] + g[s \ {Pick(s)}]]

\* Among some subsets of a finite set there is a smallest one.
LEMMA SmallestCounterexample ==
    ASSUME NEW S, IsFiniteSet(S), NEW B \in SUBSET (SUBSET S), B # {}
    PROVE  \E T \in B : \A U \in SUBSET T : U \in B => U = T
<1>1. IsWellFoundedOn(StrictSubsetOrdering(S), SUBSET S)
  BY FS_StrictSubsetOrderingWellFounded, FS_FiniteSubsetsOfFinite
<1>2. PICK T \in B : \A U \in B : ~(<<U, T>> \in StrictSubsetOrdering(S))
  BY <1>1, WFMin
<1> QED
  BY <1>2 DEF StrictSubsetOrdering

\* A set that is not empty has an element to take first.
LEMMA PickInSet == \A s : s # {} => Pick(s) \in s
  BY DEF Pick

\* Two such functions agree on what both are defined on.
LEMMA SumsAgree ==
    ASSUME NEW f, NEW S, IsFiniteSet(S), NEW T \in SUBSET S,
           NEW g, IsSum(g, f, S), NEW h, IsSum(h, f, T)
    PROVE  g[T] = h[T]
<1> DEFINE B == {s \in SUBSET T : g[s] # h[s]}
<1>1. IsFiniteSet(T) /\ B \in SUBSET (SUBSET T)
  BY FS_Subset
<1>2. ASSUME B # {} PROVE FALSE
  <2>1. PICK s \in B : \A u \in SUBSET s : u \in B => u = s
    <3> HIDE DEF B
    <3> QED
      BY <1>1, <1>2, SmallestCounterexample
  <2>2. s \in SUBSET T /\ s \in SUBSET S
    OBVIOUS
  <2>3. CASE s = {}
    BY <2>2, <2>3 DEF IsSum
  <2>4. CASE s # {}
    <3>1. Pick(s) \in s
      BY <2>4, PickInSet
    <3> DEFINE u == s \ {Pick(s)}
    <3>2. u \in SUBSET s /\ u # s /\ u \in SUBSET T
      BY <3>1
    <3>3. g[u] = h[u]
      BY <2>1, <3>2
    <3>4. g[s] = f[Pick(s)] + g[u] /\ h[s] = f[Pick(s)] + h[u]
      BY <2>2, <2>4 DEF IsSum
    <3> QED
      BY <3>3, <3>4
  <2> QED
    BY <2>3, <2>4
<1> QED
  BY <1>2

\* The function that the recursion of a sum over S defines, if there is one.
ChosenSum(f, S) == CHOOSE g : IsSum(g, f, S)

\* There is one.
LEMMA SumExists ==
    ASSUME NEW f, NEW S, IsFiniteSet(S)
    PROVE  IsSum(ChosenSum(f, S), f, S)
<1> DEFINE B == {T \in SUBSET S : ~IsSum(ChosenSum(f, T), f, T)}
<1>1. B \in SUBSET (SUBSET S)
  OBVIOUS
<1>2. ASSUME B # {} PROVE FALSE
  <2>1. PICK T \in B : \A U \in SUBSET T : U \in B => U = T
    <3> HIDE DEF B
    <3> QED
      BY <1>1, <1>2, SmallestCounterexample
  <2>2. T \in SUBSET S /\ ~IsSum(ChosenSum(f, T), f, T)
    OBVIOUS
  <2>3. ASSUME NEW U \in SUBSET T, U # T
        PROVE  IsSum(ChosenSum(f, U), f, U) /\ IsFiniteSet(U)
    BY <2>1, <2>2, <2>3, FS_Subset
  <2> HIDE DEF B
  <2> DEFINE rest(s) == s \ {Pick(s)}
             Of(s) == ChosenSum(f, s)[s]
             g == [s \in SUBSET T |->
                     IF s = {} THEN 0 ELSE f[Pick(s)] + Of(rest(s))]
  <2>4. ASSUME NEW s \in SUBSET T, s # {}
        PROVE  rest(s) \in SUBSET s /\ rest(s) # s /\ rest(s) # T
    BY <2>4, PickInSet
  <2>5. ASSUME NEW U \in SUBSET T, U # T
        PROVE  Of(U) = g[U]
    <3>1. IsSum(ChosenSum(f, U), f, U) /\ IsFiniteSet(U)
      BY <2>3, <2>5
    <3>2. CASE U = {}
      <4>1. ChosenSum(f, U)[U] = 0
        BY <3>1, <3>2 DEF IsSum
      <4> QED
        BY <4>1, <3>2
    <3>3. CASE U # {}
      <4>1. rest(U) \in SUBSET U /\ rest(U) # T /\ rest(U) \in SUBSET T
        BY <2>4, <3>3
      <4>2. IsSum(ChosenSum(f, rest(U)), f, rest(U))
        BY <2>3, <4>1
      <4>3. ChosenSum(f, U)[rest(U)] = Of(rest(U))
        <5> HIDE DEF rest
        <5> QED
          BY <3>1, <4>1, <4>2, SumsAgree
      <4>4. ChosenSum(f, U)[U] = f[Pick(U)] + ChosenSum(f, U)[rest(U)]
        BY <3>1, <3>3 DEF IsSum
      <4> HIDE DEF rest
      <4>5. g[U] = f[Pick(U)] + Of(rest(U))
        BY <3>3
      <4> QED
        BY <4>3, <4>4, <4>5
    <3> QED
      BY <3>2, <3>3
  <2>6. ASSUME NEW s \in SUBSET T
        PROVE  g[s] = IF s = {} THEN 0 ELSE f[Pick(s)] + g[rest(s)]
    <3>1. CASE s = {}
      BY <3>1
    <3>2. CASE s # {}
      <4>1. Of(rest(s)) = g[rest(s)]
        BY <2>4, <2>5, <3>2
      <4>2. g[s] = f[Pick(s)] + Of(rest(s))
        BY <3>2
      <4> QED
        BY <3>2, <4>1, <4>2
    <3> QED
      BY <3>1, <3>2
  <2>7. g = [s \in SUBSET T |-> g[s]]
    OBVIOUS
  <2>8. IsSum(g, f, T)
    <3> HIDE DEF g
    <3> QED
      BY <2>6, <2>7 DEF IsSum
  <2> HIDE DEF g
  <2>9. IsSum(ChosenSum(f, T), f, T)
    BY <2>8 DEF ChosenSum
  <2> QED
    BY <2>2, <2>9
<1>3. S \notin B
  BY <1>2
<1> QED
  BY <1>3

\* The sum is what that function gives the whole set.
LEMMA SumIsChosen ==
    ASSUME NEW f, NEW S
    PROVE  SumOf(f, S) = ChosenSum(f, S)[S]
  BY DEF SumOf, MapThenSumSet, MapThenFoldSet, ChosenSum, IsSum, Pick

\* The empty sum.
LEMMA SumEmpty == ASSUME NEW f PROVE SumOf(f, {}) = 0
<1>1. IsSum(ChosenSum(f, {}), f, {})
  BY SumExists, FS_EmptySet
<1> QED
  BY <1>1, SumIsChosen DEF IsSum

\* A sum is its first element and the sum of the rest.
LEMMA SumPick ==
    ASSUME NEW f, NEW S, IsFiniteSet(S), S # {}
    PROVE  SumOf(f, S) = f[Pick(S)] + SumOf(f, S \ {Pick(S)})
<1> DEFINE U == S \ {Pick(S)}
<1>1. IsFiniteSet(U) /\ U \in SUBSET S
  BY FS_Subset
<1>2. IsSum(ChosenSum(f, S), f, S)
  BY SumExists
<1>3. ChosenSum(f, S)[S] = f[Pick(S)] + ChosenSum(f, S)[U]
  BY <1>2 DEF IsSum
<1> HIDE DEF U
<1>4. IsSum(ChosenSum(f, U), f, U)
  BY <1>1, SumExists
<1>5. ChosenSum(f, S)[U] = ChosenSum(f, U)[U]
  BY <1>1, <1>2, <1>4, SumsAgree
<1>6. SumOf(f, S) = ChosenSum(f, S)[S] /\ SumOf(f, U) = ChosenSum(f, U)[U]
  BY SumIsChosen
<1>7. SumOf(f, S) = f[Pick(S)] + SumOf(f, U)
  BY <1>3, <1>5, <1>6
<1> QED
  BY <1>7 DEF U

\* A sum of integers is an integer.
LEMMA SumType ==
    ASSUME NEW f, NEW S, IsFiniteSet(S), \A x \in S : f[x] \in Int
    PROVE  SumOf(f, S) \in Int
<1> DEFINE B == {T \in SUBSET S : SumOf(f, T) \notin Int}
<1>1. B \in SUBSET (SUBSET S)
  OBVIOUS
<1>2. ASSUME B # {} PROVE FALSE
  <2>1. PICK T \in B : \A U \in SUBSET T : U \in B => U = T
    <3> HIDE DEF B
    <3> QED
      BY <1>1, <1>2, SmallestCounterexample
  <2>2. T # {}
    BY SumEmpty
  <2>3. Pick(T) \in T /\ IsFiniteSet(T)
    BY <2>2, PickInSet, FS_Subset
  <2>4. T \ {Pick(T)} \in SUBSET T /\ T \ {Pick(T)} # T
    BY <2>3
  <2>5. SumOf(f, T \ {Pick(T)}) \in Int
    BY <2>1, <2>4
  <2>6. SumOf(f, T) = f[Pick(T)] + SumOf(f, T \ {Pick(T)})
    BY <2>2, <2>3, SumPick
  <2> QED
    BY <2>3, <2>5, <2>6
<1>3. S \notin B
  BY <1>2
<1> QED
  BY <1>3

\* Any element can be taken first.
LEMMA SumRemove ==
    ASSUME NEW f, NEW S, IsFiniteSet(S), \A x \in S : f[x] \in Int,
           NEW c \in S
    PROVE  SumOf(f, S) = f[c] + SumOf(f, S \ {c})
<1> DEFINE B == {T \in SUBSET S : \E x \in T :
                    SumOf(f, T) # f[x] + SumOf(f, T \ {x})}
<1>1. B \in SUBSET (SUBSET S)
  OBVIOUS
<1>2. ASSUME B # {} PROVE FALSE
  <2>1. PICK T \in B : \A U \in SUBSET T : U \in B => U = T
    <3> HIDE DEF B
    <3> QED
      BY <1>1, <1>2, SmallestCounterexample
  <2>2. PICK x \in T : SumOf(f, T) # f[x] + SumOf(f, T \ {x})
    BY <2>1
  <2> DEFINE y == Pick(T)
  <2>3. y \in T /\ IsFiniteSet(T)
    BY PickInSet, FS_Subset
  <2>4. SumOf(f, T) = f[y] + SumOf(f, T \ {y})
    BY <2>3, SumPick
  <2>5. x # y
    BY <2>2, <2>4
  <2>6. /\ T \ {y} \in SUBSET T /\ T \ {y} # T /\ x \in T \ {y}
        /\ T \ {x} \in SUBSET T /\ T \ {x} # T /\ y \in T \ {x}
    BY <2>3, <2>5
  <2>7. T \ {y} \notin B /\ T \ {x} \notin B
    <3> HIDE DEF B
    <3> QED
      BY <2>1, <2>6
  <2> HIDE DEF y
  <2>8. /\ SumOf(f, T \ {y}) = f[x] + SumOf(f, (T \ {y}) \ {x})
        /\ SumOf(f, T \ {x}) = f[y] + SumOf(f, (T \ {x}) \ {y})
    BY <2>6, <2>7
  <2>9. (T \ {y}) \ {x} = (T \ {x}) \ {y}
    OBVIOUS
  <2>10. SumOf(f, (T \ {x}) \ {y}) \in Int /\ f[x] \in Int /\ f[y] \in Int
    <3>1. IsFiniteSet((T \ {x}) \ {y})
      BY <2>3, FS_Subset
    <3>2. T \in SUBSET S
      OBVIOUS
    <3> HIDE DEF B
    <3> QED
      BY <3>1, <3>2, <2>3, SumType
  <2> HIDE DEF B
  <2>11. SumOf(f, T) = f[y] + (f[x] + SumOf(f, (T \ {x}) \ {y}))
    BY <2>4, <2>8, <2>9
  <2>12. f[x] + SumOf(f, T \ {x}) = f[x] + (f[y] + SumOf(f, (T \ {x}) \ {y}))
    BY <2>8
  <2>13. f[y] + (f[x] + SumOf(f, (T \ {x}) \ {y}))
           = f[x] + (f[y] + SumOf(f, (T \ {x}) \ {y}))
    BY <2>10
  <2> QED
    BY <2>2, <2>11, <2>12, <2>13
<1>3. S \notin B
  BY <1>2
<1> QED
  BY <1>3

\* A sum depends on the values of f on S only.
LEMMA SumSame ==
    ASSUME NEW f, NEW g, NEW S, IsFiniteSet(S), \A x \in S : f[x] = g[x]
    PROVE  SumOf(f, S) = SumOf(g, S)
<1> DEFINE B == {T \in SUBSET S : SumOf(f, T) # SumOf(g, T)}
<1>1. B \in SUBSET (SUBSET S)
  OBVIOUS
<1>2. ASSUME B # {} PROVE FALSE
  <2>1. PICK T \in B : \A U \in SUBSET T : U \in B => U = T
    <3> HIDE DEF B
    <3> QED
      BY <1>1, <1>2, SmallestCounterexample
  <2>2. T # {}
    BY SumEmpty
  <2>3. Pick(T) \in T /\ IsFiniteSet(T)
    BY <2>2, PickInSet, FS_Subset
  <2>4. SumOf(f, T \ {Pick(T)}) = SumOf(g, T \ {Pick(T)})
    BY <2>1, <2>3
  <2>5. /\ SumOf(f, T) = f[Pick(T)] + SumOf(f, T \ {Pick(T)})
        /\ SumOf(g, T) = g[Pick(T)] + SumOf(g, T \ {Pick(T)})
    BY <2>2, <2>3, SumPick
  <2> QED
    BY <2>3, <2>4, <2>5
<1>3. S \notin B
  BY <1>2
<1> QED
  BY <1>3

\* A sum of nothing but zeros.
LEMMA SumOfNothing ==
    ASSUME NEW f, NEW S, IsFiniteSet(S), \A x \in S : f[x] = 0
    PROVE  SumOf(f, S) = 0
<1> DEFINE B == {T \in SUBSET S : SumOf(f, T) # 0}
<1>1. B \in SUBSET (SUBSET S)
  OBVIOUS
<1>2. ASSUME B # {} PROVE FALSE
  <2>1. PICK T \in B : \A U \in SUBSET T : U \in B => U = T
    <3> HIDE DEF B
    <3> QED
      BY <1>1, <1>2, SmallestCounterexample
  <2>2. T # {}
    BY SumEmpty
  <2>3. Pick(T) \in T /\ IsFiniteSet(T)
    BY <2>2, PickInSet, FS_Subset
  <2>4. SumOf(f, T \ {Pick(T)}) = 0
    BY <2>1, <2>3
  <2>5. SumOf(f, T) = f[Pick(T)] + SumOf(f, T \ {Pick(T)})
    BY <2>2, <2>3, SumPick
  <2> QED
    BY <2>3, <2>4, <2>5
<1>3. S \notin B
  BY <1>2
<1> QED
  BY <1>3

-----------------------------------------------------------------------------
\* A row that is the sum of the charges it refers to, by f, when the calls that
\* made them are over, by p.
AddsUp(r, f, p) ==
    r # None => /\ r.amount = SumOf(f, r.refs)
                /\ \A d \in r.refs : p[d] = "done"

\* The row and the copies of it that top-ups have read add up.
RowInductive ==
    /\ TypeOK
    /\ TopsUpARow
    /\ AddsUp(row, charged, pc)
    /\ \A c \in Calls : AddsUp(base[c], charged, pc)

\* A set of calls is finite, and so is the sum of its charges.
LEMMA RefsAreFinite ==
    ASSUME NEW f \in [Calls -> 0..MaxDue], NEW S \in SUBSET Calls
    PROVE  /\ IsFiniteSet(S)
           /\ \A d \in S : f[d] \in Int
           /\ SumOf(f, S) \in Int
<1>1. IsFiniteSet(S)
  BY PaymentsAssumption, FS_Subset
<1>2. \A d \in S : f[d] \in Int
  BY PaymentsAssumption
<1> QED
  BY <1>1, <1>2, SumType

\* What adds up before a step that leaves the charges of finished calls alone
\* adds up after it.
LEMMA StillAddsUp ==
    ASSUME NEW f \in [Calls -> 0..MaxDue], NEW p, NEW g, NEW q,
           NEW r \in Rows \cup {None}, AddsUp(r, f, p),
           \A d \in Calls : p[d] = "done" => q[d] = "done" /\ g[d] = f[d]
    PROVE  AddsUp(r, g, q)
<1> SUFFICES ASSUME r # None
             PROVE  AddsUp(r, g, q)
  BY DEF AddsUp
<1>1. r.refs \in SUBSET Calls
  BY DEF Rows
<1>2. \A d \in r.refs : p[d] = "done" /\ q[d] = "done" /\ g[d] = f[d]
  BY <1>1 DEF AddsUp
<1>3. SumOf(g, r.refs) = SumOf(f, r.refs)
  BY <1>1, <1>2, RefsAreFinite, SumSame
<1> QED
  BY <1>2, <1>3 DEF AddsUp

\* One more charge adds its amount to the sum.
LEMMA SumGrows ==
    ASSUME NEW f \in [Calls -> 0..MaxDue], NEW S \in SUBSET Calls,
           NEW c \in Calls \ S
    PROVE  SumOf(f, S \cup {c}) = SumOf(f, S) + f[c]
<1>1. S \cup {c} \in SUBSET Calls /\ (S \cup {c}) \ {c} = S
  OBVIOUS
<1>2. SumOf(f, S \cup {c}) = f[c] + SumOf(f, S)
  <2>1. /\ IsFiniteSet(S \cup {c})
        /\ \A d \in S \cup {c} : f[d] \in Int
    BY <1>1, RefsAreFinite
  <2> QED
    BY <1>1, <2>1, SumRemove
<1>3. f[c] \in Int /\ SumOf(f, S) \in Int
  BY RefsAreFinite, PaymentsAssumption
<1> QED
  BY <1>2, <1>3

\* Nobody has paid and nobody has read a row.
LEMMA InitAddsUp == Init => RowInductive
<1> SUFFICES ASSUME Init
             PROVE  RowInductive
  OBVIOUS
<1>1. TypeOK /\ TopsUpARow
  BY InitSerial DEF Init, TopsUpARow, SerialInductive
<1> QED
  BY <1>1 DEF Init, RowInductive, AddsUp

\* A step that neither writes nor reads the row, and charges no finished call,
\* leaves what adds up as it is.
LEMMA AddsUpStays ==
    ASSUME RowInductive, row' = row, base' = base,
           \A d \in Calls : pc[d] = "done" =>
               pc'[d] = "done" /\ charged'[d] = charged[d]
    PROVE  /\ AddsUp(row', charged', pc')
           /\ \A c \in Calls : AddsUp(base'[c], charged', pc')
<1>1. charged \in [Calls -> 0..MaxDue] /\ row \in Rows \cup {None}
      /\ \A c \in Calls : base[c] \in Rows \cup {None}
  BY DEF RowInductive, TypeOK
<1> QED
  BY <1>1, StillAddsUp DEF RowInductive

\* Every step keeps the rows that add up.
LEMMA AddsUpSteps == RowInductive /\ [Next]_vars => RowInductive'
<1> SUFFICES ASSUME RowInductive, [Next]_vars
             PROVE  RowInductive'
  OBVIOUS
<1>1. TypeOK /\ TopsUpARow /\ TypeOK' /\ TopsUpARow'
  BY TypeSteps DEF RowInductive
<1> DEFINE Sums == /\ AddsUp(row', charged', pc')
                   /\ \A c \in Calls : AddsUp(base'[c], charged', pc')
<1>2. ASSUME UNCHANGED vars \/ HourPasses
      PROVE  Sums
  <2>1. row' = row /\ base' = base /\ pc' = pc /\ charged' = charged
    BY <1>2 DEF vars, HourPasses
  <2> QED
    BY <1>1, <2>1 DEF RowInductive
<1>3. ASSUME NEW c \in Calls, \/ GetQuote(c) \/ FindBySession(c)
                              \/ Charge(c) \/ CallFails(c)
      PROVE  Sums
  <2>1. row' = row /\ base' = base
    BY <1>3 DEF GetQuote, FindBySession, Charge, CallFails
  <2>2. ASSUME NEW d \in Calls, pc[d] = "done"
        PROVE  pc'[d] = "done" /\ charged'[d] = charged[d]
    BY <1>1, <1>3, <2>2
    DEF TypeOK, GetQuote, FindBySession, Charge, CallFails, Running, Goto
  <2> QED
    BY <2>1, <2>2, AddsUpStays
<1>4. ASSUME NEW c \in Calls, ReadRow(c)
      PROVE  Sums
  <2>1. row' = row /\ charged' = charged /\ base' = [base EXCEPT ![c] = row]
    BY <1>4 DEF ReadRow
  <2>2. \A d \in Calls : pc[d] = "done" => pc'[d] = "done"
    BY <1>1, <1>4 DEF TypeOK, ReadRow, Goto
  <2>3. ASSUME NEW r \in Rows \cup {None}, AddsUp(r, charged, pc)
        PROVE  AddsUp(r, charged', pc')
    BY <1>1, <2>1, <2>2, <2>3, StillAddsUp DEF TypeOK
  <2>4. ASSUME NEW d \in Calls
        PROVE  base'[d] = row \/ base'[d] = base[d]
    BY <1>1, <2>1 DEF TypeOK
  <2> QED
    BY <1>1, <2>1, <2>3, <2>4 DEF RowInductive, TypeOK
<1>5. ASSUME NEW c \in Calls, NEW S \in SUBSET Calls, pc[c] # "done",
             \A d \in S : pc[d] = "done",
             row' = [amount |-> SumOf(charged, S) + charged[c],
                     refs |-> S \cup {c}],
             pc' = [pc EXCEPT ![c] = "done"],
             base' = base, charged' = charged
      PROVE  Sums
  <2>1. \A d \in Calls : pc[d] = "done" => pc'[d] = "done"
    BY <1>1, <1>5 DEF TypeOK
  <2>2. ASSUME NEW d \in Calls
        PROVE  AddsUp(base'[d], charged', pc')
    BY <1>1, <1>5, <2>1, StillAddsUp DEF RowInductive, TypeOK
  <2>3. SumOf(charged, S \cup {c}) = SumOf(charged, S) + charged[c]
    BY <1>1, <1>5, SumGrows DEF TypeOK
  <2>4. \A d \in S \cup {c} : pc'[d] = "done"
    BY <1>1, <1>5 DEF TypeOK
  <2>5. AddsUp(row', charged', pc')
    BY <1>5, <2>3, <2>4 DEF AddsUp
  <2> QED
    BY <2>2, <2>5
<1>6. ASSUME NEW c \in Calls, Create(c)
      PROVE  Sums
  <2>1. /\ pc' = [pc EXCEPT ![c] = "done"] /\ pc[c] # "done"
        /\ base' = base /\ charged' = charged
    BY <1>6 DEF Create, Goto
  <2>2. CASE row = None
    <3>1. row' = [amount |-> charged[c], refs |-> {c}]
      BY <1>6, <2>2 DEF Create
    <3>2. charged[c] = SumOf(charged, {}) + charged[c] /\ {c} = {} \cup {c}
      BY <1>1, SumEmpty, PaymentsAssumption DEF TypeOK
    <3>3. row' = [amount |-> SumOf(charged, {}) + charged[c],
                  refs |-> {} \cup {c}]
      BY <3>1, <3>2
    <3>4. {} \in SUBSET Calls /\ \A d \in {} : pc[d] = "done"
      OBVIOUS
    <3> HIDE DEF Sums
    <3> QED
      BY <1>5, <1>6, <2>1, <3>3, <3>4
  <2>3. CASE row # None
    <3>1. row' = row
      BY <1>6, <2>3 DEF Create
    <3>2. \A d \in Calls : pc[d] = "done" => pc'[d] = "done"
      BY <1>1, <2>1 DEF TypeOK
    <3> QED
      BY <2>1, <3>1, <3>2, AddsUpStays
  <2> QED
    BY <2>2, <2>3
<1>7. ASSUME NEW c \in Calls, WriteRow(c)
      PROVE  Sums
  <2>1. /\ pc' = [pc EXCEPT ![c] = "done"] /\ pc[c] # "done"
        /\ base' = base /\ charged' = charged
        /\ row' = [amount |-> base[c].amount + charged[c],
                   refs |-> base[c].refs \cup {c}]
    BY <1>7 DEF WriteRow, Goto
  <2>2. base[c] \in Rows /\ AddsUp(base[c], charged, pc)
    BY <1>1, <1>7 DEF RowInductive, TypeOK, TopsUpARow, WriteRow
  <2>3. /\ base[c].refs \in SUBSET Calls
        /\ base[c].amount = SumOf(charged, base[c].refs)
        /\ \A d \in base[c].refs : pc[d] = "done"
    BY <2>2, RowIsNotNone DEF AddsUp, Rows
  <2> QED
    BY <1>5, <2>1, <2>3
<1>8. Sums
  <2> HIDE DEF Sums
  <2>1. ASSUME NEW c \in Calls, CallStep(c) \/ CallFails(c)
        PROVE  Sums
    BY <2>1, <1>3, <1>4, <1>6, <1>7 DEF CallStep
  <2> QED
    BY <2>1, <1>2 DEF Next, Step
<1> QED
  BY <1>1, <1>8 DEF RowInductive

\* What the row records is what the charges it refers to took, however
\* requests overlap and fail.
THEOREM RowAlwaysAddsUp == Spec => []RowAddsUp
<1>1. RowInductive => RowAddsUp
  BY DEF RowInductive, AddsUp, RowAddsUp, SumCharged, SumOf
<1> QED
  BY <1>1, InitAddsUp, AddsUpSteps, PTL DEF Spec

-----------------------------------------------------------------------------
\* The calls that have taken a charge and have not recorded it.
Unrecorded == {"create", "read", "write"}

\* Until requests overlap or fail, the charges taken are those on record, and
\* that of the request that runs, once it has charged.
Accounts ==
    /\ \A c \in Calls : pc[c] \in {"idle", "find", "charge", "chargeMissing"}
                          => charged[c] = 0
    /\ \A c \in Calls :
          pc[c] \in Unrecorded => SumOf(charged, Calls) = Recorded + charged[c]
    /\ (\A c \in Calls : pc[c] \notin Unrecorded)
          => SumOf(charged, Calls) = Recorded

\* What holds whatever happens, and the accounts until something disturbs them.
AccountsInductive == PaymentsInductive /\ (~disturbed => Accounts)

\* Before anybody pays, the charges and the record are nothing.
LEMMA InitAccounts == Init => AccountsInductive
<1> SUFFICES ASSUME Init
             PROVE  AccountsInductive
  OBVIOUS
<1>1. PaymentsInductive
  BY InitSerial DEF Init, PaymentsInductive, TopsUpARow, SerialInductive
<1>2. SumOf(charged, Calls) = 0
  BY PaymentsAssumption, SumOfNothing DEF Init
<1>3. Accounts
  BY <1>2 DEF Init, Accounts, Unrecorded, Recorded
<1> QED
  BY <1>1, <1>3 DEF AccountsInductive

\* A request that charges adds its charge to what is on record.
LEMMA ChargeAccounts ==
    ASSUME SerialInductive, Accounts, NEW c \in Calls, Charge(c)
    PROVE  SumOf(charged', Calls) = Recorded + charged'[c]
<1>1. Running(c) /\ charged[c] = 0 /\ pc[c] \notin Unrecorded
  BY DEF Charge, Running, Accounts, Unrecorded
<1>2. \A d \in Calls : pc[d] \notin Unrecorded
  BY <1>1 DEF SerialInductive, OneAtATime, Running, Unrecorded
<1>3. SumOf(charged, Calls) = Recorded
  BY <1>2 DEF Accounts
<1>4. /\ charged \in [Calls -> 0..MaxDue] /\ charged' \in [Calls -> 0..MaxDue]
      /\ \A d \in Calls \ {c} : charged'[d] = charged[d]
  BY DEF SerialInductive, TypeOK, Charge
<1> DEFINE Others == Calls \ {c}
<1>5. Others \in SUBSET Calls /\ Others \cup {c} = Calls /\ c \in Calls \ Others
  OBVIOUS
<1>6. IsFiniteSet(Others) /\ SumOf(charged, Others) \in Int
  BY <1>4, <1>5, RefsAreFinite
<1>7. \A d \in Others : charged'[d] = charged[d]
  BY <1>4
<1> HIDE DEF Others
<1>8. SumOf(charged, Calls) = SumOf(charged, Others) + charged[c]
  BY <1>4, <1>5, SumGrows
<1>9. SumOf(charged', Calls) = SumOf(charged', Others) + charged'[c]
  BY <1>4, <1>5, SumGrows
<1>10. SumOf(charged', Others) = SumOf(charged, Others)
  BY <1>6, <1>7, SumSame
<1>11. SumOf(charged, Others) = Recorded
  BY <1>1, <1>3, <1>6, <1>8
<1> QED
  BY <1>9, <1>10, <1>11

\* Every step of a request that runs alone keeps the accounts.
LEMMA CallAccounts ==
    ASSUME SerialInductive, SerialInductive', Accounts,
           NEW c \in Calls, CallStep(c)
    PROVE  Accounts'
<1>1. \A d \in Calls \ {c} : pc'[d] = pc[d] /\ charged'[d] = charged[d]
  BY DEF CallStep, GetQuote, FindBySession, Charge, Create, ReadRow,
      WriteRow, Goto, SerialInductive, TypeOK
<1>2. ASSUME GetQuote(c) \/ FindBySession(c)
      PROVE  Accounts'
  <2>1. charged' = charged /\ Recorded' = Recorded
    BY <1>2 DEF GetQuote, FindBySession, Recorded
  <2>2. /\ pc[c] \in {"idle", "find"}
        /\ pc'[c] \in {"find", "charge", "chargeMissing", "done"}
    BY <1>2 DEF GetQuote, FindBySession, Goto, SerialInductive, TypeOK
  <2> QED
    BY <1>1, <2>1, <2>2 DEF Accounts, Unrecorded
<1>3. ASSUME Running(c), NEW d \in Calls, d # c
      PROVE  pc[d] \notin Unrecorded
  BY <1>3 DEF SerialInductive, OneAtATime, Running, Unrecorded
<1>4. ASSUME Charge(c)
      PROVE  Accounts'
  <2>1. SumOf(charged', Calls) = Recorded + charged'[c]
    BY <1>4, ChargeAccounts
  <2>2. Recorded' = Recorded /\ Running(c) /\ pc'[c] \in {"create", "read"}
    BY <1>4 DEF Charge, Recorded, Running, Goto, SerialInductive, TypeOK
  <2> QED
    BY <1>1, <1>3, <2>1, <2>2 DEF Accounts, Unrecorded
<1>5. ASSUME ReadRow(c)
      PROVE  Accounts'
  <2>1. /\ charged' = charged /\ Recorded' = Recorded
        /\ pc[c] = "read" /\ pc'[c] = "write"
    BY <1>5 DEF ReadRow, Recorded, Goto, SerialInductive, TypeOK
  <2> QED
    BY <1>1, <2>1 DEF Accounts, Unrecorded
<1>6. ASSUME Create(c) \/ WriteRow(c)
      PROVE  Accounts'
  <2>1. /\ charged' = charged /\ Running(c) /\ pc[c] \in Unrecorded
        /\ pc'[c] = "done"
    BY <1>6 DEF Create, WriteRow, Running, Goto, SerialInductive, TypeOK,
        Unrecorded
  <2>2. Recorded' = Recorded + charged[c]
    BY <1>6, RecordGrows
  <2>3. SumOf(charged, Calls) = Recorded + charged[c]
    BY <2>1 DEF Accounts
  <2>4. \A d \in Calls : pc'[d] \notin Unrecorded
    BY <1>1, <1>3, <2>1 DEF Unrecorded
  <2> QED
    BY <1>1, <2>1, <2>2, <2>3, <2>4 DEF Accounts, Unrecorded
<1> QED
  BY <1>2, <1>4, <1>5, <1>6 DEF CallStep

\* Every step keeps the accounts, as long as nothing disturbs them.
LEMMA AccountsSteps == AccountsInductive /\ [Next]_vars => AccountsInductive'
<1> SUFFICES ASSUME AccountsInductive, [Next]_vars
             PROVE  AccountsInductive'
  OBVIOUS
<1>1. PaymentsInductive'
  BY InductiveSteps DEF AccountsInductive
<1>2. ASSUME ~disturbed'
      PROVE  Accounts'
  <2>1. ~disturbed /\ [Step /\ OneAtATime']_vars
    BY <1>2, Undisturbed
  <2>2. SerialInductive /\ Accounts
    BY <2>1 DEF AccountsInductive, PaymentsInductive
  <2>3. SerialInductive'
    BY <1>1, <1>2 DEF PaymentsInductive
  <2>4. ASSUME UNCHANGED vars \/ HourPasses
        PROVE  Accounts'
    BY <2>2, <2>4 DEF Accounts, Recorded, vars, HourPasses
  <2> QED
    BY <2>1, <2>2, <2>3, <2>4, CallAccounts DEF Step
<1> QED
  BY <1>1, <1>2 DEF AccountsInductive

\* What the accounts say of the total.
LEMMA AccountsCover == AccountsInductive => NeverOvercharged
<1> SUFFICES ASSUME AccountsInductive, ~disturbed
             PROVE  SumOf(charged, Calls) <= due
  BY DEF NeverOvercharged, SumCharged, SumOf
<1>1. SerialInductive /\ Accounts
  BY DEF AccountsInductive, PaymentsInductive
<1>2. CASE \E c \in Calls : pc[c] \in Unrecorded
  <2>1. PICK c \in Calls : pc[c] \in Unrecorded
    BY <1>2
  <2>2. SumOf(charged, Calls) = Recorded + charged[c]
    BY <1>1, <2>1 DEF Accounts
  <2> QED
    BY <1>1, <2>1, <2>2, CallTypes DEF CallKnows, Unrecorded, Recorded
<1>3. CASE \A c \in Calls : pc[c] \notin Unrecorded
  <2>1. SumOf(charged, Calls) = Recorded
    BY <1>1, <1>3 DEF Accounts
  <2> QED
    BY <1>1, <2>1, PaymentsAssumption
    DEF SerialInductive, TypeOK, Recorded
<1> QED
  BY <1>2, <1>3

\* The driver never pays more than the stay costs, until his requests overlap
\* or one fails.
THEOREM NeverOverchargedHolds == Spec => []NeverOvercharged
  BY InitAccounts, AccountsSteps, AccountsCover, PTL DEF Spec

=============================================================================
