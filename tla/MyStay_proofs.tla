---------------------------- MODULE MyStay_proofs ----------------------------
(* Proofs about MyStay, for any number of requests and of refreshes, any     *)
(* times and any length of an hour: what is announced has been done, for     *)
(* good or until an entry undoes it, and the refresh that is begun with the  *)
(* announcement cannot miss it; and nobody pays twice without one of four    *)
(* known reasons.                                                            *)
EXTENDS MyStay, SequenceTheorems, TLAPS

-----------------------------------------------------------------------------
(* The rows. *)

\* What an operation has done, for good. An entry may undo a cancellation.
Effective(op) ==
    /\ op = "entry" => session.state # "none"
    /\ op = "cancel" => status \notin Live \/ undone
    /\ op = "pay" => paid > 0
    /\ op = "exit" => session.state = "COMPLETED"

\* What a handler may rely on after each of its statements, and the page after
\* its answer.
Knows(k) ==
    /\ k.time <= now
    /\ k.step = "done" => k.op \in Operations /\ Effective(k.op)
    /\ k.step = "find" => k.op = "pay" /\ k.due > 0
    /\ k.step = "charge" => k.op = "pay" /\ k.due > k.seen
    /\ k.step \in Charged => k.op = "pay" /\ k.due > 0
    /\ k.step \in {"payment", "again", "complete"} =>
          session.state # "none" /\ session.entryAt <= k.time
    /\ k.step = "close" => session.state = "COMPLETED"

\* What is answered, and what is announced, has been done. A payment costs
\* something, since no stay ends before it began.
DoneIsEffective ==
    /\ session.entryAt <= now
    /\ session.state = "COMPLETED" => session.entryAt <= session.exitAt
    /\ \A c \in Calls : Knows(call[c])
    /\ \A op \in announced : Effective(op)

-----------------------------------------------------------------------------
(* The lists. *)

Received == [status : Statuses \cup {None}, session : States \cup {None},
             paid : BOOLEAN \cup {None}, newest : BOOLEAN]

\* A list that has come shows what has been announced and not been undone.
ShowsSoFar(lists, op) ==
    /\ op = "entry" => lists.session = None \/ lists.session # "none"
    /\ op = "cancel" =>
          lists.status = None \/ lists.status \notin Live \/ undone
    /\ op = "pay" => lists.paid = None \/ lists.paid = TRUE
    /\ op = "exit" => lists.session = None \/ lists.session = "COMPLETED"

ShowsOrUndone(lists, op) == Shows(lists, op) \/ (op = "cancel" /\ undone)

\* The refresh begun last asked for its lists after all that was announced;
\* once it is over, the page shows it or knows better.
ListsKeepUp ==
    /\ refreshing \in Seq(Received)
    /\ \A i \in DOMAIN refreshing :
          refreshing[i].newest => /\ i = Len(refreshing)
                                  /\ \A op \in announced :
                                        ShowsSoFar(refreshing[i], op)
    /\ open /\ ~stale /\ data # None
          /\ (\A i \in DOMAIN refreshing : ~refreshing[i].newest) =>
       \A op \in announced : ShowsOrUndone(data, op)

StayInductive == TypeOK /\ DoneIsEffective /\ ListsKeepUp

-----------------------------------------------------------------------------
(* The handlers and the clock. *)

\* The bounds, and what null is not.
LEMMA StayConstants ==
    /\ MaxTime \in Nat /\ QrTtl \in Nat /\ Hour \in Nat \ {0}
    /\ MaxEvents \in Nat /\ MaxCalls \in Nat /\ None \notin Nat
  BY MyStayAssumption

\* Every stay costs something.
LEMMA PriceIsPositive ==
    ASSUME NEW m \in Nat, NEW n \in Nat, m <= n
    PROVE  Price(m, n) \in Nat /\ Price(m, n) > 0
<1>1. n - m + Hour - 1 \in Nat /\ Hour \in Nat \ {0}
  BY StayConstants
<1>2. (n - m + Hour - 1) \div Hour \in Nat
  BY <1>1
<1> QED
  BY <1>2 DEF Price

\* The fields of a request, and of a session.
CallRecords ==
    [op : Operations \cup {None}, at : {"card", "page", "gone"},
     step : Steps, token : Nat, time : Moments, row : Live \cup {None},
     due : Nat, seen : Nat]

Sessions == [state : States, entryAt : Moments, exitAt : Moments]

Doubts == {"both", "broke", "left", "failed"}

\* What may be in doubt, from the types.
LEMMA Doubtful ==
    ASSUME StayInductive
    PROVE  doubts \subseteq Doubts
  BY DEF StayInductive, TypeOK, Doubts

\* What is bounded stays within its bound.
LEMMA EventsKeep ==
    ASSUME StayInductive, Event \/ UNCHANGED events
    PROVE  events' \in 0..MaxEvents
  BY StayConstants DEF StayInductive, TypeOK, Event

\* So is what may go wrong.
LEMMA MishapsKeep ==
    ASSUME StayInductive, NEW c, Mishap(c)
    PROVE  events' \in 0..MaxEvents
  BY EventsKeep DEF Mishap

\* Lists that were up to date are so when more has been undone.
LEMMA ListsStay ==
    ASSUME StayInductive, undone => undone',
           UNCHANGED <<refreshing, announced, open, stale, data>>
    PROVE  ListsKeepUp'
<1>1. \A lists, op :
         /\ ShowsSoFar(lists, op) => ShowsSoFar(lists, op)'
         /\ ShowsOrUndone(lists, op) => ShowsOrUndone(lists, op)'
  BY DEF ShowsSoFar, ShowsOrUndone, Shows
<1> HIDE DEF ShowsSoFar, ShowsOrUndone
<1> QED
  BY <1>1 DEF StayInductive, ListsKeepUp

\* What no statement takes back.
RowsGoOn ==
    /\ undone => undone'
    /\ status \notin Live => status' \notin Live \/ undone'
    /\ paid > 0 => paid' > 0
    /\ session.state # "none" =>
          session'.state # "none" /\ session'.entryAt = session.entryAt
    /\ session.state = "COMPLETED" => session'.state = "COMPLETED"

\* So what was done, and relied upon, remains.
LEMMA KnowledgeStays ==
    ASSUME StayInductive, RowsGoOn, now' = now \/ now' = now + 1
    PROVE  /\ \A op : Effective(op) => Effective(op)'
           /\ \A k \in CallRecords : Knows(k) => Knows(k)'
<1>1. now \in Nat /\ now <= now' /\ now' \in Nat
  BY DEF StayInductive, TypeOK, Moments
<1>2. \A op : Effective(op) => Effective(op)'
  BY DEF RowsGoOn, Effective
<1>3. \A k \in CallRecords : k.time \in Nat
  BY DEF CallRecords, Moments
<1> HIDE DEF Effective
<1> QED
  BY <1>1, <1>2, <1>3 DEF RowsGoOn, Knows

\* A handler's statement: the rows go on, and the record it leaves knows them.
LEMMA StatementKeeps ==
    ASSUME StayInductive, NEW c \in Calls, NEW k \in CallRecords,
           call' = [call EXCEPT ![c] = k],
           UNCHANGED <<now, page, busy>>, RowsGoOn, Knows(k)',
           status' \in Statuses, session' \in Sessions,
           paid' \in Nat, charged' \in Nat,
           sweeping' \in BOOLEAN, undone' \in BOOLEAN,
           doubts' \subseteq Doubts, events' \in 0..MaxEvents,
           session'.entryAt <= now,
           session'.state = "COMPLETED" => session'.entryAt <= session'.exitAt
    PROVE  StayInductive'
<1>1. /\ call \in [Calls -> CallRecords]
      /\ call' \in [Calls -> CallRecords] /\ call'[c] = k
      /\ \A d \in Calls : d # c => call'[d] = call[d]
  BY DEF StayInductive, TypeOK, CallRecords
<1>2. ListsKeepUp'
  BY ListsStay DEF page, RowsGoOn
<1>3. TypeOK'
  BY <1>1 DEF StayInductive, TypeOK, CallRecords, Sessions, page, Doubts
<1>4. DoneIsEffective'
  <2>1. ASSUME NEW d \in Calls
        PROVE  Knows(call[d])'
    <3>1. \A r : r = call'[d] => (Knows(r)' => Knows(call[d])')
      BY DEF Knows
    <3>2. d # c => Knows(call[d]) /\ call[d] \in CallRecords
      BY <1>1 DEF StayInductive, DoneIsEffective
    <3> QED
      BY <1>1, <3>1, <3>2, KnowledgeStays
  <2>2. \A op \in announced' : Effective(op)'
    BY KnowledgeStays DEF StayInductive, DoneIsEffective, page
  <2> QED
    BY <2>1, <2>2 DEF DoneIsEffective
<1> QED
  BY <1>2, <1>3, <1>4 DEF StayInductive

\* The records that an answer and a step forward leave.
LEMMA AnswerRecord ==
    ASSUME StayInductive, NEW c \in Calls, NEW answer \in {"done", "refused"},
           Answer(c, answer)
    PROVE  \E k \in CallRecords :
              /\ call' = [call EXCEPT ![c] = k]
              /\ k.op = call[c].op /\ k.at = call[c].at /\ k.step = answer
              /\ k.time = 0
<1> DEFINE k == [NoCall EXCEPT !.op = call[c].op, !.at = call[c].at,
                               !.step = answer]
<1>1. call[c] \in CallRecords
  BY DEF StayInductive, TypeOK, CallRecords
<1>2. NoCall \in CallRecords /\ NoCall.time = 0
  BY StayConstants DEF NoCall, CallRecords, Steps, Moments
<1>3. k \in CallRecords /\ k.op = call[c].op /\ k.at = call[c].at
      /\ k.step = answer /\ k.time = 0
  BY <1>1, <1>2 DEF CallRecords, Steps
<1>4. call' = [call EXCEPT ![c] = k]
  BY DEF Answer
<1> HIDE DEF k
<1> QED
  BY <1>3, <1>4

\* A statement that only moves on leaves the rest of its record.
LEMMA StepRecord ==
    ASSUME StayInductive, NEW c \in Calls, NEW step \in Steps, Goto(c, step)
    PROVE  \E k \in CallRecords :
              /\ call' = [call EXCEPT ![c] = k]
              /\ k.op = call[c].op /\ k.at = call[c].at /\ k.step = step
              /\ k.time = call[c].time
<1> DEFINE k == [call[c] EXCEPT !.step = step]
<1>1. call[c] \in CallRecords
  BY DEF StayInductive, TypeOK, CallRecords
<1>2. k \in CallRecords /\ k.op = call[c].op /\ k.at = call[c].at
      /\ k.step = step /\ k.time = call[c].time
  BY <1>1 DEF CallRecords
<1>3. call' = [call EXCEPT ![c] = k]
  BY DEF Goto
<1> HIDE DEF k
<1> QED
  BY <1>2, <1>3

\* What every handler's statement finds.
LEMMA AtStatement ==
    ASSUME StayInductive, NEW c \in Calls
    PROVE  /\ call[c] \in CallRecords /\ Knows(call[c])
           /\ now \in Moments /\ now \in Nat /\ paid \in Nat /\ charged \in Nat
           /\ status \in Statuses /\ session \in Sessions
           /\ sweeping \in BOOLEAN /\ undone \in BOOLEAN
           /\ doubts \subseteq Doubts /\ events \in 0..MaxEvents
           /\ session.entryAt \in Nat /\ session.exitAt \in Nat
           /\ session.entryAt <= now
           /\ session.state = "COMPLETED" => session.entryAt <= session.exitAt
           /\ call[c].due \in Nat /\ call[c].seen \in Nat
           /\ call[c].time \in Nat /\ call[c].time \in Moments
           /\ 0 <= now
  BY DEF StayInductive, TypeOK, CallRecords, Moments, Sessions, Doubts,
     DoneIsEffective

\* A refusal knows nothing, and need not.
LEMMA RefusalKeeps ==
    ASSUME StayInductive, NEW c \in Calls, Answer(c, "refused"),
           UNCHANGED <<now, rows, page, busy>>,
           doubts' \subseteq Doubts, events' \in 0..MaxEvents
    PROVE  StayInductive'
<1>1. PICK k \in CallRecords : /\ call' = [call EXCEPT ![c] = k]
                               /\ k.time = 0 /\ k.step = "refused"
  BY AnswerRecord
<1>2. RowsGoOn
  BY DEF RowsGoOn, rows
<1>3. Knows(k)'
  BY <1>1, AtStatement DEF Knows, Charged
<1> QED
  BY <1>1, <1>2, <1>3, StatementKeeps, AtStatement DEF rows

\* Time only grows, and the cron writes when it will.
LEMMA TimeKeeps ==
    ASSUME StayInductive, Tick \/ SweepFinds \/ SweepExpires
    PROVE  StayInductive'
<1> USE StayConstants
<1>1. /\ UNCHANGED <<page, busy, call, doubts, events, session, paid, charged,
                     undone>>
      /\ now' = now \/ now' = now + 1
  BY DEF Tick, SweepFinds, SweepExpires, rows
<1>2. ListsKeepUp'
  BY <1>1, ListsStay DEF page
<1>3. status' \in Statuses /\ sweeping' \in BOOLEAN /\ now' \in Moments
      /\ (status \notin Live => status' \notin Live)
  <2>1. CASE Tick
    BY <2>1 DEF Tick, rows, StayInductive, TypeOK, Moments
  <2>2. CASE SweepFinds \/ SweepExpires
    BY <2>2 DEF SweepFinds, SweepExpires, StayInductive, TypeOK, Statuses,
       Live
  <2> QED
    BY <2>1, <2>2
<1>4. TypeOK'
  BY <1>1, <1>3 DEF StayInductive, TypeOK, page
<1>5. DoneIsEffective'
  <2>1. RowsGoOn
    BY <1>1, <1>3 DEF RowsGoOn
  <2>2. \A c \in Calls : call[c] \in CallRecords /\ call'[c] = call[c]
    BY <1>1 DEF StayInductive, TypeOK, CallRecords
  <2>3. now \in Nat /\ session.entryAt \in Nat /\ session.entryAt <= now'
    BY <1>1 DEF StayInductive, TypeOK, Moments, DoneIsEffective
  <2>4. ASSUME NEW c \in Calls
        PROVE  Knows(call[c])'
    <3>1. \A r : r = call'[c] => (Knows(r)' => Knows(call[c])')
      BY DEF Knows
    <3> QED
      BY <1>1, <2>1, <2>2, <3>1, KnowledgeStays
      DEF StayInductive, DoneIsEffective
  <2>5. \A op \in announced' : Effective(op)'
    BY <1>1, <2>1, KnowledgeStays DEF StayInductive, DoneIsEffective, page
  <2> QED
    BY <1>1, <2>3, <2>4, <2>5 DEF StayInductive, DoneIsEffective
<1> QED
  BY <1>2, <1>4, <1>5 DEF StayInductive

\* A statement that only reads.
LEMMA ReadingKeeps ==
    ASSUME StayInductive, NEW c \in Calls, NEW k \in CallRecords,
           call' = [call EXCEPT ![c] = k], Knows(k),
           UNCHANGED <<now, rows, page, busy, doubts, events>>
    PROVE  StayInductive'
<1>1. RowsGoOn
  BY DEF RowsGoOn, rows
<1>2. Knows(k)'
  BY <1>1, KnowledgeStays
<1> QED
  BY <1>1, <1>2, StatementKeeps, AtStatement DEF rows

\* RegisterEntry.
LEMMA EntryKeeps ==
    ASSUME StayInductive, NEW c \in Calls,
           \/ EntryReads(c) \/ EntryFindsSession(c)
           \/ EntryConfirms(c) \/ EntryCreates(c)
    PROVE  StayInductive'
<1>1. UNCHANGED <<now, page, busy, doubts, events>> /\ call[c].op = "entry"
  BY DEF EntryReads, EntryFindsSession, EntryConfirms, EntryCreates, Runs
<1>2. CASE Answer(c, "refused") /\ UNCHANGED rows
  BY <1>1, <1>2, RefusalKeeps, AtStatement
<1>3. CASE EntryReads(c) /\ ~Answer(c, "refused")
  <2>1. UNCHANGED rows /\ status \in Live
        /\ call' = [call EXCEPT ![c].step = "session", ![c].token = 0,
                                ![c].time = now, ![c].row = status]
    BY <1>3 DEF EntryReads
  <2>2. \E k \in CallRecords : /\ call' = [call EXCEPT ![c] = k]
                               /\ k.step = "session" /\ k.time = now
    <3> DEFINE r == [call[c] EXCEPT !.step = "session", !.token = 0,
                                    !.time = now, !.row = status]
    <3>1. r \in CallRecords /\ r.step = "session" /\ r.time = now
      BY <2>1, AtStatement DEF CallRecords, Steps
    <3>2. call' = [call EXCEPT ![c] = r]
      BY <2>1
    <3> HIDE DEF r
    <3> QED
      BY <3>1, <3>2
  <2>3. PICK k \in CallRecords : /\ call' = [call EXCEPT ![c] = k]
                                 /\ k.step = "session" /\ k.time = now
    BY <2>2
  <2>4. Knows(k)
    BY <2>3, AtStatement DEF Knows, Charged
  <2> QED
    BY <1>1, <2>1, <2>3, <2>4, ReadingKeeps
<1>4. CASE EntryFindsSession(c) /\ ~Answer(c, "refused")
  <2>1. PICK step \in {"confirm", "create"} : Goto(c, step)
    BY <1>4 DEF EntryFindsSession
  <2>2. PICK k \in CallRecords :
          /\ call' = [call EXCEPT ![c] = k]
          /\ k.step = step /\ k.time = call[c].time
    BY <2>1, StepRecord DEF Steps
  <2>3. Knows(k)
    BY <2>2, AtStatement DEF Knows, Charged
  <2> QED
    BY <1>1, <1>4, <2>2, <2>3, ReadingKeeps DEF EntryFindsSession
<1>5. CASE EntryConfirms(c)
  <2>1. /\ status' = "CONFIRMED" /\ undone' = (undone \/ status \notin Live)
        /\ UNCHANGED <<session, paid, sweeping, charged>>
        /\ Goto(c, "create")
    BY <1>5 DEF EntryConfirms
  <2>2. PICK k \in CallRecords :
          /\ call' = [call EXCEPT ![c] = k]
          /\ k.step = "create" /\ k.time = call[c].time
    BY <2>1, StepRecord DEF Steps
  <2>3. RowsGoOn
    BY <2>1 DEF RowsGoOn
  <2>4. Knows(k)'
    BY <1>1, <2>2, AtStatement DEF Knows, Charged, page
  <2>5. /\ status' \in Statuses /\ undone' \in BOOLEAN
    BY <2>1, AtStatement DEF Statuses
  <2>6. /\ session' \in Sessions /\ paid' \in Nat /\ charged' \in Nat
        /\ sweeping' \in BOOLEAN /\ session'.entryAt <= now
        /\ session'.state = "COMPLETED" => session'.entryAt <= session'.exitAt
    BY <2>1, AtStatement
  <2> QED
    BY <1>1, <2>2, <2>3, <2>4, <2>5, <2>6, AtStatement, StatementKeeps
<1>6. CASE EntryCreates(c) /\ session.state = "none"
  <2>1. /\ session' = [state |-> "ACTIVE", entryAt |-> call[c].time,
                       exitAt |-> call[c].time]
        /\ UNCHANGED <<status, paid, sweeping, charged, undone>>
        /\ Answer(c, "done")
    BY <1>6 DEF EntryCreates
  <2>2. PICK k \in CallRecords :
          /\ call' = [call EXCEPT ![c] = k]
          /\ k.step = "done" /\ k.time = 0 /\ k.op = "entry"
    BY <1>1, <2>1, AnswerRecord
  <2>3. call[c].time <= now
    BY AtStatement DEF Knows
  <2>4. session' \in Sessions /\ session'.entryAt <= now
        /\ session'.state = "ACTIVE" /\ RowsGoOn
    BY <1>6, <2>1, <2>3, AtStatement DEF RowsGoOn, Sessions, States
  <2>5. Knows(k)'
    BY <1>1, <2>2, <2>4, AtStatement
    DEF Knows, Charged, Effective, Operations
  <2>6. /\ status' \in Statuses /\ paid' \in Nat /\ charged' \in Nat
        /\ sweeping' \in BOOLEAN /\ undone' \in BOOLEAN
    BY <2>1, AtStatement
  <2> QED
    BY <1>1, <2>2, <2>4, <2>5, <2>6, AtStatement, StatementKeeps
<1> QED
  BY <1>2, <1>3, <1>4, <1>5, <1>6 DEF EntryReads, EntryFindsSession,
     EntryCreates, rows

\* CancelReservation.
LEMMA CancelKeeps ==
    ASSUME StayInductive, NEW c \in Calls, CancelReads(c) \/ CancelWrites(c)
    PROVE  StayInductive'
<1>1. UNCHANGED <<now, page, busy, doubts, events>> /\ call[c].op = "cancel"
  BY DEF CancelReads, CancelWrites, Runs
<1>2. CASE Answer(c, "refused") /\ UNCHANGED rows
  BY <1>1, <1>2, RefusalKeeps, AtStatement
<1>3. CASE CancelReads(c) /\ ~Answer(c, "refused")
  <2>1. Goto(c, "cancel") /\ UNCHANGED rows
    BY <1>3 DEF CancelReads
  <2>2. PICK k \in CallRecords :
          /\ call' = [call EXCEPT ![c] = k]
          /\ k.step = "cancel" /\ k.time = call[c].time
    BY <2>1, StepRecord DEF Steps
  <2>3. Knows(k)
    BY <2>2, AtStatement DEF Knows, Charged
  <2> QED
    BY <1>1, <2>1, <2>2, <2>3, ReadingKeeps
<1>4. CASE CancelWrites(c)
  <2>1. /\ status' = "CANCELLED" /\ Answer(c, "done")
        /\ UNCHANGED <<session, paid, sweeping, charged, undone>>
    BY <1>4 DEF CancelWrites
  <2>2. PICK k \in CallRecords :
          /\ call' = [call EXCEPT ![c] = k]
          /\ k.step = "done" /\ k.time = 0 /\ k.op = "cancel"
    BY <1>1, <2>1, AnswerRecord
  <2>3. RowsGoOn /\ status' \in Statuses /\ status' \notin Live
    BY <2>1 DEF RowsGoOn, Live, Statuses
  <2>4. Knows(k)'
    BY <1>1, <2>2, <2>3, AtStatement
    DEF Knows, Charged, Effective, Operations
  <2>5. /\ session' \in Sessions /\ paid' \in Nat /\ charged' \in Nat
        /\ sweeping' \in BOOLEAN /\ undone' \in BOOLEAN
        /\ session'.entryAt <= now
        /\ session'.state = "COMPLETED" => session'.entryAt <= session'.exitAt
    BY <2>1, AtStatement
  <2> QED
    BY <1>1, <2>2, <2>3, <2>4, <2>5, AtStatement, StatementKeeps
<1> QED
  BY <1>2, <1>3, <1>4 DEF CancelReads

\* RegisterPayment: what is charged is more than nothing.
LEMMA PaymentKeeps ==
    ASSUME StayInductive, NEW c \in Calls,
           \/ PaymentQuoted(c) \/ PaymentFinds(c) \/ PaymentCharges(c)
           \/ PaymentInserts(c) \/ TopUpReads(c) \/ TopUpWrites(c)
    PROVE  StayInductive'
<1>1. UNCHANGED <<now, page, busy, doubts, events>> /\ call[c].op = "pay"
  BY DEF PaymentQuoted, PaymentFinds, PaymentCharges, PaymentInserts,
     TopUpReads, TopUpWrites, Runs
<1>2. CASE PaymentQuoted(c)
  <2>1. GetSessionQuote \in Nat /\ GetSessionQuote > 0
    BY AtStatement, PriceIsPositive DEF GetSessionQuote
  <2>2. /\ call' = [call EXCEPT ![c].step = "find", ![c].due = GetSessionQuote]
        /\ UNCHANGED rows
    BY <1>2 DEF PaymentQuoted
  <2> HIDE DEF GetSessionQuote
  <2>3. \E k \in CallRecords :
           /\ call' = [call EXCEPT ![c] = k] /\ k.step = "find"
           /\ k.op = "pay" /\ k.time = call[c].time /\ k.due > 0
    <3> DEFINE r == [call[c] EXCEPT !.step = "find", !.due = GetSessionQuote]
    <3>1. /\ r \in CallRecords /\ r.step = "find" /\ r.op = call[c].op
          /\ r.time = call[c].time /\ r.due = GetSessionQuote
      BY <2>1, AtStatement DEF CallRecords, Steps
    <3>2. call' = [call EXCEPT ![c] = r]
      BY <2>2
    <3> HIDE DEF r
    <3> QED
      BY <1>1, <2>1, <3>1, <3>2
  <2>4. PICK k \in CallRecords :
           /\ call' = [call EXCEPT ![c] = k] /\ k.step = "find"
           /\ k.op = "pay" /\ k.time = call[c].time /\ k.due > 0
    BY <2>3
  <2>5. Knows(k)
    BY <2>4, AtStatement DEF Knows, Charged
  <2> QED
    BY <1>1, <2>2, <2>4, <2>5, ReadingKeeps
<1>3. CASE PaymentFinds(c) /\ paid > 0 /\ call[c].due <= paid
  <2>1. Answer(c, "done") /\ UNCHANGED rows
    BY <1>3 DEF PaymentFinds
  <2>2. PICK k \in CallRecords :
          /\ call' = [call EXCEPT ![c] = k]
          /\ k.step = "done" /\ k.time = 0 /\ k.op = "pay"
    BY <1>1, <2>1, AnswerRecord
  <2>3. Knows(k)
    BY <1>3, <2>2, AtStatement DEF Knows, Charged, Effective, Operations
  <2> QED
    BY <1>1, <2>1, <2>2, <2>3, ReadingKeeps
<1>4. CASE PaymentFinds(c) /\ ~(paid > 0 /\ call[c].due <= paid)
  <2>1. /\ call' = [call EXCEPT ![c].step = "charge", ![c].seen = paid]
        /\ UNCHANGED rows
    BY <1>4 DEF PaymentFinds
  <2>2. call[c].due > paid
    BY <1>4, AtStatement DEF Knows, PaymentFinds, Runs
  <2>3. \E k \in CallRecords :
           /\ call' = [call EXCEPT ![c] = k] /\ k.step = "charge"
           /\ k.op = "pay" /\ k.time = call[c].time /\ k.due > k.seen
    <3> DEFINE r == [call[c] EXCEPT !.step = "charge", !.seen = paid]
    <3>1. /\ r \in CallRecords /\ r.step = "charge" /\ r.op = call[c].op
          /\ r.time = call[c].time /\ r.due = call[c].due /\ r.seen = paid
      BY AtStatement DEF CallRecords, Steps
    <3>2. call' = [call EXCEPT ![c] = r]
      BY <2>1
    <3> HIDE DEF r
    <3> QED
      BY <1>1, <2>2, <3>1, <3>2
  <2>4. PICK k \in CallRecords :
           /\ call' = [call EXCEPT ![c] = k] /\ k.step = "charge"
           /\ k.op = "pay" /\ k.time = call[c].time /\ k.due > k.seen
    BY <2>3
  <2>5. Knows(k)
    BY <2>4, AtStatement DEF Knows, Charged
  <2> QED
    BY <1>1, <2>1, <2>4, <2>5, ReadingKeeps
<1>5. CASE PaymentCharges(c)
  <2> DEFINE amount == call[c].due - call[c].seen
             next == IF call[c].seen = 0 THEN "insert" ELSE "read"
  <2>1. /\ charged' = charged + amount
        /\ call' = [call EXCEPT ![c].step = next, ![c].due = amount,
                                ![c].seen = 0]
        /\ UNCHANGED <<status, session, paid, sweeping, undone>>
    BY <1>5 DEF PaymentCharges
  <2>2. amount \in Nat /\ amount > 0 /\ next \in {"insert", "read"}
    BY <1>5, AtStatement DEF Knows, PaymentCharges, Runs
  <2> HIDE DEF amount, next
  <2>3. \E k \in CallRecords :
           /\ call' = [call EXCEPT ![c] = k] /\ k.step \in {"insert", "read"}
           /\ k.op = "pay" /\ k.time = call[c].time /\ k.due > 0
    <3> DEFINE r == [call[c] EXCEPT !.step = next, !.due = amount, !.seen = 0]
    <3>1. /\ r \in CallRecords /\ r.step = next /\ r.op = call[c].op
          /\ r.time = call[c].time /\ r.due = amount
      BY <2>2, AtStatement DEF CallRecords, Steps
    <3>2. call' = [call EXCEPT ![c] = r]
      BY <2>1
    <3> HIDE DEF r
    <3> QED
      BY <1>1, <2>2, <3>1, <3>2
  <2>4. PICK k \in CallRecords :
           /\ call' = [call EXCEPT ![c] = k] /\ k.step \in {"insert", "read"}
           /\ k.op = "pay" /\ k.time = call[c].time /\ k.due > 0
    BY <2>3
  <2>5. RowsGoOn
    BY <2>1 DEF RowsGoOn
  <2>6. Knows(k)'
    BY <1>1, <2>4, AtStatement DEF Knows, Charged
  <2>7. /\ status' \in Statuses /\ session' \in Sessions /\ paid' \in Nat
        /\ charged' \in Nat /\ sweeping' \in BOOLEAN /\ undone' \in BOOLEAN
        /\ session'.entryAt <= now
        /\ session'.state = "COMPLETED" => session'.entryAt <= session'.exitAt
    BY <2>1, <2>2, AtStatement
  <2> QED
    BY <1>1, <2>4, <2>5, <2>6, <2>7, AtStatement, StatementKeeps
<1>6. CASE PaymentInserts(c) /\ paid # 0
  <2>1. Answer(c, "refused") /\ UNCHANGED rows
    BY <1>6 DEF PaymentInserts, rows
  <2> QED
    BY <1>1, <2>1, RefusalKeeps, AtStatement
<1>7. CASE (PaymentInserts(c) /\ paid = 0) \/ TopUpWrites(c)
  <2>1. /\ Answer(c, "done")
        /\ UNCHANGED <<status, session, sweeping, charged, undone>>
        /\ paid' = call[c].due \/ paid' = call[c].seen + call[c].due
        /\ call[c].step \in Charged
    BY <1>7 DEF PaymentInserts, TopUpWrites, Runs, Charged
  <2>2. PICK k \in CallRecords :
          /\ call' = [call EXCEPT ![c] = k]
          /\ k.step = "done" /\ k.time = 0 /\ k.op = "pay"
    BY <1>1, <2>1, AnswerRecord
  <2>3. paid' \in Nat /\ paid' > 0
    <3>1. call[c].due > 0
      BY <2>1, AtStatement DEF Knows
    <3> QED
      BY <2>1, <3>1, AtStatement
  <2>4. RowsGoOn
    BY <2>1, <2>3 DEF RowsGoOn
  <2>5. Knows(k)'
    BY <1>1, <2>2, <2>3, AtStatement DEF Knows, Charged, Effective, Operations
  <2>6. /\ status' \in Statuses /\ session' \in Sessions /\ charged' \in Nat
        /\ sweeping' \in BOOLEAN /\ undone' \in BOOLEAN
        /\ session'.entryAt <= now
        /\ session'.state = "COMPLETED" => session'.entryAt <= session'.exitAt
    BY <2>1, AtStatement
  <2> QED
    BY <1>1, <2>2, <2>3, <2>4, <2>5, <2>6, AtStatement, StatementKeeps
<1>8. CASE TopUpReads(c)
  <2>1. /\ call' = [call EXCEPT ![c].step = "update", ![c].seen = paid]
        /\ UNCHANGED rows /\ call[c].step \in Charged
    BY <1>8 DEF TopUpReads, Runs, Charged
  <2>2. \E k \in CallRecords :
           /\ call' = [call EXCEPT ![c] = k] /\ k.step = "update"
           /\ k.op = "pay" /\ k.time = call[c].time /\ k.due > 0
    <3> DEFINE r == [call[c] EXCEPT !.step = "update", !.seen = paid]
    <3>1. /\ r \in CallRecords /\ r.step = "update" /\ r.op = call[c].op
          /\ r.time = call[c].time /\ r.due = call[c].due
      BY AtStatement DEF CallRecords, Steps
    <3>2. call' = [call EXCEPT ![c] = r]
      BY <2>1
    <3>3. call[c].due > 0
      BY <2>1, AtStatement DEF Knows
    <3> HIDE DEF r
    <3> QED
      BY <1>1, <3>1, <3>2, <3>3
  <2>3. PICK k \in CallRecords :
           /\ call' = [call EXCEPT ![c] = k] /\ k.step = "update"
           /\ k.op = "pay" /\ k.time = call[c].time /\ k.due > 0
    BY <2>2
  <2>4. Knows(k)
    BY <2>3, AtStatement DEF Knows, Charged
  <2> QED
    BY <1>1, <2>1, <2>3, <2>4, ReadingKeeps
<1> QED
  BY <1>2, <1>3, <1>4, <1>5, <1>6, <1>7, <1>8

\* RegisterExit.
LEMMA ExitKeeps ==
    ASSUME StayInductive, NEW c \in Calls,
           \/ ExitReads(c) \/ ExitFindsPayment(c) \/ ExitFindsAgain(c)
           \/ ExitCompletes(c) \/ ExitCloses(c)
    PROVE  StayInductive'
<1>1. UNCHANGED <<now, page, busy, doubts, events>> /\ call[c].op = "exit"
  BY DEF ExitReads, ExitFindsPayment, ExitFindsAgain, ExitCompletes,
     ExitCloses, Runs
<1>2. CASE Answer(c, "refused") /\ UNCHANGED rows
  BY <1>1, <1>2, RefusalKeeps, AtStatement
<1>3. CASE ExitReads(c) /\ ~Answer(c, "refused")
  <2>1. /\ call' = [call EXCEPT ![c].step = "payment", ![c].token = 0,
                                ![c].time = now]
        /\ UNCHANGED rows /\ session.state = "ACTIVE"
    BY <1>3 DEF ExitReads
  <2>2. \E k \in CallRecords : /\ call' = [call EXCEPT ![c] = k]
                               /\ k.step = "payment" /\ k.time = now
    <3> DEFINE r == [call[c] EXCEPT !.step = "payment", !.token = 0,
                                    !.time = now]
    <3>1. r \in CallRecords /\ r.step = "payment" /\ r.time = now
      BY AtStatement DEF CallRecords, Steps
    <3>2. call' = [call EXCEPT ![c] = r]
      BY <2>1
    <3> HIDE DEF r
    <3> QED
      BY <3>1, <3>2
  <2>3. PICK k \in CallRecords : /\ call' = [call EXCEPT ![c] = k]
                                 /\ k.step = "payment" /\ k.time = now
    BY <2>2
  <2>4. Knows(k)
    BY <2>1, <2>3, AtStatement DEF Knows, Charged
  <2> QED
    BY <1>1, <2>1, <2>3, <2>4, ReadingKeeps
<1>4. CASE (ExitFindsPayment(c) \/ ExitFindsAgain(c)) /\ ~Answer(c, "refused")
  <2>1. PICK step \in {"again", "complete"} : Goto(c, step)
    BY <1>4 DEF ExitFindsPayment, ExitFindsAgain
  <2>2. PICK k \in CallRecords :
          /\ call' = [call EXCEPT ![c] = k]
          /\ k.step = step /\ k.time = call[c].time
    BY <2>1, StepRecord DEF Steps
  <2>3. call[c].step \in {"payment", "again"} /\ UNCHANGED rows
    BY <1>4 DEF ExitFindsPayment, ExitFindsAgain, Runs
  <2>4. Knows(k)
    BY <2>2, <2>3, AtStatement DEF Knows, Charged
  <2> QED
    BY <1>1, <2>2, <2>3, <2>4, ReadingKeeps
<1>5. CASE ExitCompletes(c)
  <2>1. /\ session' = [session EXCEPT !.state = "COMPLETED",
                                      !.exitAt = call[c].time]
        /\ UNCHANGED <<status, paid, sweeping, charged, undone>>
        /\ Goto(c, "close") /\ call[c].step = "complete"
    BY <1>5 DEF ExitCompletes, Runs
  <2>2. PICK k \in CallRecords :
          /\ call' = [call EXCEPT ![c] = k]
          /\ k.step = "close" /\ k.time = call[c].time
    BY <2>1, StepRecord DEF Steps
  <2>3. /\ session' \in Sessions /\ session'.state = "COMPLETED"
        /\ session'.entryAt = session.entryAt
        /\ session'.exitAt = call[c].time
    BY <2>1, AtStatement DEF Sessions, States
  <2>4. RowsGoOn
    BY <2>1, <2>3 DEF RowsGoOn
  <2>5. Knows(k)'
    BY <1>1, <2>2, <2>3, AtStatement DEF Knows, Charged
  <2>6. session.entryAt <= call[c].time
    BY <2>1, AtStatement DEF Knows
  <2>7. /\ status' \in Statuses /\ paid' \in Nat /\ charged' \in Nat
        /\ sweeping' \in BOOLEAN /\ undone' \in BOOLEAN
        /\ session'.entryAt <= now
        /\ session'.state = "COMPLETED" => session'.entryAt <= session'.exitAt
    BY <2>1, <2>3, <2>6, AtStatement
  <2> QED
    BY <1>1, <2>2, <2>3, <2>4, <2>5, <2>7, AtStatement, StatementKeeps
<1>6. CASE ExitCloses(c)
  <2>1. /\ status' = "COMPLETED" /\ Answer(c, "done")
        /\ UNCHANGED <<session, paid, sweeping, charged, undone>>
        /\ call[c].step = "close"
    BY <1>6 DEF ExitCloses, Runs
  <2>2. PICK k \in CallRecords :
          /\ call' = [call EXCEPT ![c] = k]
          /\ k.step = "done" /\ k.time = 0 /\ k.op = "exit"
    BY <1>1, <2>1, AnswerRecord
  <2>3. RowsGoOn /\ status' \in Statuses
    BY <2>1 DEF RowsGoOn, Live, Statuses
  <2>4. Knows(k)'
    BY <1>1, <2>1, <2>2, AtStatement DEF Knows, Charged, Effective, Operations
  <2>5. /\ session' \in Sessions /\ paid' \in Nat /\ charged' \in Nat
        /\ sweeping' \in BOOLEAN /\ undone' \in BOOLEAN
        /\ session'.entryAt <= now
        /\ session'.state = "COMPLETED" => session'.entryAt <= session'.exitAt
    BY <2>1, AtStatement
  <2> QED
    BY <1>1, <2>2, <2>3, <2>4, <2>5, AtStatement, StatementKeeps
<1> QED
  BY <1>2, <1>3, <1>4, <1>5, <1>6 DEF ExitReads, ExitFindsPayment,
     ExitFindsAgain

\* A handler says it is done when it is, and undoes no other's work but a
\* cancellation; wherever it stops, nothing it wrote is taken back.
LEMMA HandlerKeeps ==
    ASSUME StayInductive, NEW c \in Calls, Handler(c) \/ Fails(c)
    PROVE  StayInductive'
<1>1. CASE Fails(c)
  <2>1. doubts' \subseteq Doubts
    BY <1>1, AtStatement DEF Fails, Doubts
  <2> QED
    BY <1>1, <2>1, RefusalKeeps, MishapsKeep DEF Fails
<1> QED
  BY <1>1, EntryKeeps, CancelKeeps, PaymentKeeps, ExitKeeps DEF Handler

-----------------------------------------------------------------------------
(* The page. *)

\* A step of the page leaves the rows, and what handlers know of them.
LEMMA PageLeavesRows ==
    ASSUME StayInductive, UNCHANGED <<now, rows>>,
           \A op \in announced' : Effective(op),
           \A c \in Calls :
              \/ /\ call'[c].op = call[c].op /\ call'[c].step = call[c].step
                 /\ call'[c].due = call[c].due /\ call'[c].seen = call[c].seen
                 /\ call'[c].time = call[c].time
              \/ call'[c].step \in {"free", "sent"} /\ call'[c].time = 0
    PROVE  DoneIsEffective'
<1>1. \A op : Effective(op)' <=> Effective(op)
  BY DEF Effective, rows
<1>2. now \in Nat
  BY DEF StayInductive, TypeOK, Moments
<1> HIDE DEF Effective
<1>3. ASSUME NEW c \in Calls
      PROVE  Knows(call[c])'
  <2>1. Knows(call[c]) /\ UNCHANGED <<now, session>>
    BY DEF StayInductive, DoneIsEffective, rows
  <2> QED
    BY <1>1, <1>2, <2>1 DEF Knows, Charged
<1> QED
  BY <1>1, <1>3 DEF StayInductive, DoneIsEffective, rows

\* What is not asked by the page, or not awaited by it, is no news to it.
LEMMA OrphanedKeeps ==
    ASSUME NEW calls \in [Calls -> CallRecords], NEW from,
           NEW to \in {"card", "page", "gone"}
    PROVE  /\ Orphaned(calls, from, to) \in [Calls -> CallRecords]
           /\ \A c \in Calls :
                 /\ Orphaned(calls, from, to)[c].op = calls[c].op
                 /\ Orphaned(calls, from, to)[c].step = calls[c].step
                 /\ Orphaned(calls, from, to)[c].due = calls[c].due
                 /\ Orphaned(calls, from, to)[c].seen = calls[c].seen
                 /\ Orphaned(calls, from, to)[c].time = calls[c].time
  BY DEF Orphaned, CallRecords

\* A refresh that begins is the one that counts from now on.
LEMMA RefreshBegins ==
    ASSUME StayInductive, NEW calls, Refresh(calls)
    PROVE  /\ refreshing' \in Seq(Received)
           /\ DOMAIN refreshing' = 1..Len(refreshing')
           /\ Len(refreshing') \in Nat
           /\ \A i \in DOMAIN refreshing' :
                 refreshing'[i].newest => i = Len(refreshing')
           /\ refreshing'[Len(refreshing')] = NoList
           /\ Len(refreshing') \in DOMAIN refreshing'
<1> DEFINE older == [i \in DOMAIN refreshing |->
                        [refreshing[i] EXCEPT !.newest = FALSE]]
<1>1. refreshing \in Seq(Received) /\ refreshing' = Append(older, NoList)
  BY DEF StayInductive, ListsKeepUp, Refresh
<1>2. DOMAIN refreshing = 1..Len(refreshing) /\ Len(refreshing) \in Nat
      /\ \A i \in DOMAIN refreshing : refreshing[i] \in Received
  BY <1>1
<1>3. \A i \in DOMAIN refreshing :
         older[i] \in Received /\ older[i].newest = FALSE
  BY <1>2 DEF Received
<1>4. older \in [1..Len(refreshing) -> Received]
  BY <1>2, <1>3
<1> HIDE DEF older
<1>5. older \in Seq(Received)
  BY <1>2, <1>4, SeqDef
<1>6. Len(older) = Len(refreshing)
  BY <1>2, <1>4, <1>5
<1>7. NoList \in Received
  BY DEF NoList, Received
<1> HIDE DEF NoList, Received
<1>8. /\ refreshing' \in Seq(Received) /\ Len(refreshing') = Len(older) + 1
      /\ DOMAIN refreshing' = 1..Len(refreshing')
      /\ \A i \in 1..Len(older) : refreshing'[i] = older[i]
      /\ refreshing'[Len(older) + 1] = NoList
  BY <1>1, <1>5, <1>7, AppendProperties
<1>9. ASSUME NEW i \in DOMAIN refreshing', refreshing'[i].newest
      PROVE  i = Len(refreshing')
  <2>1. i \in 1..Len(older) => refreshing'[i].newest = FALSE
    BY <1>2, <1>3, <1>6, <1>8
  <2> QED
    BY <1>2, <1>6, <1>8, <1>9, <2>1
<1> QED
  BY <1>2, <1>6, <1>8, <1>9

\* Then nothing announced is missing from what it has received so far.
LEMMA RefreshKeepsUp ==
    ASSUME StayInductive, NEW calls, Refresh(calls),
           announced' \subseteq Operations
    PROVE  ListsKeepUp'
<1>1. refreshing'[Len(refreshing')].newest = TRUE
      /\ Len(refreshing') \in DOMAIN refreshing'
  BY RefreshBegins DEF NoList
<1>2. NoList.session = None /\ NoList.status = None /\ NoList.paid = None
  BY DEF NoList
<1>3. \A i \in DOMAIN refreshing' :
         refreshing'[i].newest => refreshing'[i] = NoList
                                  /\ i = Len(refreshing')
  BY RefreshBegins
<1>4. refreshing' \in Seq(Received)
  BY RefreshBegins
<1> HIDE DEF NoList
<1> QED
  BY <1>1, <1>2, <1>3, <1>4 DEF ListsKeepUp, ShowsSoFar

\* The page is opened.
LEMMA ArriveKeeps ==
    ASSUME StayInductive, Arrive
    PROVE  StayInductive'
<1> USE StayConstants
<1>1. ListsKeepUp'
  BY RefreshKeepsUp DEF Arrive, StayInductive, TypeOK
<1>2. /\ Refresh(call) /\ call \in [Calls -> CallRecords]
      /\ UNCHANGED <<now, rows, doubts, events, announced, stale>>
      /\ open' = TRUE
  BY DEF Arrive, StayInductive, TypeOK, CallRecords
<1>3. /\ call' = Orphaned(call, {"card"}, "page")
      /\ loading' = TRUE /\ qrPayload' = None /\ busy' = {}
      /\ qrAsked' \in BOOLEAN
  BY <1>2 DEF Refresh, Remount
<1>4. TypeOK'
  BY <1>2, <1>3, RefreshBegins, OrphanedKeeps DEF StayInductive, TypeOK,
     CallRecords, rows
<1>5. DoneIsEffective'
  BY <1>2, <1>3, OrphanedKeeps, PageLeavesRows
  DEF StayInductive, DoneIsEffective
<1> QED
  BY <1>1, <1>4, <1>5 DEF StayInductive

\* It is left or reloaded, and forgets what it asked for.
LEMMA GoKeeps ==
    ASSUME StayInductive, Leave \/ Reload
    PROVE  StayInductive'
<1> USE StayConstants
<1>1. GoAway /\ events' \in 0..MaxEvents
  BY EventsKeep DEF Leave, Reload
<1>2. ListsKeepUp'
  BY <1>1, EmptySeq DEF GoAway, ListsKeepUp
<1>3. call \in [Calls -> CallRecords]
  BY DEF StayInductive, TypeOK, CallRecords
<1>4. TypeOK'
  <2>1. /\ call' = Orphaned(call, {"card", "page"}, "gone")
        /\ open' = FALSE /\ loading' = FALSE /\ refreshing' = <<>>
        /\ qrPayload' = None /\ qrAsked' = FALSE /\ busy' = {}
        /\ announced' = {} /\ stale' = FALSE
        /\ UNCHANGED <<now, rows>>
    BY <1>1 DEF GoAway
  <2>2. doubts' \subseteq Doubts
    BY <1>1, Doubtful DEF GoAway, Doubts
  <2>3. DOMAIN refreshing' = {}
    BY <2>1
  <2>4. call' \in [Calls -> CallRecords]
    BY <1>3, <2>1, OrphanedKeeps
  <2> QED
    BY <1>1, <2>1, <2>2, <2>3, <2>4 DEF StayInductive, TypeOK, CallRecords,
       rows, Doubts
<1>5. DoneIsEffective'
  BY <1>1, <1>3, OrphanedKeeps, PageLeavesRows DEF GoAway
<1> QED
  BY <1>2, <1>4, <1>5 DEF StayInductive

\* The code comes, a button is pressed, or a connection breaks.
LEMMA CardKeeps ==
    ASSUME StayInductive,
           \/ QrArrives
           \/ \E op \in Operations : Click(op)
           \/ \E c \in Calls : Breaks(c)
    PROVE  StayInductive'
<1> USE StayConstants
<1>1. /\ UNCHANGED <<now, rows, open, loading, data, refreshing, announced,
                     stale>>
      /\ call \in [Calls -> CallRecords]
  BY DEF QrArrives, Click, Breaks, page, StayInductive, TypeOK, CallRecords
<1>2. ListsKeepUp'
  BY <1>1, ListsStay DEF rows
<1>3. CASE QrArrives
  <2>1. now \in Nat
    BY DEF StayInductive, TypeOK, Moments
  <2>2. TypeOK'
    <3>1. /\ qrPayload' \in Nat \cup {None} /\ events' \in 0..MaxEvents
          /\ qrAsked' = FALSE /\ UNCHANGED <<busy, call, doubts>>
      BY <1>3, <2>1, EventsKeep
      DEF QrArrives, SignedUntil, StayInductive, TypeOK
    <3> QED
      BY <1>1, <3>1 DEF StayInductive, TypeOK, rows
  <2>3. DoneIsEffective'
    BY <1>1, <1>3, PageLeavesRows
    DEF QrArrives, StayInductive, DoneIsEffective
  <2> QED
    BY <1>2, <2>2, <2>3 DEF StayInductive
<1>4. ASSUME NEW op \in Operations, Click(op)
      PROVE  StayInductive'
  <2>1. op \in {"entry", "exit"} => qrPayload \in Nat
    BY <1>4 DEF Click, Offered, AwaitingEntryCard, ActiveSessionCard,
       ReadyToExitCard, StayInductive, TypeOK
  <2>2. PICK c \in Calls : call' = [call EXCEPT ![c] =
              [NoCall EXCEPT !.op = op, !.at = "card", !.step = "sent",
                             !.token = IF op \in {"entry", "exit"}
                                       THEN qrPayload ELSE 0]]
    BY <1>4 DEF Click
  <2>3. call' \in [Calls -> CallRecords] /\ call'[c].step = "sent"
        /\ call'[c].time = 0 /\ \A d \in Calls : d # c => call'[d] = call[d]
    <3>1. NoCall \in CallRecords /\ NoCall.time = 0
      BY DEF CallRecords, NoCall, Steps, Moments
    <3> QED
      BY <1>1, <2>1, <2>2, <3>1 DEF CallRecords, Steps
  <2>4. TypeOK'
    <3>1. /\ busy' \subseteq Operations
          /\ doubts' \subseteq Doubts
          /\ events' \in 0..MaxEvents /\ UNCHANGED <<qrPayload, qrAsked>>
      BY <1>4, EventsKeep, Doubtful DEF Click, StayInductive, TypeOK, Doubts
    <3> QED
      BY <1>1, <2>3, <3>1 DEF StayInductive, TypeOK, CallRecords, rows, Doubts
  <2>5. DoneIsEffective'
    BY <1>1, <2>3, PageLeavesRows DEF StayInductive, DoneIsEffective
  <2> QED
    BY <1>2, <2>4, <2>5 DEF StayInductive
<1>5. ASSUME NEW c \in Calls, Breaks(c)
      PROVE  StayInductive'
  <2>1. call' \in [Calls -> CallRecords]
        /\ \A d \in Calls : /\ call'[d].op = call[d].op
                            /\ call'[d].step = call[d].step
                            /\ call'[d].due = call[d].due
                            /\ call'[d].seen = call[d].seen
                            /\ call'[d].time = call[d].time
    BY <1>1, <1>5 DEF Breaks, CallRecords
  <2>2. TypeOK'
    <3>1. /\ busy' \subseteq Operations /\ events' \in 0..MaxEvents
          /\ doubts' \subseteq Doubts
      BY <1>5, MishapsKeep, Doubtful DEF Breaks, StayInductive, TypeOK, Doubts
    <3>2. UNCHANGED <<qrPayload, qrAsked>>
      BY <1>5 DEF Breaks, page
    <3> QED
      BY <1>1, <2>1, <3>1, <3>2
      DEF StayInductive, TypeOK, CallRecords, rows, Doubts
  <2>3. DoneIsEffective'
    BY <1>1, <2>1, PageLeavesRows DEF StayInductive, DoneIsEffective
  <2> QED
    BY <1>2, <2>2, <2>3 DEF StayInductive
<1> QED
  BY <1>3, <1>4, <1>5

\* A button's request is answered.
LEMMA AnswerKeeps ==
    ASSUME StayInductive, NEW c \in Calls, OnAnswer(c)
    PROVE  StayInductive'
<1> USE StayConstants
<1> DEFINE left == [call EXCEPT ![c] = NoCall]
<1>1. left \in [Calls -> CallRecords] /\ left[c] = NoCall
      /\ NoCall.step = "free" /\ NoCall.time = 0
      /\ \A d \in Calls : d # c => left[d] = call[d]
  BY DEF StayInductive, TypeOK, CallRecords, NoCall, Steps, Moments
<1>2. UNCHANGED <<now, rows, doubts, events>>
  BY DEF OnAnswer
<1> HIDE DEF left
<1>3. CASE /\ call[c].step = "done"
           /\ announced' = announced \cup {call[c].op}
           /\ Refresh(left)
           /\ UNCHANGED <<open, data, stale>>
  <2>1. announced' \subseteq Operations /\ \A op \in announced' : Effective(op)
    BY <1>3 DEF StayInductive, TypeOK, DoneIsEffective, Knows
  <2>2. ListsKeepUp'
    BY <1>3, <2>1, RefreshKeepsUp
  <2>3. /\ call' = Orphaned(left, {"card"}, "page")
        /\ loading' = TRUE /\ qrPayload' = None /\ busy' = {}
        /\ qrAsked' \in BOOLEAN
    BY <1>3 DEF Refresh, Remount
  <2>4. TypeOK'
    BY <1>1, <1>2, <1>3, <2>1, <2>3, RefreshBegins, OrphanedKeeps
    DEF StayInductive, TypeOK, CallRecords, rows
  <2>5. \A d \in Calls :
           /\ call'[d].op = left[d].op /\ call'[d].step = left[d].step
           /\ call'[d].due = left[d].due /\ call'[d].seen = left[d].seen
           /\ call'[d].time = left[d].time
    BY <1>1, <2>3, OrphanedKeeps
  <2>6. DoneIsEffective'
    BY <1>1, <1>2, <2>1, <2>5, PageLeavesRows
  <2> QED
    BY <2>2, <2>4, <2>6 DEF StayInductive
<1>4. CASE call' = left /\ UNCHANGED page /\ busy' \subseteq busy
  <2>1. ListsKeepUp'
    BY <1>2, <1>4, ListsStay DEF page, rows
  <2>2. TypeOK'
    BY <1>1, <1>2, <1>4 DEF StayInductive, TypeOK, CallRecords, rows, page
  <2>3. DoneIsEffective'
    BY <1>1, <1>2, <1>4, PageLeavesRows
    DEF StayInductive, DoneIsEffective, page
  <2> QED
    BY <2>1, <2>2, <2>3 DEF StayInductive
<1> QED
  BY <1>3, <1>4 DEF OnAnswer, left

\* A list comes.
LEMMA ReadsKeep ==
    ASSUME StayInductive, NEW i \in DOMAIN refreshing, NEW list \in Lists,
           Reads(i, list)
    PROVE  StayInductive'
<1>1. /\ UNCHANGED <<now, rows, open, loading, data, qrPayload, qrAsked,
                     announced, stale, busy, call, doubts, events>>
      /\ refreshing \in Seq(Received) /\ refreshing[i] \in Received
      /\ DOMAIN refreshing = 1..Len(refreshing) /\ Len(refreshing) \in Nat
  BY DEF Reads, StayInductive, ListsKeepUp
<1> DEFINE new == [refreshing[i] EXCEPT ![list] =
                      CASE list = "status" -> UserReservations
                        [] list = "session" -> UserSessions
                        [] list = "paid" -> UserPayments]
<1>2. /\ new \in Received /\ new.newest = refreshing[i].newest
      /\ \A op \in announced :
            ShowsSoFar(refreshing[i], op) => ShowsSoFar(new, op)
  <2>1. /\ UserReservations \in Statuses /\ UserSessions \in States
        /\ UserPayments \in BOOLEAN
    BY DEF UserReservations, UserSessions, UserPayments, StayInductive, TypeOK
  <2>2. \A op \in announced :
           /\ op = "cancel" => UserReservations \notin Live \/ undone
           /\ op = "entry" => UserSessions # "none"
           /\ op = "exit" => UserSessions = "COMPLETED"
           /\ op = "pay" => UserPayments = TRUE
    BY DEF UserReservations, UserSessions, UserPayments, StayInductive,
       DoneIsEffective, Effective, TypeOK
  <2> HIDE DEF UserReservations, UserSessions, UserPayments
  <2>3. CASE list = "status"
    <3>1. new = [refreshing[i] EXCEPT !.status = UserReservations]
      BY <2>3
    <3> HIDE DEF new
    <3> QED
      BY <1>1, <2>1, <2>2, <3>1 DEF Received, ShowsSoFar
  <2>4. CASE list = "session"
    <3>1. new = [refreshing[i] EXCEPT !.session = UserSessions]
      BY <2>4
    <3> HIDE DEF new
    <3> QED
      BY <1>1, <2>1, <2>2, <3>1 DEF Received, ShowsSoFar
  <2>5. CASE list = "paid"
    <3>1. new = [refreshing[i] EXCEPT !.paid = UserPayments]
      BY <2>5
    <3> HIDE DEF new
    <3> QED
      BY <1>1, <2>1, <2>2, <3>1 DEF Received, ShowsSoFar
  <2> QED
    BY <2>3, <2>4, <2>5 DEF Lists
<1>3. /\ refreshing' = [refreshing EXCEPT ![i] = new]
  BY DEF Reads
<1> HIDE DEF new
<1>4. /\ refreshing' \in Seq(Received) /\ Len(refreshing') = Len(refreshing)
      /\ DOMAIN refreshing' = DOMAIN refreshing
      /\ \A j \in DOMAIN refreshing :
            refreshing'[j] = IF j = i THEN new ELSE refreshing[j]
  BY <1>1, <1>2, <1>3, ExceptSeq
<1>5. ListsKeepUp'
  <2>1. \A lists, op :
           /\ ShowsSoFar(lists, op)' <=> ShowsSoFar(lists', op)
           /\ ShowsOrUndone(lists, op)' <=> ShowsOrUndone(lists', op)
    BY <1>1 DEF ShowsSoFar, ShowsOrUndone, Shows, rows
  <2> HIDE DEF ShowsSoFar, ShowsOrUndone
  <2> QED
    BY <1>1, <1>2, <1>4, <2>1 DEF StayInductive, ListsKeepUp
<1>6. TypeOK'
  BY <1>1, <1>2, <1>4 DEF StayInductive, TypeOK, rows
<1>7. DoneIsEffective'
  BY <1>1, PageLeavesRows DEF StayInductive, DoneIsEffective
<1> QED
  BY <1>5, <1>6, <1>7 DEF StayInductive

\* Without a refresh that is over the others are as they were, and the last of
\* them is the newest if any is.
LEMMA OneLess ==
    ASSUME NEW S, NEW s \in Seq(S), NEW i \in DOMAIN s
    PROVE  /\ RemoveAt(s, i) \in Seq(S)
           /\ Len(RemoveAt(s, i)) = Len(s) - 1
           /\ DOMAIN RemoveAt(s, i) = 1..(Len(s) - 1)
           /\ Len(s) \in Nat /\ DOMAIN s = 1..Len(s)
           /\ \A j \in 1..(Len(s) - 1) :
                 RemoveAt(s, i)[j] = IF j < i THEN s[j] ELSE s[j + 1]
<1>1. Len(s) \in Nat /\ DOMAIN s = 1..Len(s) /\ i \in 1..Len(s)
      /\ \A j \in 1..Len(s) : s[j] \in S
  BY ElementOfSeq
<1>2. /\ SubSeq(s, 1, i - 1) \in Seq(S) /\ Len(SubSeq(s, 1, i - 1)) = i - 1
      /\ \A j \in 1..(i - 1) : SubSeq(s, 1, i - 1)[j] = s[j]
  <2>1. 1 \in Int /\ i - 1 \in Int /\ \A j \in 1..(i - 1) : s[j] \in S
    BY <1>1
  <2> QED
    BY <1>1, <2>1, SubSeqProperties
<1>3. /\ SubSeq(s, i + 1, Len(s)) \in Seq(S)
      /\ Len(SubSeq(s, i + 1, Len(s))) = Len(s) - i
      /\ \A j \in 1..(Len(s) - i) : SubSeq(s, i + 1, Len(s))[j] = s[i + j]
  <2>1. /\ i + 1 \in Int /\ Len(s) \in Int
        /\ \A j \in (i + 1)..Len(s) : s[j] \in S
    BY <1>1
  <2> QED
    BY <1>1, <2>1, SubSeqProperties
<1>4. /\ RemoveAt(s, i) \in Seq(S) /\ Len(RemoveAt(s, i)) = Len(s) - 1
      /\ \A j \in 1..(Len(s) - 1) :
            RemoveAt(s, i)[j] = IF j <= i - 1 THEN SubSeq(s, 1, i - 1)[j]
                     ELSE SubSeq(s, i + 1, Len(s))[j - (i - 1)]
  <2> DEFINE front == SubSeq(s, 1, i - 1)
             back == SubSeq(s, i + 1, Len(s))
  <2>1. Len(front) + Len(back) = Len(s) - 1
    BY <1>1, <1>2, <1>3
  <2>2. RemoveAt(s, i) = front \o back
    BY DEF RemoveAt
  <2>3. /\ front \o back \in Seq(S)
        /\ Len(front \o back) = Len(front) + Len(back)
        /\ \A j \in 1..(Len(front) + Len(back)) :
              (front \o back)[j] = IF j <= Len(front) THEN front[j]
                                   ELSE back[j - Len(front)]
    <3>1. front \in Seq(S) /\ back \in Seq(S)
      BY <1>2, <1>3
    <3> HIDE DEF front, back
    <3> QED
      BY <3>1, ConcatProperties
  <2> QED
    BY <1>2, <2>1, <2>2, <2>3
<1>5. DOMAIN RemoveAt(s, i) = 1..(Len(s) - 1)
  BY <1>4
<1>6. ASSUME NEW j \in 1..(Len(s) - 1)
      PROVE  RemoveAt(s, i)[j] = IF j < i THEN s[j] ELSE s[j + 1]
  <2>1. CASE j < i
    BY <1>1, <1>2, <1>4, <2>1
  <2>2. CASE ~(j < i)
    <3>1. j - (i - 1) \in 1..(Len(s) - i) /\ i + (j - (i - 1)) = j + 1
      BY <1>1, <2>2
    <3>2. ~(j <= i - 1)
      BY <1>1, <2>2
    <3>3. RemoveAt(s, i)[j] = SubSeq(s, i + 1, Len(s))[j - (i - 1)]
      BY <1>4, <3>2
    <3>4. SubSeq(s, i + 1, Len(s))[j - (i - 1)] = s[i + (j - (i - 1))]
      BY <1>3, <3>1
    <3> QED
      BY <2>2, <3>1, <3>3, <3>4
  <2> QED
    BY <2>1, <2>2
<1> QED
  BY <1>1, <1>4, <1>5, <1>6

\* A refresh ends, or fails.
LEMMA LandsKeeps ==
    ASSUME StayInductive, NEW i \in DOMAIN refreshing,
           Lands(i) \/ RefreshFails(i)
    PROVE  StayInductive'
<1> USE StayConstants
<1>1. /\ refreshing \in Seq(Received) /\ refreshing' = RemoveAt(refreshing, i)
      /\ UNCHANGED <<now, rows, open, announced, doubts>>
      /\ loading' = FALSE /\ i \in 1..Len(refreshing)
      /\ Len(refreshing) \in Nat /\ refreshing[i] \in Received
      /\ stale \in BOOLEAN
  BY DEF Lands, RefreshFails, StayInductive, ListsKeepUp, TypeOK
<1>2. /\ refreshing' \in Seq(Received)
      /\ Len(refreshing') = Len(refreshing) - 1
      /\ DOMAIN refreshing' = 1..(Len(refreshing) - 1)
      /\ DOMAIN refreshing = 1..Len(refreshing)
      /\ \A j \in 1..(Len(refreshing) - 1) :
            refreshing'[j] = IF j < i THEN refreshing[j]
                                      ELSE refreshing[j + 1]
  BY <1>1, OneLess
<1>3. /\ \A j \in DOMAIN refreshing :
            refreshing[j].newest => /\ j = Len(refreshing)
                                    /\ \A op \in announced :
                                          ShowsSoFar(refreshing[j], op)
      /\ open /\ ~stale /\ data # None
            /\ (\A j \in DOMAIN refreshing : ~refreshing[j].newest) =>
         \A op \in announced : ShowsOrUndone(data, op)
  BY DEF StayInductive, ListsKeepUp
<1>4. ASSUME NEW j \in DOMAIN refreshing', refreshing'[j].newest
      PROVE  /\ j = Len(refreshing')
             /\ \A op \in announced : ShowsSoFar(refreshing'[j], op)
  <2>1. ~(j < i)
    BY <1>1, <1>2, <1>3, <1>4
  <2>2. refreshing'[j] = refreshing[j + 1] /\ j + 1 \in DOMAIN refreshing
    BY <1>1, <1>2, <2>1
  <2>3. j + 1 = Len(refreshing)
    BY <1>3, <1>4, <2>2
  <2> QED
    BY <1>1, <1>2, <1>3, <1>4, <2>2, <2>3
<1>5. ASSUME open, ~stale', data' # None, NEW op \in announced,
             \A j \in DOMAIN refreshing' : ~refreshing'[j].newest
      PROVE  ShowsOrUndone(data', op)
  <2>1. CASE refreshing[i].newest
    <3>1. Lands(i)
      BY <1>5, <2>1 DEF RefreshFails
    <3>2. /\ data' = refreshing[i] /\ ShowsSoFar(refreshing[i], op)
          /\ \A list \in Lists : refreshing[i][list] # None
      BY <1>1, <1>2, <1>3, <2>1, <3>1 DEF Lands
    <3>3. op \in Operations
      BY DEF StayInductive, TypeOK
    <3>4. /\ refreshing[i].status # None /\ refreshing[i].session # None
          /\ refreshing[i].paid # None
      BY <3>2 DEF Lists
    <3> QED
      BY <3>2, <3>3, <3>4 DEF Shows, ShowsSoFar, ShowsOrUndone, Operations
  <2>2. CASE ~refreshing[i].newest
    <3>1. ~Lands(i)
      BY <1>5, <2>2 DEF Lands
    <3>2. RefreshFails(i) /\ ~stale /\ data' = data
      BY <1>5, <3>1 DEF RefreshFails
    <3>3. ASSUME NEW j \in DOMAIN refreshing, refreshing[j].newest
          PROVE  FALSE
      <4>1. j = Len(refreshing) /\ j # i
        BY <1>3, <2>2, <3>3
      <4>2. j - 1 \in DOMAIN refreshing' /\ ~(j - 1 < i)
        BY <1>1, <1>2, <4>1
      <4>3. refreshing'[j - 1] = refreshing[j]
        BY <1>1, <1>2, <4>1, <4>2
      <4> QED
        BY <1>5, <3>3, <4>2, <4>3
    <3> QED
      BY <1>3, <1>5, <3>2, <3>3
  <2> QED
    BY <2>1, <2>2
<1>6. ListsKeepUp'
  <2>1. undone' = undone
    BY <1>1 DEF rows
  <2>2. \A op : /\ \A lists : ShowsSoFar(lists, op)' <=> ShowsSoFar(lists', op)
                /\ ShowsOrUndone(data, op)' <=> ShowsOrUndone(data', op)
    BY <2>1 DEF ShowsSoFar, ShowsOrUndone, Shows
  <2> QED
    BY <1>1, <1>2, <1>4, <1>5, <2>2 DEF ListsKeepUp
<1>7. call \in [Calls -> CallRecords]
  BY DEF StayInductive, TypeOK, CallRecords
<1>8. call' = call \/ call' = Orphaned(call, {"card"}, "page")
  BY DEF Lands, RefreshFails, Rerender
<1>9. /\ call' \in [Calls -> CallRecords]
      /\ \A c \in Calls :
            /\ call'[c].op = call[c].op /\ call'[c].step = call[c].step
            /\ call'[c].due = call[c].due /\ call'[c].seen = call[c].seen
            /\ call'[c].time = call[c].time
  BY <1>7, <1>8, OrphanedKeeps
<1>10. /\ stale' \in BOOLEAN /\ events' \in 0..MaxEvents
       /\ qrPayload' \in Nat \cup {None} /\ qrAsked' \in BOOLEAN
       /\ busy' \subseteq Operations
  <2>1. stale' \in BOOLEAN /\ events' \in 0..MaxEvents
    <3>1. refreshing[i].newest \in BOOLEAN
      BY <1>1 DEF Received
    <3>2. CASE Lands(i)
      BY <3>1, <3>2, EventsKeep DEF Lands
    <3>3. CASE RefreshFails(i)
      BY <1>1, <3>1, <3>3, EventsKeep DEF RefreshFails
    <3> QED
      BY <3>2, <3>3
  <2>2. \/ UNCHANGED <<qrPayload, qrAsked, busy>>
        \/ qrPayload' = None /\ qrAsked' \in BOOLEAN /\ busy' = {}
    <3>1. \/ UNCHANGED <<qrPayload, qrAsked, busy, call>>
          \/ \E card \in {Card(data), Card(refreshing[i])} : Remount(card)
      BY DEF Lands, RefreshFails, Rerender
    <3>2. ASSUME NEW card, Remount(card)
          PROVE  qrPayload' = None /\ qrAsked' \in BOOLEAN /\ busy' = {}
      BY <3>2 DEF Remount
    <3> QED
      BY <3>1, <3>2
  <2>3. /\ qrPayload \in Nat \cup {None} /\ qrAsked \in BOOLEAN
        /\ busy \subseteq Operations
    BY DEF StayInductive, TypeOK
  <2> QED
    BY <2>1, <2>2, <2>3
<1>11. TypeOK'
  BY <1>1, <1>2, <1>4, <1>9, <1>10 DEF StayInductive, TypeOK, CallRecords,
     rows
<1>12. DoneIsEffective'
  BY <1>1, <1>9, PageLeavesRows DEF StayInductive, DoneIsEffective
<1> QED
  BY <1>6, <1>11, <1>12 DEF StayInductive

-----------------------------------------------------------------------------
(* Every behaviour. *)

\* A driver who has reserved and opened nothing.
LEMMA InitStay == Init => StayInductive
<1> SUFFICES ASSUME Init PROVE StayInductive
  OBVIOUS
<1> USE StayConstants DEF Init
<1>1. DOMAIN refreshing = {} /\ refreshing \in Seq(Received)
  OBVIOUS
<1>2. call \in [Calls -> CallRecords] /\ \A c \in Calls : call[c] = NoCall
  BY DEF CallRecords, NoCall, Steps, Moments
<1>3. TypeOK
  <2>1. /\ now \in Moments /\ events \in 0..MaxEvents
        /\ status \in Statuses
        /\ session \in [state : States, entryAt : Moments, exitAt : Moments]
    BY DEF Moments, Statuses, States
  <2>2. /\ paid \in Nat /\ charged \in Nat
        /\ open \in BOOLEAN /\ loading \in BOOLEAN /\ stale \in BOOLEAN
        /\ qrPayload \in Nat \cup {None} /\ qrAsked \in BOOLEAN
        /\ busy \subseteq Operations /\ announced \subseteq Operations
        /\ sweeping \in BOOLEAN /\ undone \in BOOLEAN
        /\ doubts \subseteq Doubts
    OBVIOUS
  <2> HIDE DEF Init
  <2> QED
    BY <1>1, <1>2, <2>1, <2>2 DEF TypeOK, CallRecords, Doubts
<1>4. DoneIsEffective
  BY <1>2 DEF DoneIsEffective, NoCall, Knows, Charged
<1> QED
  BY <1>1, <1>3, <1>4 DEF StayInductive, ListsKeepUp

\* Every step keeps the invariant.
LEMMA StepStay == StayInductive /\ [Next]_vars => StayInductive'
<1> SUFFICES ASSUME StayInductive, [Next]_vars PROVE StayInductive'
  OBVIOUS
<1>1. CASE UNCHANGED vars
  BY <1>1 DEF vars, page, rows, StayInductive, TypeOK, DoneIsEffective, Knows,
     Effective, ListsKeepUp, ShowsSoFar, ShowsOrUndone, Shows
<1>2. CASE Arrive \/ Leave \/ Reload
  BY <1>2, ArriveKeeps, GoKeeps
<1>3. CASE Tick \/ SweepFinds \/ SweepExpires
  BY <1>3, TimeKeeps
<1>4. CASE QrArrives \/ \E op \in Operations : Click(op)
  BY <1>4, CardKeeps
<1>5. ASSUME NEW i \in DOMAIN refreshing, Lands(i) \/ RefreshFails(i)
      PROVE  StayInductive'
  BY <1>5, LandsKeeps
<1>6. ASSUME NEW i \in DOMAIN refreshing, NEW list \in Lists, Reads(i, list)
      PROVE  StayInductive'
  BY <1>6, ReadsKeep
<1>7. ASSUME NEW c \in Calls,
             OnAnswer(c) \/ Breaks(c) \/ Fails(c) \/ Handler(c)
      PROVE  StayInductive'
  BY <1>7, AnswerKeeps, CardKeeps, HandlerKeeps
<1> QED
  BY <1>1, <1>2, <1>3, <1>4, <1>5, <1>6, <1>7 DEF Next

\* The invariant, in every behaviour.
LEMMA StayHolds == Spec => []StayInductive
  BY InitStay, StepStay, PTL DEF Spec

\* A page that waits for no list shows every operation it has announced,
\* unless its last refresh failed or was overtaken, or an entry has undone an
\* announced cancellation: for any number of requests and of refreshes, any
\* prices and any times.
THEOREM ShowsWhatItSaidTheorem == Spec => []ShowsWhatItSaid
<1>1. StayInductive => ShowsWhatItSaid
  <2> SUFFICES ASSUME StayInductive, refreshing = <<>>, open, data # None,
                      ~stale, NEW op \in announced
               PROVE  ShowsOrUndone(data, op)
    BY DEF ShowsWhatItSaid, ShowsOrUndone
  <2>1. DOMAIN refreshing = {}
    OBVIOUS
  <2> QED
    BY <2>1 DEF StayInductive, ListsKeepUp
<1> QED
  BY <1>1, StayHolds, PTL

\* The page, its requests and the rows keep their types.
THEOREM StayType == Spec => []TypeOK
<1>1. StayInductive => TypeOK
  BY DEF StayInductive
<1> QED
  BY <1>1, StayHolds, PTL
-----------------------------------------------------------------------------
(* Paying twice. *)

\* The card a button is on.
CardOf(op) ==
    CASE op \in {"entry", "cancel"} -> "AwaitingEntry"
      [] op = "pay" -> "ActiveSession"
      [] op = "exit" -> "ReadyToExit"

InFlight(c) == call[c].at # "gone"

\* Without doubts the page waits for one thing at a time: the answer to one
\* button, that of the card it shows and disabled, or the lists.
OneAtATime ==
    /\ \A c \in Calls : call[c].op = "pay" => InFlight(c)
    /\ \A c \in Calls : InFlight(c) =>
          /\ call[c].at = "card" /\ call[c].op \in busy
          /\ Shown = CardOf(call[c].op) /\ refreshing = <<>>
    /\ \A c, d \in Calls : InFlight(c) /\ InFlight(d) => c = d
    /\ refreshing # <<>> => Len(refreshing) = 1 /\ open /\ loading

\* So a payment knows the row it will write, and lacks nothing but its charge.
MoneyAgrees ==
    /\ charged = paid \/ \E c \in Calls : call[c].step \in Charged
    /\ \A c \in Calls :
          /\ call[c].step \in Charged => charged = paid + call[c].due
          /\ call[c].step = "insert" => paid = 0
          /\ call[c].step \in {"charge", "update"} => call[c].seen = paid

Calm == doubts = {} => OneAtATime /\ MoneyAgrees

\* No request is not a request to pay.
LEMMA NoneDoesNotPay == None # "pay" /\ NoCall.op # "pay"
  BY MyStayAssumption DEF NoCall

\* A card is shown only by a page that is open and not loading.
LEMMA CardIsShown ==
    ASSUME NEW op \in Operations, Shown = CardOf(op)
    PROVE  open /\ ~loading
  BY DEF Shown, CardOf, Operations

\* Where requests are is not changed by what becomes of them.
LEMMA StillOne ==
    ASSUME OneAtATime,
           UNCHANGED <<open, loading, data, refreshing, busy>>,
           \A c \in Calls : /\ call'[c].op = call[c].op
                            /\ call'[c].at = call[c].at
    PROVE  OneAtATime'
<1>1. Shown' = Shown
  BY DEF Shown
<1>2. \A c \in Calls : InFlight(c)' <=> InFlight(c)
  BY DEF InFlight
<1> QED
  BY <1>1, <1>2 DEF OneAtATime

\* Nor does the money change that no request touches.
SameMoneyFor(c) ==
    \/ call'[c].step = call[c].step /\ call'[c].seen = call[c].seen
          /\ call'[c].due = call[c].due
    \/ call[c].step \notin Charged /\ call'[c].step \notin Charged
          /\ call'[c].step # "charge"

\* Money agrees still, when nothing is taken, nor written.
LEMMA SameMoney ==
    ASSUME MoneyAgrees, UNCHANGED <<paid, charged>>,
           \A c \in Calls : SameMoneyFor(c)
    PROVE  MoneyAgrees'
  BY DEF MoneyAgrees, SameMoneyFor, Charged

\* A page that begins to load when nothing is in flight waits for the lists.
LEMMA OnlyTheLists ==
    ASSUME NEW calls \in [Calls -> CallRecords], Refresh(calls), open',
           refreshing = <<>>,
           \A c \in Calls : calls[c].at = "gone" /\ calls[c].op # "pay"
    PROVE  /\ OneAtATime'
           /\ \A c \in Calls : call'[c] = calls[c]
<1>1. \A c \in Calls : call'[c] = calls[c]
  BY DEF Refresh, Orphaned
<1>2. loading' /\ Len(refreshing') = 1
  <2>1. [i \in DOMAIN refreshing |->
            [refreshing[i] EXCEPT !.newest = FALSE]] = <<>>
    OBVIOUS
  <2> QED
    BY <2>1 DEF Refresh
<1>3. \A c \in Calls : ~InFlight(c)' /\ call'[c].op # "pay"
  BY <1>1 DEF InFlight
<1> QED
  BY <1>1, <1>2, <1>3 DEF OneAtATime

\* A statement changes the record of its request alone.
LEMMA OneRequest ==
    ASSUME call \in [Calls -> CallRecords], NEW c \in Calls, NEW k,
           k.op = call[c].op, k.at = call[c].at,
           call' = [call EXCEPT ![c] = k]
    PROVE  \A d \in Calls : /\ call'[d].op = call[d].op
                            /\ call'[d].at = call[d].at
                            /\ d # c => call'[d] = call[d]
  OBVIOUS

\* A handler does not know where its request is, nor touches another's.
LEMMA HandlerLeaves ==
    ASSUME StayInductive, Calm, NEW c \in Calls, Fails(c) \/ Handler(c),
           doubts' = {}
    PROVE  /\ UNCHANGED <<open, loading, data, refreshing, busy>>
           /\ doubts = {} /\ (Fails(c) => call[c].step \notin Charged)
           /\ \A d \in Calls : /\ call'[d].op = call[d].op
                               /\ call'[d].at = call[d].at
                               /\ d # c => call'[d] = call[d]
<1>1. call \in [Calls -> CallRecords]
  BY DEF StayInductive, TypeOK, CallRecords
<1>2. /\ UNCHANGED <<open, loading, data, refreshing, busy>>
      /\ doubts = {} /\ (Fails(c) => call[c].step \notin Charged)
  BY DEF Fails, Handler, EntryReads, EntryFindsSession, EntryConfirms,
     EntryCreates, CancelReads, CancelWrites, PaymentQuoted, PaymentFinds,
     PaymentCharges, PaymentInserts, TopUpReads, TopUpWrites, ExitReads,
     ExitFindsPayment, ExitFindsAgain, ExitCompletes, ExitCloses, Runs, page
<1>3. ASSUME NEW answer, Answer(c, answer)
      PROVE  \A d \in Calls : /\ call'[d].op = call[d].op
                              /\ call'[d].at = call[d].at
                              /\ d # c => call'[d] = call[d]
  BY <1>1, <1>3 DEF Answer, NoCall, CallRecords
<1>4. ASSUME NEW step, Goto(c, step)
      PROVE  \A d \in Calls : /\ call'[d].op = call[d].op
                              /\ call'[d].at = call[d].at
                              /\ d # c => call'[d] = call[d]
  BY <1>1, <1>4 DEF Goto, CallRecords
<1>5. \/ \E answer : Answer(c, answer)
      \/ \E step : Goto(c, step)
      \/ call' = [call EXCEPT ![c].step = "session", ![c].token = 0,
                              ![c].time = now, ![c].row = status]
      \/ call' = [call EXCEPT ![c].step = "payment", ![c].token = 0,
                              ![c].time = now]
      \/ call' = [call EXCEPT ![c].step = "find", ![c].due = GetSessionQuote]
      \/ \E step : call' = [call EXCEPT ![c].step = step, ![c].seen = paid]
      \/ \E step, due : call' = [call EXCEPT ![c].step = step, ![c].due = due,
                                             ![c].seen = 0]
  BY DEF Fails, Handler, EntryReads, EntryFindsSession, EntryConfirms,
     EntryCreates, CancelReads, CancelWrites, PaymentQuoted, PaymentFinds,
     PaymentCharges, PaymentInserts, TopUpReads, TopUpWrites, ExitReads,
     ExitFindsPayment, ExitFindsAgain, ExitCompletes, ExitCloses
<1>6. CASE \E answer : Answer(c, answer)
  <2> PICK answer : Answer(c, answer)
    BY <1>6
  <2> QED
    BY <1>2, <1>3
<1>7. CASE \E step : Goto(c, step)
  <2> PICK step : Goto(c, step)
    BY <1>7
  <2> QED
    BY <1>2, <1>4
<1>8. CASE call' = [call EXCEPT ![c].step = "session", ![c].token = 0,
                                ![c].time = now, ![c].row = status]
  <2> DEFINE k == [call[c] EXCEPT !.step = "session", !.token = 0,
                              !.time = now, !.row = status]
  <2>1. k.op = call[c].op /\ k.at = call[c].at
    BY <1>1 DEF CallRecords
  <2>2. call' = [call EXCEPT ![c] = k]
    BY <1>8
  <2> HIDE DEF k
  <2> QED
    BY <1>1, <1>2, <2>1, <2>2, OneRequest
<1>9. CASE call' = [call EXCEPT ![c].step = "payment", ![c].token = 0,
                                ![c].time = now]
  <2> DEFINE k == [call[c] EXCEPT !.step = "payment", !.token = 0,
                              !.time = now]
  <2>1. k.op = call[c].op /\ k.at = call[c].at
    BY <1>1 DEF CallRecords
  <2>2. call' = [call EXCEPT ![c] = k]
    BY <1>9
  <2> HIDE DEF k
  <2> QED
    BY <1>1, <1>2, <2>1, <2>2, OneRequest
<1>10. CASE call' = [call EXCEPT ![c].step = "find",
                                 ![c].due = GetSessionQuote]
  <2> DEFINE k == [call[c] EXCEPT !.step = "find", !.due = GetSessionQuote]
  <2>1. k.op = call[c].op /\ k.at = call[c].at
    BY <1>1 DEF CallRecords
  <2>2. call' = [call EXCEPT ![c] = k]
    BY <1>10
  <2> HIDE DEF k
  <2> QED
    BY <1>1, <1>2, <2>1, <2>2, OneRequest
<1>11. CASE \E step : call' = [call EXCEPT ![c].step = step,
                                           ![c].seen = paid]
  <2> PICK step : call' = [call EXCEPT ![c].step = step, ![c].seen = paid]
    BY <1>11
  <2> DEFINE k == [call[c] EXCEPT !.step = step, !.seen = paid]
  <2>1. k.op = call[c].op /\ k.at = call[c].at
    BY <1>1 DEF CallRecords
  <2>2. call' = [call EXCEPT ![c] = k]
    OBVIOUS
  <2> HIDE DEF k
  <2> QED
    BY <1>1, <1>2, <2>1, <2>2, OneRequest
<1>12. CASE \E step, due : call' = [call EXCEPT ![c].step = step,
                                                ![c].due = due, ![c].seen = 0]
  <2> PICK step, due : call' = [call EXCEPT ![c].step = step, ![c].due = due,
                                            ![c].seen = 0]
    BY <1>12
  <2> DEFINE k == [call[c] EXCEPT !.step = step, !.due = due, !.seen = 0]
  <2>1. k.op = call[c].op /\ k.at = call[c].at
    BY <1>1 DEF CallRecords
  <2>2. call' = [call EXCEPT ![c] = k]
    OBVIOUS
  <2> HIDE DEF k
  <2> QED
    BY <1>1, <1>2, <2>1, <2>2, OneRequest
<1> QED
  BY <1>5, <1>6, <1>7, <1>8, <1>9, <1>10, <1>11, <1>12

\* Statements that have nothing to do with money.
LEMMA OtherStatements ==
    ASSUME StayInductive, Calm, NEW c \in Calls, Fails(c) \/ Handler(c),
           doubts' = {},
           ~(PaymentFinds(c) \/ PaymentCharges(c) \/ PaymentInserts(c)
               \/ TopUpReads(c) \/ TopUpWrites(c))
    PROVE  /\ UNCHANGED <<paid, charged>> /\ call[c].step \notin Charged
           /\ call'[c].step \notin Charged \cup {"charge"}
<1>1. call \in [Calls -> CallRecords]
  BY DEF StayInductive, TypeOK, CallRecords
<1>2. \A answer \in {"done", "refused"} :
         Answer(c, answer) => call'[c].step = answer
  BY <1>1 DEF Answer, NoCall, CallRecords
<1>3. \A step : Goto(c, step) => call'[c].step = step
  BY <1>1 DEF Goto, CallRecords
<1>4. CASE Fails(c)
  BY <1>2, <1>4, HandlerLeaves DEF Fails, rows, Charged
<1>5. CASE EntryReads(c) \/ EntryFindsSession(c) \/ EntryConfirms(c)
             \/ EntryCreates(c)
  <2>1. /\ UNCHANGED <<paid, charged>>
        /\ call[c].step \in {"sent", "session", "confirm", "create"}
    BY <1>5 DEF EntryReads, EntryFindsSession, EntryConfirms, EntryCreates,
       Runs, rows
  <2>2. \/ \E answer \in {"done", "refused"} : Answer(c, answer)
        \/ \E step \in {"confirm", "create"} : Goto(c, step)
        \/ call' = [call EXCEPT ![c].step = "session", ![c].token = 0,
                                ![c].time = now, ![c].row = status]
    BY <1>5 DEF EntryReads, EntryFindsSession, EntryConfirms, EntryCreates
  <2>3. call'[c].step \in {"done", "refused", "confirm", "create", "session"}
    BY <1>1, <1>2, <1>3, <2>2 DEF CallRecords
  <2> QED
    BY <2>1, <2>3 DEF Charged
<1>6. CASE CancelReads(c) \/ CancelWrites(c) \/ PaymentQuoted(c)
  <2>1. /\ UNCHANGED <<paid, charged>> /\ call[c].step \in {"sent", "cancel"}
    BY <1>6 DEF CancelReads, CancelWrites, PaymentQuoted, Runs, rows
  <2>2. \/ \E answer \in {"done", "refused"} : Answer(c, answer)
        \/ Goto(c, "cancel")
        \/ call' = [call EXCEPT ![c].step = "find",
                                ![c].due = GetSessionQuote]
    BY <1>6 DEF CancelReads, CancelWrites, PaymentQuoted
  <2>3. call'[c].step \in {"done", "refused", "cancel", "find"}
    BY <1>1, <1>2, <1>3, <2>2 DEF CallRecords
  <2> QED
    BY <2>1, <2>3 DEF Charged
<1>7. CASE ExitReads(c) \/ ExitFindsPayment(c) \/ ExitFindsAgain(c)
             \/ ExitCompletes(c) \/ ExitCloses(c)
  <2>1. /\ UNCHANGED <<paid, charged>>
        /\ call[c].step \in {"sent", "payment", "again", "complete", "close"}
    BY <1>7 DEF ExitReads, ExitFindsPayment, ExitFindsAgain, ExitCompletes,
       ExitCloses, Runs, rows
  <2>2. \/ \E answer \in {"done", "refused"} : Answer(c, answer)
        \/ \E step \in {"again", "complete", "close"} : Goto(c, step)
        \/ call' = [call EXCEPT ![c].step = "payment", ![c].token = 0,
                                ![c].time = now]
    BY <1>7 DEF ExitReads, ExitFindsPayment, ExitFindsAgain, ExitCompletes,
       ExitCloses
  <2>3. call'[c].step \in {"done", "refused", "again", "complete", "close",
                           "payment"}
    BY <1>1, <1>2, <1>3, <2>2 DEF CallRecords
  <2> QED
    BY <2>1, <2>3 DEF Charged
<1> QED
  BY <1>4, <1>5, <1>6, <1>7 DEF Handler

\* No step of the page, of a handler or of the clock ends the calm without a
\* doubt that says why.
LEMMA StepCalm == StayInductive /\ Calm /\ [Next]_vars => Calm'
<1> SUFFICES ASSUME StayInductive, Calm, [Next]_vars, doubts' = {}
             PROVE  OneAtATime' /\ MoneyAgrees'
  BY DEF Calm
<1>1. call \in [Calls -> CallRecords] /\ busy \subseteq Operations
      /\ paid \in Nat /\ charged \in Nat
  BY DEF StayInductive, TypeOK, CallRecords
<1>2. refreshing \in Seq(Received) /\ DOMAIN refreshing = 1..Len(refreshing)
  BY DEF StayInductive, ListsKeepUp
<1>3. \A c \in Calls : call[c].step \in Charged \cup {"charge"} =>
         call[c].op = "pay"
  BY DEF StayInductive, DoneIsEffective, Knows
<1>4. CASE UNCHANGED vars \/ Tick \/ SweepFinds \/ SweepExpires \/ QrArrives
  <2>1. UNCHANGED <<open, loading, data, refreshing, busy, call, doubts, paid,
                    charged>>
    BY <1>4 DEF vars, page, rows, Tick, SweepFinds, SweepExpires, QrArrives
  <2> QED
    BY <2>1, StillOne, SameMoney DEF Calm, SameMoneyFor
<1>5. CASE Arrive
  <2>1. doubts = {} /\ ~open /\ open' = TRUE /\ Refresh(call)
        /\ UNCHANGED <<paid, charged>>
    BY <1>5 DEF Arrive, rows
  <2>2. refreshing = <<>>
    BY <2>1 DEF Calm, OneAtATime
  <2>3. \A c \in Calls : call[c].at = "gone" /\ call[c].op # "pay"
    BY <1>1, <2>1, CardIsShown DEF Calm, OneAtATime, InFlight
  <2> QED
    BY <1>1, <2>1, <2>2, <2>3, OnlyTheLists, SameMoney DEF Calm, SameMoneyFor
<1>6. CASE Leave \/ Reload
  <2>1. /\ call' = Orphaned(call, {"card", "page"}, "gone")
        /\ refreshing' = <<>> /\ UNCHANGED <<paid, charged>>
    BY <1>6 DEF Leave, Reload, GoAway, rows
  <2>2. doubts = {} /\ \A c \in Calls : call[c].op = "pay" => ~InFlight(c)
    BY <1>6 DEF Leave, Reload, GoAway, InFlight
  <2>3. \A c \in Calls : ~InFlight(c)' /\ call'[c].op = call[c].op
    BY <1>1, <2>1 DEF Orphaned, InFlight, CallRecords
  <2>4. OneAtATime'
    BY <2>1, <2>2, <2>3 DEF Calm, OneAtATime
  <2> QED
    BY <1>1, <2>1, <2>2, <2>4, OrphanedKeeps, SameMoney
    DEF Calm, SameMoneyFor
<1>7. ASSUME NEW op \in Operations, Click(op)
      PROVE  OneAtATime' /\ MoneyAgrees'
  <2>1. PICK c \in Calls :
          /\ call[c] = NoCall
          /\ call' = [call EXCEPT ![c] =
               [NoCall EXCEPT !.op = op, !.at = "card", !.step = "sent",
                              !.token = IF op \in {"entry", "exit"}
                                        THEN qrPayload ELSE 0]]
    BY <1>7 DEF Click
  <2>2. /\ Offered(op) /\ op \notin busy /\ busy' = busy \cup {op}
        /\ UNCHANGED <<open, loading, data, refreshing, paid, charged>>
        /\ doubts = {} /\ ~({"entry", "cancel"} \subseteq busy')
    BY <1>7 DEF Click, rows
  <2>3. /\ call'[c].op = op /\ call'[c].at = "card"
        /\ call'[c].step = "sent"
        /\ \A d \in Calls : d # c => call'[d] = call[d]
    BY <1>1, <2>1 DEF NoCall
  <2>4. Shown = CardOf(op)
    BY <2>2 DEF Offered, AwaitingEntryCard, ActiveSessionCard,
       ReadyToExitCard, CardOf
  <2>5. refreshing = <<>>
    BY <2>2, <2>4, CardIsShown DEF Calm, OneAtATime
  <2>6. ASSUME NEW d \in Calls, InFlight(d)
        PROVE  FALSE
    <3>1. call[d].op \in busy /\ call[d].op \in Operations
          /\ CardOf(call[d].op) = CardOf(op)
      BY <1>1, <2>2, <2>4, <2>6 DEF Calm, OneAtATime
    <3> QED
      BY <2>2, <3>1 DEF CardOf, Operations
  <2>7. Shown' = Shown
    BY <2>2 DEF Shown
  <2>8. \A d \in Calls : d # c => ~InFlight(d)' /\ call'[d].op # "pay"
    BY <2>2, <2>3, <2>6 DEF InFlight, Calm, OneAtATime
  <2>9. OneAtATime'
    BY <2>2, <2>3, <2>4, <2>5, <2>7, <2>8 DEF OneAtATime, InFlight
  <2>10. \A d \in Calls : SameMoneyFor(d)
    BY <2>1, <2>3 DEF SameMoneyFor, NoCall, Charged
  <2> QED
    BY <2>2, <2>9, <2>10, SameMoney DEF Calm
<1>8. ASSUME NEW c \in Calls, Breaks(c)
      PROVE  OneAtATime' /\ MoneyAgrees'
  <2>1. /\ call' = [call EXCEPT ![c].at = "gone"] /\ InFlight(c)
        /\ doubts = {} /\ call[c].op # "pay"
        /\ UNCHANGED <<refreshing, open, loading, paid, charged>>
    BY <1>8 DEF Breaks, page, rows, InFlight
  <2>2. /\ call'[c].at = "gone" /\ call'[c].op = call[c].op
        /\ call'[c].step = call[c].step /\ call'[c].seen = call[c].seen
        /\ call'[c].due = call[c].due
        /\ \A d \in Calls : d # c => call'[d] = call[d] /\ ~InFlight(d)
    BY <1>1, <2>1 DEF CallRecords, Calm, OneAtATime
  <2>3. \A d \in Calls : ~InFlight(d)' /\ call'[d].op # "pay"
    BY <2>1, <2>2 DEF InFlight, Calm, OneAtATime
  <2>4. OneAtATime'
    BY <2>1, <2>3 DEF Calm, OneAtATime
  <2> QED
    BY <2>1, <2>2, <2>4, SameMoney DEF Calm, SameMoneyFor
<1>9. ASSUME NEW c \in Calls, OnAnswer(c)
      PROVE  OneAtATime' /\ MoneyAgrees'
  <2> DEFINE left == [call EXCEPT ![c] = NoCall]
  <2>1. left \in [Calls -> CallRecords] /\ left[c] = NoCall
        /\ \A d \in Calls : d # c => left[d] = call[d]
    <3>1. NoCall \in CallRecords
      BY StayConstants DEF NoCall, CallRecords, Steps, Moments
    <3> HIDE DEF NoCall
    <3> QED
      BY <1>1, <3>1
  <2>2. doubts = {} /\ UNCHANGED <<paid, charged>>
    BY <1>9 DEF OnAnswer, rows
  <2> HIDE DEF left
  <2>3. \A d \in Calls : call'[d] = left[d] => SameMoneyFor(d)
    BY <1>9, <2>1 DEF NoCall, SameMoneyFor, Charged, OnAnswer
  <2>4. CASE InFlight(c) /\ UNCHANGED open /\ Refresh(left)
    <3>1. ASSUME NEW d \in Calls
          PROVE  left[d].at = "gone" /\ left[d].op # "pay"
      <4>1. CASE d = c
        BY <2>1, <4>1, NoneDoesNotPay DEF NoCall
      <4>2. CASE d # c
        BY <2>1, <2>2, <2>4, <4>2 DEF Calm, OneAtATime, InFlight
      <4> QED
        BY <4>1, <4>2
    <3>2. refreshing = <<>> /\ open
      BY <1>1, <2>2, <2>4, CardIsShown DEF Calm, OneAtATime
    <3> QED
      BY <2>1, <2>2, <2>3, <2>4, <3>1, <3>2, OnlyTheLists, SameMoney DEF Calm
  <2>5. CASE /\ call' = left /\ UNCHANGED page
             /\ busy' = IF call[c].at = "card" THEN busy \ {call[c].op}
                                               ELSE busy
    <3>1. UNCHANGED <<open, loading, data, refreshing>> /\ Shown' = Shown
      BY <2>5 DEF page, Shown
    <3>2. ASSUME NEW d \in Calls, InFlight(d)'
          PROVE  d # c /\ InFlight(d) /\ call'[d] = call[d] /\ busy' = busy
      <4>1. d # c
        BY <2>1, <2>5, <3>2 DEF InFlight, NoCall
      <4>2. call'[d] = call[d] /\ InFlight(d)
        BY <2>1, <2>5, <3>2, <4>1 DEF InFlight
      <4>3. call[c].at = "gone"
        BY <2>2, <4>1, <4>2 DEF Calm, OneAtATime, InFlight
      <4> QED
        BY <2>5, <4>1, <4>2, <4>3
    <3>3. ASSUME NEW d \in Calls, call'[d].op = "pay"
          PROVE  InFlight(d)'
      <4>1. d # c
        BY <2>1, <2>5, <3>3, NoneDoesNotPay
      <4> QED
        BY <2>1, <2>2, <2>5, <3>3, <4>1 DEF InFlight, Calm, OneAtATime
    <3>4. OneAtATime'
      BY <2>2, <3>1, <3>2, <3>3 DEF Calm, OneAtATime
    <3> QED
      BY <2>2, <2>3, <2>5, <3>4, SameMoney DEF Calm
  <2> QED
    BY <1>9, <2>4, <2>5 DEF OnAnswer, left, InFlight
<1>10. ASSUME NEW i \in DOMAIN refreshing, NEW list \in Lists, Reads(i, list)
       PROVE  OneAtATime' /\ MoneyAgrees'
  <2>1. /\ UNCHANGED <<open, loading, call, doubts, paid, charged>>
        /\ Len(refreshing') = Len(refreshing) /\ refreshing # <<>>
    BY <1>2, <1>10, ExceptSeq DEF Reads, rows
  <2>2. \A c \in Calls : ~InFlight(c)' /\ call'[c].op # "pay"
    BY <2>1 DEF Calm, OneAtATime, InFlight
  <2>3. OneAtATime'
    BY <2>1, <2>2 DEF Calm, OneAtATime
  <2> QED
    BY <2>1, <2>3, SameMoney DEF Calm, SameMoneyFor
<1>11. ASSUME NEW i \in DOMAIN refreshing, Lands(i) \/ RefreshFails(i)
       PROVE  OneAtATime' /\ MoneyAgrees'
  <2>1. /\ refreshing' = RemoveAt(refreshing, i) /\ refreshing # <<>>
        /\ UNCHANGED <<doubts, paid, charged>>
        /\ call' = call \/ call' = Orphaned(call, {"card"}, "page")
    BY <1>11 DEF Lands, RefreshFails, Rerender, rows
  <2>2. refreshing' = <<>>
    <3>1. Len(refreshing) = 1
      BY <2>1 DEF Calm, OneAtATime
    <3> QED
      BY <1>2, <2>1, <3>1, OneLess, EmptySeq
  <2>3. \A c \in Calls : call[c].at = "gone" /\ call[c].op # "pay"
    BY <2>1 DEF Calm, OneAtATime, InFlight
  <2>4. \A c \in Calls : call'[c] = call[c]
    BY <1>1, <2>1, <2>3 DEF Orphaned
  <2>5. OneAtATime'
    BY <2>2, <2>3, <2>4 DEF OneAtATime, InFlight
  <2> QED
    BY <2>1, <2>4, <2>5, SameMoney DEF Calm, SameMoneyFor
<1>12. ASSUME NEW c \in Calls, Fails(c) \/ Handler(c)
       PROVE  OneAtATime' /\ MoneyAgrees'
  <2>1. /\ UNCHANGED <<open, loading, data, refreshing, busy>>
        /\ \A d \in Calls : /\ call'[d].op = call[d].op
                            /\ call'[d].at = call[d].at
                            /\ d # c => call'[d] = call[d]
    BY <1>12, HandlerLeaves
  <2>2. doubts = {} /\ OneAtATime /\ MoneyAgrees
    BY <1>12, HandlerLeaves DEF Calm
  <2>3. OneAtATime'
    BY <2>1, <2>2, StillOne
  <2>4. \A d \in Calls : d # c => SameMoneyFor(d)
    BY <2>1 DEF SameMoneyFor
  <2>5. CASE ~(PaymentFinds(c) \/ PaymentCharges(c) \/ PaymentInserts(c)
                 \/ TopUpReads(c) \/ TopUpWrites(c))
    <3>1. /\ UNCHANGED <<paid, charged>> /\ call[c].step \notin Charged
          /\ call'[c].step \notin Charged \cup {"charge"}
      BY <1>12, <2>5, OtherStatements
    <3> QED
      BY <2>2, <2>3, <2>4, <3>1, SameMoney DEF SameMoneyFor
  <2>6. CASE PaymentFinds(c)
    <3>1. UNCHANGED <<paid, charged>> /\ call[c].step = "find"
      BY <2>6 DEF PaymentFinds, Runs, rows
    <3>2. \/ call'[c].step = "done"
          \/ call'[c].step = "charge" /\ call'[c].seen = paid
      <4>1. CASE paid > 0 /\ call[c].due <= paid
        <5>1. Answer(c, "done")
          BY <2>6, <4>1 DEF PaymentFinds
        <5> QED
          BY <1>1, <5>1 DEF Answer, NoCall, CallRecords
      <4>2. CASE ~(paid > 0 /\ call[c].due <= paid)
        BY <1>1, <2>6, <4>2 DEF PaymentFinds, CallRecords
      <4> QED
        BY <4>1, <4>2
    <3> QED
      BY <2>1, <2>2, <2>3, <3>1, <3>2 DEF MoneyAgrees, Charged
  <2>7. ASSUME call[c].step \in Charged \cup {"charge"}, NEW d \in Calls, d # c
        PROVE  /\ call[d].step \notin Charged \cup {"charge"}
               /\ call'[d].step \notin Charged \cup {"charge"}
    BY <1>3, <2>1, <2>2, <2>7 DEF OneAtATime
  <2>8. CASE PaymentCharges(c)
    <3>1. /\ call[c].step = "charge" /\ UNCHANGED paid
          /\ charged' = charged + (call[c].due - call[c].seen)
      BY <2>8 DEF PaymentCharges, Runs
    <3>2. charged = paid /\ call[c].seen = paid
      BY <2>2, <2>7, <3>1 DEF MoneyAgrees, Charged
    <3>3. /\ call'[c].step = IF call[c].seen = 0 THEN "insert" ELSE "read"
          /\ call'[c].due = call[c].due - call[c].seen
      BY <1>1, <2>8 DEF PaymentCharges, CallRecords
    <3>4. call[c].due \in Nat /\ call[c].seen \in Nat
      BY <1>1 DEF CallRecords
    <3> QED
      BY <1>1, <2>3, <2>7, <3>1, <3>2, <3>3, <3>4 DEF MoneyAgrees, Charged
  <2>9. CASE PaymentInserts(c)
    <3>1. call[c].step = "insert" /\ UNCHANGED charged
      BY <2>9 DEF PaymentInserts, Runs
    <3>2. charged = paid + call[c].due /\ paid = 0
      BY <2>2, <3>1 DEF MoneyAgrees, Charged
    <3>3. paid' = call[c].due /\ call'[c].step = "done"
      BY <1>1, <2>9, <3>2 DEF PaymentInserts, Answer, NoCall, CallRecords
    <3>4. call[c].due \in Nat
      BY <1>1 DEF CallRecords
    <3> QED
      BY <1>1, <2>3, <2>7, <3>1, <3>2, <3>3, <3>4 DEF MoneyAgrees, Charged
  <2>10. CASE TopUpReads(c)
    <3>1. call[c].step = "read" /\ UNCHANGED <<paid, charged>>
      BY <2>10 DEF TopUpReads, Runs, rows
    <3>2. charged = paid + call[c].due
      BY <2>2, <3>1 DEF MoneyAgrees, Charged
    <3>3. /\ call'[c].step = "update" /\ call'[c].seen = paid
          /\ call'[c].due = call[c].due
      BY <1>1, <2>10 DEF TopUpReads, CallRecords
    <3> QED
      BY <2>3, <2>7, <3>1, <3>2, <3>3 DEF MoneyAgrees, Charged
  <2>11. CASE TopUpWrites(c)
    <3>1. call[c].step = "update" /\ UNCHANGED charged
      BY <2>11 DEF TopUpWrites, Runs
    <3>2. charged = paid + call[c].due /\ call[c].seen = paid
      BY <2>2, <3>1 DEF MoneyAgrees, Charged
    <3>3. paid' = call[c].seen + call[c].due /\ call'[c].step = "done"
      BY <1>1, <2>11 DEF TopUpWrites, Answer, NoCall, CallRecords
    <3> QED
      BY <1>1, <2>3, <2>7, <3>1, <3>2, <3>3 DEF MoneyAgrees, Charged
  <2> QED
    BY <2>5, <2>6, <2>8, <2>9, <2>10, <2>11
<1> QED
  BY <1>4, <1>5, <1>6, <1>7, <1>8, <1>9, <1>10, <1>11, <1>12 DEF Next

\* Once no payment has a row to write, the money taken is the amount on record,
\* unless a payment failed after its charge, the driver left one under way, its
\* connection broke, or both buttons of the waiting card were pressed: for any
\* number of requests, any prices and any times.
THEOREM PaidTwiceTheorem == Spec => []PaidTwiceForAReason
<1>1. Init => Calm
  <2> SUFFICES ASSUME Init PROVE Calm
    OBVIOUS
  <2>1. \A c \in Calls : call[c] = NoCall
    BY DEF Init
  <2>2. \A c \in Calls : ~InFlight(c) /\ call[c].op # "pay"
                        /\ call[c].step = "free"
    BY <2>1, NoneDoesNotPay DEF InFlight, NoCall
  <2>3. refreshing = <<>> /\ charged = paid
    BY DEF Init
  <2> QED
    BY <2>2, <2>3 DEF Calm, OneAtATime, MoneyAgrees, Charged
<1>2. StayInductive /\ Calm => PaidTwiceForAReason
  BY DEF StayInductive, TypeOK, Calm, MoneyAgrees, PaidTwiceForAReason
<1> QED
  BY <1>1, <1>2, StepCalm, StayHolds, PTL DEF Spec
=============================================================================
