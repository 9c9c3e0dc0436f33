------------------------- MODULE Reservations_proofs -------------------------
(* Proofs about Reservations, for any number of branches, of requests and of *)
(* workers' deaths. The page and what lies behind it share the answers to    *)
(* the POSTs and the events, and each has an invariant of its own.           *)
EXTENDS Reservations, SequenceTheorems, TLAPS

-----------------------------------------------------------------------------
(* The page. *)

\* What the driver who does not hurry has beyond PatientDriver: what he waits
\* for is in flight, and was sent from the branch the modal is open on.
PatientInductive ==
    /\ \A r \in awaited : InFlight(r)
    /\ PatientDriver
    /\ ~hurried =>
          /\ timeoutRef # None => submitting
          /\ branch # None =>
                /\ \A r \in awaited : from[r] = branch
                /\ pendingRequestId # None => from[pendingRequestId] = branch

-----------------------------------------------------------------------------
(* The queue and the worker. *)

\* Nothing has come of the request yet.
Untouched(r) == r \notin made /\ \A e \in Answers : e.req # r

\* A request is in one place: on the queue once, or with the worker.
OnePlace ==
    /\ \A i, j \in DOMAIN queue : queue[i] = queue[j] => i = j
    /\ working # Idle => working.req \notin Queued
    /\ \A r \in Requests : post[r] \in {"none", "sent"} =>
          /\ Untouched(r) /\ r \notin Queued
          /\ working # Idle => working.req # r

\* Nothing has come of one that is handled for the first time, until it is
\* resolved; and a resolution tells what was made.
FirstTime ==
    /\ \A r \in Queued \ redelivered : Untouched(r)
    /\ working.phase = "executing" /\ working.req \notin redelivered =>
          Untouched(working.req)
    /\ working.phase = "resolved" =>
          /\ working.status = "CREATED" => working.req \in made
          /\ working.status = "REJECTED" /\ working.req \in made =>
                working.req \in redelivered

BackInductive == OnePlace /\ FirstTime /\ HonestAnswer /\ RejectedOnRedelivery

\* The invariant of the page, of the queue and of the worker.
ReservationsInductive ==
    TypeOK /\ WaitIsTimed /\ PatientInductive /\ BackInductive

-----------------------------------------------------------------------------
(* Types. *)

\* None is no branch and no request.
LEMMA NoneApart == None \notin Branches /\ None \notin Requests
  BY ReservationsAssumption

\* What a worker may be at.
LEMMA WorkShapes ==
    ASSUME TypeOK
    PROVE  /\ working # Idle => working.req \in Requests
           /\ working = Idle <=> working.phase = "idle"
           /\ working.phase \in {"idle", "executing", "notified", "resolved"}
           /\ working.phase = "resolved" =>
                 working.status \in Statuses /\ working.at \in SomeBranch
  BY DEF TypeOK, Idle, Phases

\* A queue or a wire that is cut holds nothing new.
LEMMA CutSeq ==
    ASSUME NEW S, NEW s \in Seq(S), NEW t,
           \/ s # <<>> /\ t = Tail(s)
           \/ \E n \in DOMAIN s : t = SubSeq(s, 1, n - 1)
           \/ \E n \in DOMAIN s : t = SubSeq(s, n + 1, Len(s))
    PROVE  /\ t \in Seq(S)
           /\ \A i \in DOMAIN t : \E j \in DOMAIN s : t[i] = s[j]
<1>1. DOMAIN s = 1..Len(s) /\ Len(s) \in Nat
  OBVIOUS
<1>2. CASE s # <<>> /\ t = Tail(s)
  <2>1. t \in Seq(S) /\ Len(t) = Len(s) - 1
        /\ \A i \in 1..Len(t) : t[i] = s[i + 1]
    BY <1>2, HeadTailProperties
  <2>2. DOMAIN t = 1..Len(t) /\ Len(t) \in Nat
    BY <2>1
  <2> QED
    BY <1>1, <2>1, <2>2
<1>3. ASSUME NEW m \in 1..(Len(s) + 1), NEW n \in 0..Len(s),
             t = SubSeq(s, m, n)
      PROVE  /\ t \in Seq(S)
             /\ \A i \in DOMAIN t : \E j \in DOMAIN s : t[i] = s[j]
  <2>1. t \in Seq(S) /\ Len(t) = (IF m <= n THEN n - m + 1 ELSE 0)
        /\ \A i \in 1..Len(t) : t[i] = s[m + i - 1]
    <3>1. \A i \in m..n : s[i] \in S
      BY <1>1, ElementOfSeq
    <3> QED
      BY <1>1, <1>3, <3>1, SubSeqProperties, SMTT(20)
  <2>2. DOMAIN t = 1..Len(t) /\ Len(t) \in Nat
    BY <2>1
  <2>3. ASSUME NEW i \in DOMAIN t
        PROVE  m + i - 1 \in DOMAIN s
    BY <1>1, <2>1, <2>2
  <2> QED
    BY <2>1, <2>2, <2>3
<1>4. CASE \E n \in DOMAIN s : t = SubSeq(s, 1, n - 1)
  <2>1. PICK n \in 1..Len(s) : t = SubSeq(s, 1, n - 1)
    BY <1>1, <1>4
  <2>2. n - 1 \in 0..Len(s) /\ 1 \in 1..(Len(s) + 1)
    BY <1>1
  <2> QED
    BY <1>3, <2>1, <2>2
<1>5. CASE \E n \in DOMAIN s : t = SubSeq(s, n + 1, Len(s))
  <2>1. PICK n \in 1..Len(s) : t = SubSeq(s, n + 1, Len(s))
    BY <1>1, <1>5
  <2>2. n + 1 \in 1..(Len(s) + 1) /\ Len(s) \in 0..Len(s)
    BY <1>1
  <2> QED
    BY <1>3, <2>1, <2>2
<1> QED
  BY <1>2, <1>4, <1>5

\* The page keeps the types.
LEMMA TypePage ==
    ASSUME TypeOK,
           \/ \E b \in Branches : OpenModal(b)
           \/ CloseModal \/ LeavePage \/ EnterPage
           \/ \E r \in Requests, b \in Branches : Confirm(r, b)
           \/ \E r \in Requests : Accepted(r) \/ Refused(r) \/ TimerFires(r)
    PROVE  TypeOK'
<1> USE NoneApart DEF TypeOK, view, waiting, calls, worker, SomeBranch
<1>1. ASSUME NEW b \in Branches, OpenModal(b) PROVE TypeOK'
  BY <1>1 DEF OpenModal, StopWaiting, ForgetAllBut
<1>2. CASE CloseModal \/ EnterPage
  BY <1>2 DEF CloseModal, EnterPage
<1>3. CASE LeavePage
  BY <1>3 DEF LeavePage, Unmount, ForgetAllBut
<1>4. ASSUME NEW r \in Requests, NEW b \in Branches, Confirm(r, b)
      PROVE  TypeOK'
  BY <1>4 DEF Confirm
<1>5. ASSUME NEW r \in Requests, Accepted(r) PROVE TypeOK'
  BY <1>5 DEF Accepted
<1>6. ASSUME NEW r \in Requests, Refused(r) PROVE TypeOK'
  BY <1>6 DEF Refused
<1>7. ASSUME NEW r \in Requests, TimerFires(r) PROVE TypeOK'
  BY <1>7 DEF TimerFires
<1> QED
  BY <1>1, <1>2, <1>3, <1>4, <1>5, <1>6, <1>7

\* So do the events.
LEMMA TypeWire ==
    ASSUME TypeOK, OnResolved \/ RelayReconnects \/ SocketReconnects
    PROVE  TypeOK'
<1> USE NoneApart
<1>1. wire' \in Seq(Events)
  BY CutSeq DEF TypeOK, OnResolved, RelayReconnects, SocketReconnects
<1>2. CASE RelayReconnects \/ SocketReconnects
  BY <1>1, <1>2 DEF RelayReconnects, SocketReconnects, TypeOK, view, waiting,
     calls, worker
<1>3. CASE OnResolved
  <2>1. Head(wire) \in Events
    BY <1>3, HeadTailProperties DEF TypeOK, OnResolved
  <2>2. UNCHANGED <<post, worker>>
    BY <1>3 DEF OnResolved
  <2>3. CASE UNCHANGED <<view, waiting, from, awaited>>
    BY <1>1, <2>2, <2>3 DEF TypeOK, view, waiting, worker
  <2>4. CASE Unmount /\ told' = told \cup {Head(wire).req}
    BY <1>1, <2>1, <2>2, <2>4 DEF TypeOK, Unmount, ForgetAllBut, worker,
       Events, SomeBranch
  <2>5. CASE /\ StopWaiting /\ suggestion' \in {suggestion, Head(wire)}
             /\ UNCHANGED <<page, branch, hurried, told, from, awaited>>
    BY <1>1, <2>1, <2>2, <2>5 DEF TypeOK, StopWaiting, worker
  <2> QED
    BY <1>3, <2>3, <2>4, <2>5 DEF OnResolved
<1> QED
  BY <1>2, <1>3

\* So do the API and the worker.
LEMMA TypeWorker ==
    ASSUME TypeOK,
           \/ \E r \in Requests : Enqueue(r)
           \/ Deliver \/ Execute \/ ExecuteFails \/ Notify \/ Ack
           \/ WorkerDies \/ ReservationEnds
    PROVE  TypeOK'
<1> USE NoneApart, WorkShapes
<1>1. ASSUME NEW r \in Requests, Enqueue(r) PROVE TypeOK'
  <2>1. queue' \in Seq(Requests)
    BY <1>1, SMTT(20) DEF Enqueue, RequestReservation, Publish, TypeOK
  <2>2. \E p \in {"queued", "refused"} : post' = [post EXCEPT ![r] = p]
    BY <1>1 DEF Enqueue, RequestReservation
  <2>3. asked' \in [Requests -> SomeBranch]
    BY <1>1 DEF Enqueue, RequestReservation, MessageGone, TypeOK, SomeBranch
  <2>4. post' \in [Requests -> {"none", "sent", "queued", "refused", "done"}]
    BY <2>2 DEF TypeOK
  <2> QED
    BY <1>1, <2>1, <2>3, <2>4 DEF Enqueue, TypeOK, view, waiting
<1>2. CASE Deliver
  <2>1. Head(queue) \in Requests /\ Tail(queue) \in Seq(Requests)
    BY <1>2, HeadTailProperties DEF Deliver, TypeOK
  <2>2. working' \in [phase : Phases, req : Requests]
    BY <1>2, <2>1 DEF Deliver, Phases
  <2> QED
    BY <1>2, <2>1, <2>2 DEF Deliver, TypeOK, view, waiting, calls
<1>3. CASE Execute
  <2>1. working.req \in Requests
    BY <1>3 DEF Execute, Idle
  <2>2. working' \in [phase : {"resolved"}, req : Requests,
                      status : Statuses, at : SomeBranch]
    BY <1>3, <2>1 DEF Execute, Assign, Suggestable, Resolution, Statuses,
       SomeBranch
  <2>3. row' \in Requests \cup {None} /\ made' \subseteq Requests
    BY <1>3, <2>1 DEF Execute, TypeOK
  <2> QED
    BY <1>3, <2>2, <2>3 DEF Execute, TypeOK, view, waiting, calls
<1>4. CASE ExecuteFails \/ Ack
  BY <1>4 DEF ExecuteFails, Ack, MessageGone, TypeOK, view, waiting, calls,
     SomeBranch
<1>5. CASE Notify
  <2>1. /\ working.req \in Requests /\ working.status \in Statuses
        /\ working.at \in SomeBranch
    BY <1>5 DEF Notify, Idle
  <2>2. [req |-> working.req, at |-> working.at,
         status |-> working.status] \in Events
    BY <2>1 DEF Events, SomeBranch
  <2>3. wire' \in Seq(Events)
    <3>1. wire \in Seq(Events)
      BY DEF TypeOK
    <3> HIDE DEF TypeOK
    <3> QED
      BY <1>5, <2>2, <3>1, AppendProperties DEF Notify
  <2>4. working' \in [phase : Phases, req : Requests]
    BY <1>5, <2>1 DEF Notify, Phases
  <2> QED
    BY <1>5, <2>3, <2>4 DEF Notify, TypeOK, view, waiting, calls
<1>6. CASE WorkerDies
  <2>1. working.req \in Requests
    BY <1>6 DEF WorkerDies
  <2>2. <<working.req>> \in Seq(Requests)
    BY <2>1
  <2>3. queue' \in Seq(Requests)
    BY <1>6, <2>2, ConcatProperties DEF WorkerDies, TypeOK
  <2> QED
    BY <1>6, <2>1, <2>3 DEF WorkerDies, TypeOK, view, waiting, calls
<1>7. CASE ReservationEnds
  BY <1>7 DEF ReservationEnds, TypeOK, view, waiting, calls
<1> QED
  BY <1>1, <1>2, <1>3, <1>4, <1>5, <1>6, <1>7

-----------------------------------------------------------------------------
(* The page. *)

\* The page keeps its own invariant.
LEMMA Waits ==
    ASSUME TypeOK, WaitIsTimed, PatientInductive,
           \/ \E b \in Branches : OpenModal(b)
           \/ CloseModal \/ LeavePage \/ EnterPage
           \/ \E r \in Requests, b \in Branches : Confirm(r, b)
           \/ \E r \in Requests : Accepted(r) \/ Refused(r) \/ TimerFires(r)
    PROVE  WaitIsTimed' /\ PatientInductive'
<1> USE NoneApart DEF TypeOK, WaitIsTimed, PatientInductive, PatientDriver,
        InFlight, view, waiting, calls
<1>1. ASSUME NEW b \in Branches, OpenModal(b)
      PROVE  WaitIsTimed' /\ PatientInductive'
  BY <1>1 DEF OpenModal, StopWaiting, ForgetAllBut
<1>2. CASE CloseModal \/ EnterPage
  BY <1>2 DEF CloseModal, EnterPage
<1>3. CASE LeavePage
  BY <1>3 DEF LeavePage, Unmount, ForgetAllBut
<1>4. ASSUME NEW r \in Requests, NEW b \in Branches, Confirm(r, b)
      PROVE  WaitIsTimed' /\ PatientInductive'
  BY <1>4 DEF Confirm, Offered
<1>5. ASSUME NEW r \in Requests, Accepted(r)
      PROVE  WaitIsTimed' /\ PatientInductive'
  BY <1>5 DEF Accepted
<1>6. ASSUME NEW r \in Requests, Refused(r)
      PROVE  WaitIsTimed' /\ PatientInductive'
  BY <1>6 DEF Refused
<1>7. ASSUME NEW r \in Requests, TimerFires(r)
      PROVE  WaitIsTimed' /\ PatientInductive'
  BY <1>7 DEF TimerFires
<1> QED
  BY <1>1, <1>2, <1>3, <1>4, <1>5, <1>6, <1>7

\* The event that is waited for ends the wait.
LEMMA WaitsForEvent ==
    ASSUME TypeOK, WaitIsTimed, PatientInductive, OnResolved
    PROVE  WaitIsTimed' /\ PatientInductive'
<1> USE NoneApart DEF WaitIsTimed, PatientInductive, PatientDriver, InFlight
<1>1. UNCHANGED post
  BY DEF OnResolved
<1>2. CASE UNCHANGED <<view, waiting, from, awaited>>
  BY <1>1, <1>2 DEF view, waiting
<1>3. CASE Unmount
  BY <1>1, <1>3 DEF Unmount
<1>4. CASE /\ StopWaiting /\ pendingRequestId = Head(wire).req
           /\ suggestion' \in {suggestion, Head(wire)}
           /\ UNCHANGED <<page, branch, hurried, told, from, awaited>>
  <2>1. Head(wire).req \in Requests
    <3>1. wire \in Seq(Events) /\ wire # <<>>
      BY DEF OnResolved, TypeOK
    <3>2. Head(wire) \in Events
      BY <3>1, HeadTailProperties
    <3> QED
      BY <3>2 DEF Events
  <2>2. timeoutRef # None
    BY <1>4, <2>1
  <2> QED
    BY <1>1, <1>4, <2>1, <2>2 DEF StopWaiting
<1> QED
  BY <1>2, <1>3, <1>4 DEF OnResolved

\* What is behind the page does not touch it.
LEMMA WaitsApart ==
    ASSUME TypeOK, WaitIsTimed, PatientInductive,
           UNCHANGED <<view, waiting, from, awaited>>,
           \/ UNCHANGED post
           \/ \E r \in Requests : Enqueue(r)
    PROVE  WaitIsTimed' /\ PatientInductive'
<1>1. \A r \in Requests : InFlight(r) => InFlight(r)'
  <2>1. CASE UNCHANGED post
    BY <2>1 DEF InFlight
  <2>2. ASSUME NEW r \in Requests, Enqueue(r),
               NEW q \in Requests, InFlight(q)
        PROVE  InFlight(q)'
    BY <2>2 DEF Enqueue, RequestReservation, InFlight, TypeOK
  <2> QED
    BY <2>1, <2>2
<1> QED
  BY <1>1 DEF WaitIsTimed, PatientInductive, PatientDriver, view, waiting,
     TypeOK

-----------------------------------------------------------------------------
(* The queue and the worker. *)

\* The page sends a request but once.
LEMMA BackPage ==
    ASSUME TypeOK, BackInductive,
           \/ \E b \in Branches : OpenModal(b)
           \/ CloseModal \/ LeavePage \/ EnterPage
           \/ \E r \in Requests, b \in Branches : Confirm(r, b)
           \/ \E r \in Requests : Accepted(r) \/ Refused(r) \/ TimerFires(r)
    PROVE  BackInductive'
<1>1. UNCHANGED <<queue, working, made, redelivered, wire, told>>
  BY DEF OpenModal, CloseModal, LeavePage, EnterPage, Confirm, Accepted,
     Refused, TimerFires, view, worker
<1>2. ASSUME NEW q \in Requests, post'[q] \in {"none", "sent"}
      PROVE  post[q] \in {"none", "sent"}
  BY <1>2 DEF OpenModal, CloseModal, LeavePage, EnterPage, Confirm, Accepted,
     Refused, TimerFires, calls, TypeOK
<1> QED
  BY <1>1, <1>2 DEF BackInductive, OnePlace, FirstTime, HonestAnswer,
     RejectedOnRedelivery, Untouched, Answers, Queued

\* An event is announced as it came, or is lost.
LEMMA BackWire ==
    ASSUME TypeOK, BackInductive,
           OnResolved \/ RelayReconnects \/ SocketReconnects
    PROVE  BackInductive'
<1>1. UNCHANGED <<queue, working, made, redelivered, post>>
  BY DEF OnResolved, RelayReconnects, SocketReconnects, worker, calls
<1>2. Answers' \subseteq Answers
  <2>1. \A i \in DOMAIN wire' : \E j \in DOMAIN wire : wire'[i] = wire[j]
    <3>1. wire \in Seq(Events)
      BY DEF TypeOK
    <3>2. \/ wire # <<>> /\ wire' = Tail(wire)
          \/ \E n \in DOMAIN wire : wire' = SubSeq(wire, 1, n - 1)
          \/ \E n \in DOMAIN wire : wire' = SubSeq(wire, n + 1, Len(wire))
      BY DEF OnResolved, RelayReconnects, SocketReconnects
    <3> HIDE DEF Events
    <3> QED
      BY <3>1, <3>2, CutSeq
  <2> QED
    BY <2>1 DEF Answers
<1>3. told' \subseteq made
  <2>1. CASE told' = told
    BY <2>1 DEF BackInductive, HonestAnswer
  <2>2. CASE /\ OnResolved /\ told' = told \cup {Head(wire).req}
             /\ Head(wire).status = "CREATED"
    <3>1. wire \in Seq(Events) /\ wire # <<>>
      BY <2>2 DEF OnResolved, TypeOK
    <3>2. Head(wire) = wire[1] /\ 1 \in DOMAIN wire
      BY <3>1, HeadTailProperties
    <3>3. Head(wire) \in Answers
      BY <3>2 DEF Answers
    <3> QED
      BY <2>2, <3>3 DEF BackInductive, HonestAnswer
  <2> QED
    BY <2>1, <2>2 DEF OnResolved, RelayReconnects, SocketReconnects, view
<1> QED
  BY <1>1, <1>2, <1>3 DEF BackInductive, OnePlace, FirstTime, HonestAnswer,
     RejectedOnRedelivery, Untouched, Queued

\* A request is queued for the first time.
LEMMA BackEnqueue ==
    ASSUME TypeOK, BackInductive, NEW r \in Requests, Enqueue(r)
    PROVE  BackInductive'
<1>1. /\ UNCHANGED <<working, made, redelivered, wire, told>>
      /\ post[r] = "sent" /\ r \notin Queued /\ Untouched(r)
      /\ working # Idle => working.req # r
  BY DEF Enqueue, view, BackInductive, OnePlace
<1>2. \E p \in {"queued", "refused"} : post' = [post EXCEPT ![r] = p]
  BY DEF Enqueue, RequestReservation
<1>3. ASSUME NEW q \in Requests, post'[q] \in {"none", "sent"}
      PROVE  post[q] \in {"none", "sent"} /\ q # r
  BY <1>2, <1>3 DEF TypeOK
<1>4. /\ Queued' \subseteq Queued \cup {r}
      /\ \A i, j \in DOMAIN queue' : queue'[i] = queue'[j] => i = j
  <2>1. CASE queue' = queue
    BY <2>1 DEF Queued, BackInductive, OnePlace
  <2>2. CASE queue' = Append(queue, r)
    <3>1. queue \in Seq(Requests)
      BY DEF TypeOK
    <3>2. /\ DOMAIN queue = 1..Len(queue) /\ Len(queue) \in Nat
          /\ DOMAIN queue' = 1..(Len(queue) + 1)
          /\ \A i \in DOMAIN queue : queue'[i] = queue[i]
          /\ queue'[Len(queue) + 1] = r
      BY <2>2, <3>1, AppendProperties
    <3>3. \A i \in DOMAIN queue : queue[i] # r
      BY <1>1 DEF Queued
    <3>4. \A i \in DOMAIN queue' :
             i \in DOMAIN queue \/ i = Len(queue) + 1
      BY <3>2
    <3> QED
      BY <3>2, <3>3, <3>4 DEF Queued, BackInductive, OnePlace
  <2> QED
    BY <2>1, <2>2 DEF Enqueue, RequestReservation, Publish
<1> QED
  BY <1>1, <1>3, <1>4 DEF BackInductive, OnePlace, FirstTime, HonestAnswer,
     RejectedOnRedelivery, Untouched, Answers

\* The worker takes it off the queue.
LEMMA BackDeliver ==
    ASSUME TypeOK, BackInductive, Deliver
    PROVE  BackInductive'
<1>1. /\ UNCHANGED <<post, made, redelivered, wire, told>>
      /\ working' = [phase |-> "executing", req |-> Head(queue)]
  BY DEF Deliver, view, calls
<1>2. /\ DOMAIN queue = 1..Len(queue) /\ Len(queue) \in Nat \ {0}
      /\ DOMAIN queue' = 1..(Len(queue) - 1)
      /\ \A i \in DOMAIN queue' : queue'[i] = queue[i + 1]
      /\ Head(queue) = queue[1]
  <2>1. queue \in Seq(Requests) /\ queue # <<>> /\ queue' = Tail(queue)
    BY DEF Deliver, TypeOK
  <2> QED
    BY <2>1, HeadTailProperties, EmptySeq
<1>3. Head(queue) \in Queued /\ Head(queue) \in Requests
  BY <1>2, HeadTailProperties DEF Queued, TypeOK, Deliver
<1>4. /\ \A i, j \in DOMAIN queue' : queue'[i] = queue'[j] => i = j
      /\ Queued' \subseteq Queued /\ Head(queue) \notin Queued'
  <2>1. \A i \in DOMAIN queue' : i + 1 \in DOMAIN queue /\ i + 1 # 1
    BY <1>2
  <2>2. \A i, j \in DOMAIN queue : queue[i] = queue[j] => i = j
    BY DEF BackInductive, OnePlace
  <2>3. 1 \in DOMAIN queue
    BY <1>2
  <2>4. Queued' \subseteq Queued /\ Head(queue) \notin Queued'
    BY <1>2, <2>1, <2>2, <2>3 DEF Queued
  <2>5. ASSUME NEW i \in DOMAIN queue', NEW j \in DOMAIN queue',
               queue'[i] = queue'[j]
        PROVE  i = j
    <3>1. i + 1 = j + 1
      BY <1>2, <2>1, <2>2, <2>5
    <3> QED
      BY <1>2, <3>1
  <2> QED
    BY <2>4, <2>5
<1> QED
  BY <1>1, <1>3, <1>4 DEF BackInductive, OnePlace, FirstTime, HonestAnswer,
     RejectedOnRedelivery, Untouched, Answers

\* It is resolved.
LEMMA BackExecute ==
    ASSUME TypeOK, BackInductive, Execute
    PROVE  BackInductive'
<1> DEFINE r == working.req
<1>1. /\ UNCHANGED <<post, queue, redelivered, wire, told>>
      /\ working.phase = "executing" /\ working # Idle
      /\ working'.phase = "resolved" /\ working'.req = r
  BY DEF Execute, view, calls, Assign, Resolution, Idle
<1>2. \/ working'.status = "CREATED" /\ made' = made \cup {r}
      \/ working'.status # "CREATED" /\ made' = made
  BY DEF Execute
<1>3. /\ r \in Requests /\ r \notin Queued
      /\ post[r] \notin {"none", "sent"}
      /\ r \notin redelivered => Untouched(r)
  BY <1>1, WorkShapes DEF BackInductive, OnePlace, FirstTime
<1>4. OnePlace'
  BY <1>1, <1>2, <1>3 DEF BackInductive, OnePlace, Untouched, Answers, Queued
<1>5. FirstTime'
  BY <1>1, <1>2, <1>3 DEF BackInductive, FirstTime, Untouched, Answers, Queued
<1>6. HonestAnswer'
  BY <1>1, <1>2 DEF BackInductive, HonestAnswer, Answers
<1>7. RejectedOnRedelivery'
  BY <1>1, <1>2, <1>3 DEF BackInductive, RejectedOnRedelivery, Untouched,
     Answers
<1> QED
  BY <1>4, <1>5, <1>6, <1>7 DEF BackInductive

\* Its outcome is published, or that fails.
LEMMA BackNotify ==
    ASSUME TypeOK, BackInductive, Notify
    PROVE  BackInductive'
<1> DEFINE e == [req |-> working.req, at |-> working.at,
                 status |-> working.status]
<1>1. /\ UNCHANGED <<post, queue, made, redelivered, told>>
      /\ working.phase = "resolved" /\ working # Idle
      /\ working' = [phase |-> "notified", req |-> working.req]
  BY DEF Notify, view, calls, Idle
<1>2. Answers' \subseteq Answers \cup {e}
  <2>1. wire \in Seq(Events)
    BY DEF TypeOK
  <2>2. e \in Events
    BY <1>1, WorkShapes DEF Events, SomeBranch
  <2>3. CASE wire' = Append(wire, e)
    <3>1. /\ DOMAIN wire' = 1..(Len(wire) + 1) /\ Len(wire) \in Nat
          /\ DOMAIN wire = 1..Len(wire)
          /\ \A i \in DOMAIN wire : wire'[i] = wire[i]
          /\ wire'[Len(wire) + 1] = e
      BY <2>1, <2>2, <2>3, AppendProperties
    <3>2. \A i \in DOMAIN wire' : i \in DOMAIN wire \/ i = Len(wire) + 1
      BY <3>1
    <3> HIDE DEF e
    <3> QED
      BY <3>1, <3>2 DEF Answers
  <2>4. CASE wire' = wire
    BY <2>4 DEF Answers
  <2> QED
    BY <2>3, <2>4 DEF Notify
<1>3. /\ working.req \in Requests /\ working.req \notin Queued
      /\ post[working.req] \notin {"none", "sent"}
      /\ e.status = "CREATED" => e.req \in made
      /\ e.status = "REJECTED" /\ e.req \in made => e.req \in redelivered
  BY <1>1, WorkShapes DEF BackInductive, OnePlace, FirstTime
<1>4. OnePlace'
  BY <1>1, <1>2, <1>3 DEF BackInductive, OnePlace, Untouched, Queued, Idle
<1>5. FirstTime'
  BY <1>1, <1>2, <1>3 DEF BackInductive, FirstTime, Untouched, Queued
<1>6. HonestAnswer' /\ RejectedOnRedelivery'
  BY <1>1, <1>2, <1>3 DEF BackInductive, HonestAnswer, RejectedOnRedelivery
<1> QED
  BY <1>4, <1>5, <1>6 DEF BackInductive

\* It is acked, given up, or queued once more.
LEMMA BackLetsGo ==
    ASSUME TypeOK, BackInductive,
           ExecuteFails \/ Ack \/ WorkerDies \/ ReservationEnds
    PROVE  BackInductive'
<1>1. UNCHANGED <<post, wire, told>>
  BY DEF ExecuteFails, Ack, WorkerDies, ReservationEnds, view, calls
<1>2. CASE Ack \/ ReservationEnds
  <2>1. UNCHANGED <<queue, made, redelivered>> /\ working' \in {Idle, working}
    BY <1>2 DEF Ack, ReservationEnds
  <2> QED
    BY <1>1, <2>1 DEF BackInductive, OnePlace, FirstTime, HonestAnswer,
       RejectedOnRedelivery, Untouched, Answers, Queued, Idle
<1>3. CASE ExecuteFails
  <2> DEFINE r == working.req
  <2>1. /\ UNCHANGED <<queue, redelivered>> /\ working' = Idle
        /\ made' \in {made, made \cup {r}}
        /\ working.phase = "executing" /\ working # Idle
    BY <1>3 DEF ExecuteFails, Idle
  <2>2. /\ r \in Requests /\ r \notin Queued
        /\ post[r] \notin {"none", "sent"}
        /\ r \notin redelivered => Untouched(r)
    BY <2>1, WorkShapes DEF BackInductive, OnePlace, FirstTime
  <2> QED
    BY <1>1, <2>1, <2>2 DEF BackInductive, OnePlace, FirstTime, HonestAnswer,
       RejectedOnRedelivery, Untouched, Answers, Queued, Idle
<1>4. CASE WorkerDies
  <2> DEFINE r == working.req
  <2>1. /\ working # Idle /\ working' = Idle /\ made' = made
        /\ redelivered' = redelivered \cup {r} /\ r \in Requests
        /\ r \notin Queued /\ post[r] \notin {"none", "sent"}
    BY <1>4, WorkShapes DEF WorkerDies, BackInductive, OnePlace
  <2>2. /\ DOMAIN queue = 1..Len(queue) /\ Len(queue) \in Nat
        /\ DOMAIN queue' = 1..(Len(queue) + 1)
        /\ queue'[1] = r
        /\ \A i \in DOMAIN queue' : i # 1 => /\ i - 1 \in DOMAIN queue
                                           /\ queue'[i] = queue[i - 1]
    <3>1. queue \in Seq(Requests) /\ <<r>> \in Seq(Requests)
          /\ Len(<<r>>) = 1 /\ <<r>>[1] = r
      BY <2>1 DEF TypeOK
    <3>2. queue' = <<r>> \o queue
      BY <1>4 DEF WorkerDies
    <3> HIDE DEF r
    <3>3. /\ Len(queue') = 1 + Len(queue) /\ queue' \in Seq(Requests)
          /\ \A i \in 1..(1 + Len(queue)) :
                queue'[i] = IF i <= 1 THEN <<r>>[i] ELSE queue[i - 1]
      BY <3>1, <3>2, ConcatProperties
    <3>4. /\ DOMAIN queue = 1..Len(queue) /\ Len(queue) \in Nat
          /\ DOMAIN queue' = 1..Len(queue')
      BY <3>1, <3>3
    <3> QED
      BY <3>1, <3>3, <3>4
  <2>3. Queued' \subseteq Queued \cup {r}
    BY <2>2 DEF Queued
  <2>4. ASSUME NEW i \in DOMAIN queue', NEW j \in DOMAIN queue',
               queue'[i] = queue'[j]
        PROVE  i = j
    <3>1. \A k \in DOMAIN queue : queue[k] # r
      BY <2>1 DEF Queued
    <3>2. i = 1 <=> j = 1
      BY <2>2, <2>4, <3>1
    <3>3. i # 1 => i - 1 = j - 1
      BY <2>2, <2>4, <3>2 DEF BackInductive, OnePlace
    <3> QED
      BY <2>2, <3>2, <3>3
  <2> QED
    BY <1>1, <2>1, <2>3, <2>4 DEF BackInductive, OnePlace, FirstTime,
       HonestAnswer, RejectedOnRedelivery, Untouched, Answers, Idle
<1> QED
  BY <1>2, <1>3, <1>4

-----------------------------------------------------------------------------
(* Every behaviour. *)

\* Nothing is asked, queued or made.
LEMMA InitHolds == Init => ReservationsInductive
<1> SUFFICES ASSUME Init PROVE ReservationsInductive
  OBVIOUS
<1> USE DEF Init
<1>1. TypeOK
  <2>1. queue \in Seq(Requests) /\ wire \in Seq(Events)
    OBVIOUS
  <2>2. /\ post \in [Requests -> {"none", "sent", "queued", "refused", "done"}]
        /\ from \in [Requests -> SomeBranch]
        /\ asked \in [Requests -> SomeBranch]
    BY DEF SomeBranch
  <2> QED
    BY <2>1, <2>2 DEF TypeOK, SomeBranch
<1>2. WaitIsTimed /\ PatientInductive
  BY DEF WaitIsTimed, PatientInductive, PatientDriver
<1>3. DOMAIN queue = {} /\ DOMAIN wire = {}
  OBVIOUS
<1>4. BackInductive
  BY <1>3 DEF BackInductive, OnePlace, FirstTime, HonestAnswer,
     RejectedOnRedelivery, Untouched, Answers, Queued, Idle
<1> QED
  BY <1>1, <1>2, <1>4 DEF ReservationsInductive

\* Every step keeps both.
LEMMA StepHolds ==
    ReservationsInductive /\ [Next]_vars => ReservationsInductive'
<1> SUFFICES ASSUME ReservationsInductive, [Next]_vars
             PROVE  ReservationsInductive'
  OBVIOUS
<1> USE DEF ReservationsInductive
<1>1. CASE UNCHANGED vars
  BY <1>1 DEF vars, view, waiting, calls, worker, TypeOK, WaitIsTimed,
     PatientInductive, PatientDriver, InFlight, BackInductive, OnePlace,
     FirstTime, HonestAnswer, RejectedOnRedelivery, Untouched, Answers, Queued
<1>2. CASE \/ \E b \in Branches : OpenModal(b)
           \/ CloseModal \/ LeavePage \/ EnterPage
           \/ \E r \in Requests, b \in Branches : Confirm(r, b)
           \/ \E r \in Requests : Accepted(r) \/ Refused(r) \/ TimerFires(r)
  <2>1. TypeOK'
    BY <1>2, TypePage
  <2>2. WaitIsTimed' /\ PatientInductive'
    BY <1>2, Waits
  <2>3. BackInductive'
    BY <1>2, BackPage
  <2> QED
    BY <2>1, <2>2, <2>3
<1>3. CASE OnResolved
  BY <1>3, TypeWire, WaitsForEvent, BackWire
<1>4. CASE RelayReconnects \/ SocketReconnects
  <2>1. UNCHANGED <<view, waiting, from, awaited, post>>
    BY <1>4 DEF RelayReconnects, SocketReconnects, calls
  <2> QED
    BY <1>4, <2>1, TypeWire, WaitsApart, BackWire
<1>5. ASSUME NEW r \in Requests, Enqueue(r)
      PROVE  ReservationsInductive'
  <2>1. UNCHANGED <<view, waiting, from, awaited>>
    BY <1>5 DEF Enqueue
  <2> QED
    BY <1>5, <2>1, TypeWorker, WaitsApart, BackEnqueue
<1>6. CASE \/ Deliver \/ Execute \/ ExecuteFails \/ Notify \/ Ack
           \/ WorkerDies \/ ReservationEnds
  <2>1. UNCHANGED <<view, waiting, from, awaited, post>>
    BY <1>6 DEF Deliver, Execute, ExecuteFails, Notify, Ack, WorkerDies,
       ReservationEnds, calls
  <2>2. BackInductive'
    BY <1>6, BackDeliver, BackExecute, BackNotify, BackLetsGo
  <2> QED
    BY <1>6, <2>1, <2>2, TypeWorker, WaitsApart
<1> QED
  BY <1>1, <1>2, <1>3, <1>4, <1>5, <1>6 DEF Next

\* The invariant, in every behaviour.
LEMMA ReservationsHold == Spec => []ReservationsInductive
  BY InitHolds, StepHolds, PTL DEF Spec

\* Whatever the order of answers, events, timers and reopenings, a request
\* that is waited for has its timer armed.
THEOREM WaitIsTimedTheorem == Spec => []WaitIsTimed
<1>1. ReservationsInductive => WaitIsTimed
  BY DEF ReservationsInductive
<1> QED
  BY <1>1, ReservationsHold, PTL

\* A driver who does not hurry has one request in flight, sees only suggestions
\* for the branch the modal is on, and no wait of his is cut short.
THEOREM PatientDriverTheorem == Spec => []PatientDriver
<1>1. ReservationsInductive => PatientDriver
  BY DEF ReservationsInductive, PatientInductive
<1> QED
  BY <1>1, ReservationsHold, PTL

\* "Reserva creada" is only said of a request that made a reservation, for any
\* number of requests and branches.
THEOREM HonestAnswerTheorem == Spec => []HonestAnswer
<1>1. ReservationsInductive => HonestAnswer
  BY DEF ReservationsInductive, BackInductive
<1> QED
  BY <1>1, ReservationsHold, PTL

\* A request that made a reservation is answered REJECTED only when a worker
\* died before it acked it.
THEOREM RedeliveryTheorem == Spec => []RejectedOnRedelivery
<1>1. ReservationsInductive => RejectedOnRedelivery
  BY DEF ReservationsInductive, BackInductive
<1> QED
  BY <1>1, ReservationsHold, PTL

\* Pages, requests, queue and worker keep their types.
THEOREM ReservationsType == Spec => []TypeOK
<1>1. ReservationsInductive => TypeOK
  BY DEF ReservationsInductive
<1> QED
  BY <1>1, ReservationsHold, PTL

-----------------------------------------------------------------------------
(* The queue, as RabbitConnection keeps it.                                  *)

\* What is asked of the broker is published, or counts as over.
LEMMA EnqueueAccepts ==
    ASSUME TypeOK, OnePlace, NEW r \in Requests, Enqueue(r)
    PROVE  Queue!Accept(r) \/ Queue!Decline(r)
<1>1. /\ post[r] = "sent" /\ r \notin Queued \cup Delivered
      /\ working' = working
  BY DEF Enqueue, OnePlace, Delivered
<1>2. r \in Queue!Unsent
  BY <1>1 DEF Queue!Unsent, Settled
<1>3. Delivered' = Delivered
  BY <1>1 DEF Delivered
<1>4. PICK p \in {"queued", "refused"} : post' = [post EXCEPT ![r] = p]
  BY DEF Enqueue, RequestReservation
<1>5. \A q \in Requests : post'[q] \notin {"none", "sent"}
                             <=> q = r \/ post[q] \notin {"none", "sent"}
  BY <1>4 DEF TypeOK
<1>6. CASE queue' = queue
  <2>1. Queued' = Queued
    BY <1>6 DEF Queued
  <2>2. Settled' = Settled \cup {r}
    BY <1>1, <1>3, <1>5, <2>1 DEF Settled
  <2> QED
    BY <1>2, <1>3, <2>1, <2>2 DEF Queue!Decline
<1>7. CASE queue' = Append(queue, r)
  <2>1. queue \in Seq(Requests)
    BY DEF TypeOK
  <2>2. /\ DOMAIN queue = 1..Len(queue) /\ Len(queue) \in Nat
        /\ DOMAIN queue' = 1..(Len(queue) + 1)
        /\ \A i \in DOMAIN queue : queue'[i] = queue[i]
        /\ queue'[Len(queue) + 1] = r
    BY <1>7, <2>1, AppendProperties
  <2>3. Queued' = Queued \cup {r}
    <3>1. \A i \in DOMAIN queue' : i \in DOMAIN queue \/ i = Len(queue) + 1
      BY <2>2
    <3>2. /\ DOMAIN queue \subseteq DOMAIN queue'
          /\ Len(queue) + 1 \in DOMAIN queue'
      BY <2>2
    <3> QED
      BY <2>2, <3>1, <3>2 DEF Queued
  <2>4. Settled' = Settled
    BY <1>1, <1>3, <1>5, <2>3 DEF Settled
  <2> QED
    BY <1>2, <1>3, <2>3, <2>4 DEF Queue!Accept
<1> QED
  BY <1>6, <1>7 DEF Enqueue, RequestReservation, Publish

\* The worker has none when it takes the first.
LEMMA DeliverTakes ==
    ASSUME TypeOK, OnePlace, Deliver
    PROVE  \E r \in Requests : Queue!Take(r)
<1> DEFINE r == Head(queue)
<1>1. /\ working = Idle /\ post' = post
      /\ working' = [phase |-> "executing", req |-> r]
  BY DEF Deliver, calls
<1>2. /\ DOMAIN queue = 1..Len(queue) /\ Len(queue) \in Nat \ {0}
      /\ DOMAIN queue' = 1..(Len(queue) - 1)
      /\ \A i \in DOMAIN queue' : queue'[i] = queue[i + 1]
      /\ r = queue[1] /\ r \in Requests
  <2>1. queue \in Seq(Requests) /\ queue # <<>> /\ queue' = Tail(queue)
    BY DEF Deliver, TypeOK
  <2> QED
    BY <2>1, HeadTailProperties, EmptySeq
<1> HIDE DEF r
<1>3. Queued' = Queued \ {r} /\ r \in Queued
  <2>1. 1 \in DOMAIN queue
    BY <1>2
  <2>2. \A i \in DOMAIN queue' : i + 1 \in DOMAIN queue /\ i + 1 # 1
    BY <1>2
  <2>3. \A i \in DOMAIN queue :
           i # 1 => i - 1 \in DOMAIN queue' /\ queue'[i - 1] = queue[i]
    BY <1>2
  <2>4. \A i \in DOMAIN queue : queue[i] = r => i = 1
    BY <1>2, <2>1 DEF OnePlace
  <2>5. r \in Queued
    BY <1>2, <2>1 DEF Queued
  <2>6. r \notin Queued' /\ Queued' \subseteq Queued
    BY <1>2, <2>2, <2>4 DEF Queued
  <2>7. \A i \in DOMAIN queue : queue[i] # r => queue[i] \in Queued'
    BY <1>2, <2>3 DEF Queued
  <2>8. Queued \ {r} \subseteq Queued'
    BY <2>7 DEF Queued
  <2> QED
    BY <2>5, <2>6, <2>8
<1>4. Delivered = {} /\ Delivered' = {r}
  BY <1>1 DEF Delivered, Idle
<1>5. Settled' = Settled
  BY <1>1, <1>3, <1>4 DEF Settled
<1> QED
  BY <1>2, <1>3, <1>4, <1>5 DEF Queue!Take

\* An acknowledgement, or a failure, ends the request; a death gives it back.
LEMMA LetsGoSettles ==
    ASSUME TypeOK, OnePlace, ExecuteFails \/ Ack \/ WorkerDies
    PROVE  Queue!QueueNext
<1> DEFINE r == working.req
<1>1. /\ working # Idle /\ working' = Idle /\ post' = post /\ r \in Requests
      /\ r \notin Queued /\ post[r] \notin {"none", "sent"}
  BY WorkShapes DEF ExecuteFails, Ack, WorkerDies, OnePlace, calls
<1>2. Delivered = {r} /\ Delivered' = {}
  BY <1>1 DEF Delivered
<1> HIDE DEF r
<1>3. CASE queue' = queue
  <2>1. Queued' = Queued
    BY <1>3 DEF Queued
  <2>2. Settled' = Settled \cup {r}
    BY <1>1, <1>2, <2>1 DEF Settled
  <2>3. Queue!Settle(r)
    BY <1>2, <2>1, <2>2 DEF Queue!Settle
  <2> QED
    BY <1>1, <2>3 DEF Queue!QueueNext
<1>4. CASE queue' = <<r>> \o queue
  <2>1. queue \in Seq(Requests) /\ <<r>> \in Seq(Requests)
        /\ Len(<<r>>) = 1 /\ <<r>>[1] = r
    BY <1>1 DEF TypeOK
  <2>2. /\ Len(queue') = 1 + Len(queue) /\ queue' \in Seq(Requests)
        /\ \A i \in 1..(1 + Len(queue)) :
              queue'[i] = IF i <= 1 THEN <<r>>[i] ELSE queue[i - 1]
    BY <2>1, <1>4, ConcatProperties
  <2>3. /\ DOMAIN queue = 1..Len(queue) /\ Len(queue) \in Nat
        /\ DOMAIN queue' = 1..(Len(queue) + 1)
    BY <2>1, <2>2
  <2>4. Queued' = Queued \cup {r}
    <3>1. 1 \in DOMAIN queue' /\ queue'[1] = r
      BY <2>1, <2>2, <2>3
    <3>2. \A i \in DOMAIN queue' :
             i # 1 => i - 1 \in DOMAIN queue /\ queue'[i] = queue[i - 1]
      BY <2>2, <2>3
    <3>3. \A i \in DOMAIN queue :
             i + 1 \in DOMAIN queue' /\ queue'[i + 1] = queue[i]
      BY <2>2, <2>3
    <3> QED
      BY <3>1, <3>2, <3>3 DEF Queued
  <2>5. Settled' = Settled
    BY <1>1, <1>2, <2>4 DEF Settled
  <2>6. Queue!GiveBack({r})
    BY <1>2, <2>4, <2>5 DEF Queue!GiveBack
  <2> QED
    BY <1>2, <2>6 DEF Queue!QueueNext
<1> QED
  BY <1>3, <1>4 DEF ExecuteFails, Ack, WorkerDies, r

\* What does not concern the queue.
LEMMA QueueStandsStill ==
    ASSUME TypeOK, UNCHANGED queue, Delivered' = Delivered,
           \A r \in Requests : post'[r] \in {"none", "sent"}
                                  <=> post[r] \in {"none", "sent"}
    PROVE  UNCHANGED Queue!queueVars
<1>1. Queued' = Queued
  BY DEF Queued
<1>2. Settled' = Settled
  BY <1>1 DEF Settled
<1> QED
  BY <1>1, <1>2 DEF Queue!queueVars

\* Every step of the page, the API, the worker and the way back is one of the
\* queue's or does not concern it.
LEMMA QueueSteps ==
    ReservationsInductive /\ [Next]_vars
        => [Queue!QueueNext]_(Queue!queueVars)
<1> SUFFICES ASSUME ReservationsInductive, [Next]_vars
             PROVE  [Queue!QueueNext]_(Queue!queueVars)
  OBVIOUS
<1> USE DEF ReservationsInductive, BackInductive
<1>1. ASSUME NEW r \in Requests, Enqueue(r)
      PROVE  [Queue!QueueNext]_(Queue!queueVars)
  BY <1>1, EnqueueAccepts DEF Queue!QueueNext
<1>2. CASE Deliver
  BY <1>2, DeliverTakes DEF Queue!QueueNext
<1>3. CASE ExecuteFails \/ Ack \/ WorkerDies
  BY <1>3, LetsGoSettles
<1>4. CASE Execute \/ Notify
  <2>1. /\ UNCHANGED <<queue, post>> /\ working # Idle /\ working' # Idle
        /\ working'.req = working.req
    BY <1>4 DEF Execute, Notify, Assign, Resolution, Idle, calls
  <2>2. Delivered' = Delivered
    BY <2>1 DEF Delivered
  <2> QED
    BY <2>1, <2>2, QueueStandsStill
<1>5. ASSUME UNCHANGED <<queue, working>>,
             \A r \in Requests : post'[r] \in {"none", "sent"}
                                    <=> post[r] \in {"none", "sent"}
      PROVE  [Queue!QueueNext]_(Queue!queueVars)
  BY <1>5, QueueStandsStill DEF Delivered
<1>6. ASSUME NEW r \in Requests, NEW b \in Branches,
             Confirm(r, b)
      PROVE  [Queue!QueueNext]_(Queue!queueVars)
  <2>1. UNCHANGED <<queue, working>>
    BY <1>6 DEF Confirm, worker
  <2>2. \A q \in Requests : post'[q] \in {"none", "sent"}
                               <=> post[q] \in {"none", "sent"}
    BY <1>6 DEF TypeOK, Confirm, calls
  <2> QED
    BY <1>5, <2>1, <2>2
<1>7. ASSUME UNCHANGED <<queue, working, post>>
      PROVE  [Queue!QueueNext]_(Queue!queueVars)
  BY <1>5, <1>7
<1>8. CASE \/ \E b \in Branches : OpenModal(b)
           \/ CloseModal \/ LeavePage \/ EnterPage \/ OnResolved
           \/ ReservationEnds \/ RelayReconnects \/ SocketReconnects
           \/ UNCHANGED vars
  BY <1>7, <1>8 DEF OpenModal, CloseModal, LeavePage, EnterPage, OnResolved,
     ReservationEnds, RelayReconnects, SocketReconnects, vars, worker, calls
<1>9. \A r \in Requests : Accepted(r) \/ Refused(r) \/ TimerFires(r)
         => [Queue!QueueNext]_(Queue!queueVars)
  <2> SUFFICES ASSUME NEW r \in Requests,
                      Accepted(r) \/ Refused(r) \/ TimerFires(r)
               PROVE  [Queue!QueueNext]_(Queue!queueVars)
    OBVIOUS
  <2>1. UNCHANGED <<queue, working>>
    BY DEF Accepted, Refused, TimerFires, worker
  <2>2. \A q \in Requests : post'[q] \in {"none", "sent"}
                               <=> post[q] \in {"none", "sent"}
    BY DEF TypeOK, Accepted, Refused, TimerFires, calls
  <2> QED
    BY <1>5, <2>1, <2>2
<1> QED
  BY <1>1, <1>2, <1>3, <1>4, <1>6, <1>8, <1>9 DEF Next

\* Between the API and the worker a request is in one place, never vanishes,
\* and comes back when the worker that has it dies: what the consumer of
\* RabbitConnection makes of the queue is what this model relies on.
THEOREM RequestsUseQueue == Spec => ImplementsQueue
<1>1. Init => Queue!QueueInit
  BY DEF Init, Queued, Delivered, Settled, Idle, Queue!QueueInit
<1>2. ReservationsInductive /\ [Next]_vars
        => [Queue!QueueNext]_(Queue!queueVars)
  BY QueueSteps
<1> QED
  BY <1>1, <1>2, ReservationsHold, PTL DEF Spec, ImplementsQueue,
     Queue!QueueSpec
=============================================================================
