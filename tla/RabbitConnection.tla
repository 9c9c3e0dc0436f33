--------------------------- MODULE RabbitConnection ---------------------------
(* One reservations-worker process: its AMQP connection, how it reconnects,  *)
(* and the consumer of the queue of requests that rides on it, prefetch 1.   *)
(*                                                                           *)
(* The process sees a dead connection when its 'close' event is delivered;   *)
(* the broker has requeued what was unacknowledged by then. A handler keeps  *)
(* the channel its message came on, whatever happened to it since.           *)
EXTENDS Naturals

CONSTANTS
    Conns,    \* connections the process can hold at a time (a bound)
    Messages, \* requests published to the queue
    None

ASSUME RabbitAssumption == None \notin Conns \cup Messages

VARIABLES
    \* the fields of RabbitMqConnection
    channel,    \* the connection of the channel in use, or null
    connecting, \* the connection being set up, or null
    asker,      \* who awaits it, as far as its failure is concerned
    timer,      \* reconnectTimer is set
    \* the process around them
    conn,       \* state of each connection
    handling,   \* the message each channel's callback is working on
    late,       \* an occupancy query will publish when it is done
    \* the broker
    brokerUp, ready, unacked, acked, dead,
    \* history and environment
    processed,  \* messages that execute has run to its end for
    startFailed, \* the first attempt of this process failed
    calm        \* no more faults from now on

fields == <<channel, connecting, asker, timer>>
broker == <<brokerUp, ready, unacked, acked, dead>>
history == <<processed, startFailed>>
vars == <<fields, conn, handling, late, broker, history, calm>>

\* none: no such connection; opening: amqp.connect, the channel and topology
\* are awaited; open: 'close' listeners are set; consuming: subscribed too;
\* mute: its channel was closed alone; lost: dead, the process does not know.
ConnStates == {"none", "opening", "open", "consuming", "mute", "lost"}

Alive(i) == conn[i] \in {"open", "consuming", "mute"}
Unused(i) == conn[i] = "none" /\ handling[i] = None

Requeue(S) ==
    /\ ready' = ready \cup ({unacked[i] : i \in S} \ {None})
    /\ unacked' = [i \in Conns |-> IF i \in S THEN None ELSE unacked[i]]

-----------------------------------------------------------------------------
\* onModuleInit: the first connection attempt is on its way.
Init ==
    /\ channel = None
    /\ \E i \in Conns :
          /\ connecting = i
          /\ conn = [j \in Conns |-> IF j = i THEN "opening" ELSE "none"]
    /\ asker = "init"
    /\ timer = FALSE
    /\ handling = [i \in Conns |-> None]
    /\ late = FALSE
    /\ brokerUp \in BOOLEAN
    /\ ready = Messages /\ acked = {} /\ dead = {}
    /\ processed = {} /\ startFailed = FALSE
    /\ unacked = [i \in Conns |-> None]
    /\ calm = FALSE

\* connect() when no attempt is in progress.
Connect(i, who) ==
    /\ connecting = None
    /\ Unused(i)
    /\ connecting' = i
    /\ asker' = who
    /\ conn' = [conn EXCEPT ![i] = "opening"]

\* openChannel resolves: this.channel is set.
OpenSucceeds(i) ==
    /\ connecting = i /\ conn[i] = "opening"
    /\ brokerUp
    /\ conn' = [conn EXCEPT ![i] = "open"]
    /\ channel' = i
    /\ UNCHANGED <<connecting, asker, timer, handling, late, broker,
                   history, calm>>

\* openChannel rejects, at the connection, the channel or the topology, the
\* broker being up or not: only the timer's callback schedules another attempt;
\* onModuleInit logs, and a publication fails.
OpenFails(i) ==
    /\ connecting = i /\ conn[i] = "opening"
    /\ ~brokerUp \/ ~calm
    /\ conn' = [conn EXCEPT ![i] = "none"]
    /\ connecting' = None
    /\ timer' = (timer \/ asker = "timer")
    /\ startFailed' = (startFailed \/ asker = "init")
    /\ UNCHANGED <<channel, asker, handling, late, broker, processed, calm>>

\* The ready handlers ran: prefetch and consume.
Subscribe(i) ==
    /\ connecting = i /\ conn[i] = "open"
    /\ conn' = [conn EXCEPT ![i] = "consuming"]
    /\ connecting' = None
    /\ UNCHANGED <<channel, asker, timer, handling, late, broker, history,
                   calm>>

\* The 'close' event of a connection, whichever one this.channel is of. A
\* subscription in progress on it fails, and with it ends connect().
OnClose(i) ==
    /\ conn[i] = "lost"
    /\ conn' = [conn EXCEPT ![i] = "none"]
    /\ channel' = None
    /\ connecting' = IF connecting = i THEN None ELSE connecting
    /\ timer' = TRUE
    /\ UNCHANGED <<asker, handling, late, broker, history, calm>>

\* Mutant: the callback of the timer does not catch the failure of connect().
TimerFiresOnce(i) ==
    /\ timer
    /\ timer' = FALSE
    /\ IF connecting = None
       THEN Connect(i, "publish")
       ELSE UNCHANGED <<connecting, asker, conn>>
    /\ UNCHANGED <<channel, handling, late, broker, history, calm>>

\* The timer calls connect(), whether or not there is a channel by now.
TimerFires(i) ==
    /\ timer
    /\ timer' = FALSE
    /\ IF connecting = None
       THEN Connect(i, "timer")
       ELSE asker' = "timer" /\ UNCHANGED <<connecting, conn>>
    /\ UNCHANGED <<channel, handling, late, broker, history, calm>>

\* A realtime event is published: getChannel() connects if it has to.
Publish(i) ==
    /\ late \/ \E j \in Conns : handling[j] # None
    /\ channel = None
    /\ Connect(i, "publish")
    /\ UNCHANGED <<channel, timer, handling, late, broker, history, calm>>

\* The occupancy query of a request that was handled is over.
PublishLate ==
    /\ late
    /\ late' = FALSE
    /\ UNCHANGED <<fields, conn, handling, broker, history, calm>>

-----------------------------------------------------------------------------
\* Mutant: consume is called with noAck.
DeliverNoAck(i, m) ==
    /\ conn[i] = "consuming" /\ brokerUp
    /\ m \in ready
    /\ handling[i] = None
    /\ ready' = ready \ {m}
    /\ acked' = acked \cup {m}
    /\ handling' = [handling EXCEPT ![i] = m]
    /\ UNCHANGED <<fields, conn, late, brokerUp, unacked, dead, history,
                   calm>>

\* The broker delivers a request to a consumer that has none unacknowledged.
Deliver(i, m) ==
    /\ conn[i] = "consuming" /\ brokerUp
    /\ unacked[i] = None
    /\ m \in ready
    /\ ready' = ready \ {m}
    /\ unacked' = [unacked EXCEPT ![i] = m]
    /\ handling' = [handling EXCEPT ![i] = m]
    /\ UNCHANGED <<fields, conn, late, brokerUp, acked, dead, history, calm>>

\* execute returns and ack is written. On a dead socket it goes nowhere.
HandleSucceeds(i) ==
    /\ handling[i] # None
    /\ conn[i] \in {"consuming", "lost"}
    /\ processed' = processed \cup {handling[i]}
    /\ handling' = [handling EXCEPT ![i] = None]
    /\ acked' = acked \cup ({unacked[i]} \ {None})
    /\ unacked' = [unacked EXCEPT ![i] = None]
    /\ late' = TRUE
    /\ UNCHANGED <<fields, conn, brokerUp, ready, dead, startFailed, calm>>

\* Mutant: the message of a request that failed is neither acked nor nacked.
HandleFailsSilently(i) ==
    /\ handling[i] # None
    /\ conn[i] \in {"consuming", "lost"}
    /\ handling' = [handling EXCEPT ![i] = None]
    /\ UNCHANGED <<fields, conn, late, broker, history, calm>>

\* The message is unreadable or execute throws: nack without requeue, so the
\* broker moves it to the dead letter queue.
HandleFails(i) ==
    /\ handling[i] # None
    /\ conn[i] \in {"consuming", "lost"}
    /\ handling' = [handling EXCEPT ![i] = None]
    /\ dead' = dead \cup ({unacked[i]} \ {None})
    /\ unacked' = [unacked EXCEPT ![i] = None]
    /\ UNCHANGED <<fields, conn, late, brokerUp, ready, acked, history,
                   calm>>

\* The process is gone and another one starts (restart: unless-stopped).
Restart(i) ==
    /\ channel' = None /\ connecting' = i /\ asker' = "init" /\ timer' = FALSE
    /\ conn' = [j \in Conns |-> IF j = i THEN "opening" ELSE "none"]
    /\ handling' = [j \in Conns |-> None]
    /\ late' = FALSE
    /\ startFailed' = FALSE
    /\ Requeue(Conns)
    /\ UNCHANGED <<brokerUp, acked, dead, calm>>

\* The handler ends, but its channel is known to be closed: ack throws, the
\* nack in the catch block throws again, and nobody handles that rejection.
HandleOnClosedChannel(i, j) ==
    /\ handling[i] # None
    /\ conn[i] \in {"none", "mute"}
    /\ processed' \in {processed, processed \cup {handling[i]}}
    /\ Restart(j)

-----------------------------------------------------------------------------
\* Faults.
BrokerStops ==
    /\ ~calm /\ brokerUp
    /\ brokerUp' = FALSE
    /\ conn' = [i \in Conns |-> IF Alive(i) THEN "lost" ELSE conn[i]]
    /\ Requeue(Conns)
    /\ UNCHANGED <<fields, handling, late, acked, dead, history, calm>>

BrokerStarts ==
    /\ ~brokerUp
    /\ brokerUp' = TRUE
    /\ UNCHANGED <<fields, conn, handling, late, ready, unacked, acked, dead,
                   history, calm>>

ConnectionLost(i) ==
    /\ ~calm /\ Alive(i)
    /\ conn' = [conn EXCEPT ![i] = "lost"]
    /\ Requeue({i})
    /\ UNCHANGED <<fields, handling, late, brokerUp, acked, dead, history,
                   calm>>

\* The broker closes the channel and leaves the connection open. A subscription
\* in progress on it fails, which is only logged, and with it ends connect().
ChannelClosed(i) ==
    /\ ~calm /\ conn[i] \in {"open", "consuming"}
    /\ conn' = [conn EXCEPT ![i] = "mute"]
    /\ channel' = None
    /\ connecting' = IF connecting = i THEN None ELSE connecting
    /\ Requeue({i})
    /\ UNCHANGED <<asker, timer, handling, late, brokerUp, acked, dead,
                   history, calm>>

ProcessDies(i) ==
    /\ ~calm
    /\ Restart(i)
    /\ UNCHANGED processed

CalmDown ==
    /\ ~calm
    /\ calm' = TRUE
    /\ UNCHANGED <<fields, conn, handling, late, broker, history>>

-----------------------------------------------------------------------------
Handle(i) ==
    \/ HandleSucceeds(i)
    \/ HandleFails(i)
    \/ \E j \in Conns : HandleOnClosedChannel(i, j)

Reconnect ==
    \E i \in Conns : OpenSucceeds(i) \/ Subscribe(i) \/ OnClose(i)

Next ==
    \/ Reconnect
    \/ \E i \in Conns : OpenFails(i) \/ TimerFires(i) \/ Publish(i)
    \/ PublishLate
    \/ \E i \in Conns, m \in Messages : Deliver(i, m)
    \/ \E i \in Conns : Handle(i)
    \/ BrokerStops \/ BrokerStarts \/ CalmDown
    \/ \E i \in Conns : ConnectionLost(i) \/ ChannelClosed(i) \/ ProcessDies(i)

Spec == Init /\ [][Next]_vars

\* The event loop and the broker go on; handlers return; the broker is
\* started again.
Fairness ==
    /\ WF_vars(Reconnect)
    /\ WF_vars(\E i \in Conns : OpenFails(i))
    /\ WF_vars(\E i \in Conns : TimerFires(i))
    /\ \A m \in Messages : WF_vars(\E i \in Conns : Deliver(i, m))
    /\ \A i \in Conns : WF_vars(Handle(i))
    /\ WF_vars(BrokerStarts)

FairSpec == Spec /\ Fairness

-----------------------------------------------------------------------------
\* The types of the fields, of the connections and of the broker's queues.
TypeOK ==
    /\ channel \in Conns \cup {None} /\ connecting \in Conns \cup {None}
    /\ asker \in {"init", "timer", "publish"}
    /\ timer \in BOOLEAN /\ late \in BOOLEAN /\ brokerUp \in BOOLEAN
    /\ calm \in BOOLEAN
    /\ conn \in [Conns -> ConnStates]
    /\ handling \in [Conns -> Messages \cup {None}]
    /\ unacked \in [Conns -> Messages \cup {None}]
    /\ ready \subseteq Messages /\ acked \subseteq Messages
    /\ dead \subseteq Messages /\ processed \subseteq Messages
    /\ startFailed \in BOOLEAN

\* A request leaves the queue only once CreateReservation ran for it to the
\* end, whatever connections and processes die in between.
AckedWasProcessed == acked \subseteq processed

\* What the broker waits an answer for, a handler will answer: no request is
\* withheld from the other consumers for ever.
UnackedIsHandled ==
    \A i \in Conns : unacked[i] # None => handling[i] = unacked[i]

\* The two ways to end up without a consumer that nothing repairs: the first
\* attempt failed, which is logged as to be retried and is not
\* (rabbitmq.connection.ts:41-46), or a channel was closed and its connection
\* stayed.
Deaf == startFailed \/ \E i \in Conns : conn[i] = "mute"

\* A worker that is not deaf, consumes on no connection and will not be told
\* that one was lost has an attempt under way that is repeated if it fails,
\* even though old connections clear the channel of new ones when they close.
SomebodyReconnects ==
    ~Deaf /\ (\A i \in Conns : conn[i] \notin {"consuming", "lost"})
        => timer \/ (connecting # None /\ asker # "publish")

Listening == \E i \in Conns : conn[i] = "consuming"

\* Once faults are over, the worker ends up subscribed for good, or deaf.
Listens == calm ~> ([]Listening \/ []Deaf)

\* Once faults are over, the queue is drained, or the worker is deaf.
Drained ==
    calm ~> ((ready = {} /\ \A i \in Conns : unacked[i] = None) \/ []Deaf)

\* Whatever becomes of connections, channels and processes, the queue is what
\* the rest of the backend takes it for.
Delivered == {unacked[i] : i \in Conns} \ {None}
Queue == INSTANCE RequestQueue
             WITH waiting <- ready, taken <- Delivered,
                  settled <- acked \cup dead
ImplementsQueue == Queue!QueueSpec
=============================================================================
