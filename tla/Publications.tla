----------------------------- MODULE Publications -----------------------------
(* What the rest of the system learns of an operation of the backend: the    *)
(* pages, over RabbitMQ and realtime-service (Occupancy), and the audit and  *)
(* the mailer, over Kafka (EventLog). The two ways share nothing, so that a  *)
(* behaviour follows one of them.                                            *)
EXTENDS Naturals, Sequences

CONSTANTS MaxChanges, Events, MaxSendAttempts, MaxCrashes, None

VARIABLES
    way, \* the one that is followed: "realtime" or "log"
    changes, notice, role, joined, joining, wire, phase, fetched, shown,
    latest, lost, disorder,
    log, published, auditNext, auditCommitted, rows,
    mailNext, mailCommitted, attempt, mails, gaveUp, skipped, doubtful,
    crashes

O == INSTANCE Occupancy
L == INSTANCE EventLog

ASSUME PublicationsAssumption ==
    O!OccupancyAssumption /\ L!EventLogAssumption

pages == <<changes, notice, role, joined, joining, wire, phase, fetched, shown,
           latest, lost, disorder>>
kafka == <<log, published, auditNext, auditCommitted, rows, mailNext,
           mailCommitted, attempt, mails, gaveUp, skipped, doubtful, crashes>>
vars == <<way, pages, kafka>>

Init ==
    /\ O!Init /\ L!Init
    /\ \/ way = "realtime"
       \/ way = "log" /\ role = "USER"

Realtime(A) == way = "realtime" /\ A /\ UNCHANGED <<way, kafka>>
Kafka(A) == way = "log" /\ A /\ UNCHANGED <<way, pages>>

Next == Realtime(O!Next) \/ Kafka(L!Next)

Spec == Init /\ [][Next]_vars

\* Notifications come to an end, requests are answered, the socket delivers
\* what it does not lose. Both consumers run; the audit's table works in the
\* end, and a mail server that does not answers with an error.
FairSpec ==
    /\ Spec
    /\ \A c \in O!Changes : /\ WF_vars(Realtime(O!ReadSummary(c)))
                             /\ WF_vars(Realtime(O!PublishSummary(c)))
    /\ WF_vars(Realtime(O!AskOccupancy))
    /\ WF_vars(Realtime(O!JoinRooms))
    /\ WF_vars(Realtime(O!CompareOccupancy))
    /\ WF_vars(Realtime(O!ShowOccupancy))
    /\ WF_vars(Realtime(O!OnOccupancyUpdated))
    /\ WF_vars(Kafka(L!AuditMessage))
    /\ WF_vars(Kafka(L!MailStarts))
    /\ WF_vars(Kafka(L!SendSucceeds \/ L!SendFails))

\* Types of both ways.
TypeOK == O!TypeOK /\ L!TypeOK

\* Occupancy: a page is right in the end unless the last notice was lost,
\* published out of order or overtaken by the page's own request.
FreshWhenQuiet == O!FreshWhenQuiet

\* Occupancy: and it comes to that by itself.
Converges == way = "realtime" => O!Converges

\* EventLog: no crash makes a group pass over an entry.
CommittedIsHandled == L!CommittedIsHandled

\* EventLog: a second mail of an event has one of three causes.
MailedTwiceForAReason == L!MailedTwiceForAReason

\* EventLog: the audit gets everything that was logged.
AuditComplete == way = "log" => L!AuditComplete

\* EventLog: no mail that cannot be sent holds up those behind it.
MailMovesOn == way = "log" => L!MailMovesOn
=============================================================================
