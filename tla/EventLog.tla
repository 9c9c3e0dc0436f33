------------------------------- MODULE EventLog -------------------------------
(* The events of the backend and of payments-service on Kafka, and the two   *)
(* services that consume them: audit-service stores each, and                *)
(* notifications-service sends a mail for each. Each has a topic of its own, *)
(* of one partition; here they are one log, consumed by two groups.          *)
(*                                                                           *)
(* A consumer that crashes, or gives up retrying a handler that throws, goes *)
(* on from the offset its group has committed.                               *)
EXTENDS Naturals, Sequences

CONSTANTS
    Events,
    MaxSendAttempts,
    MaxCrashes, \* crashes of each consumer (a bound)
    None

\* What is assumed of the constants.
EventLogAssumption ==
    /\ MaxSendAttempts \in Nat \ {0} /\ MaxCrashes \in Nat
    /\ None \notin Nat

VARIABLES
    log,       \* the entries of the topic
    published, \* events whose publication is over
    \* audit-service: its next entry, the group's offset, the table
    auditNext, auditCommitted, rows,
    \* notifications-service: None as next while it is down
    mailNext, mailCommitted,
    attempt,   \* attempts to send the mail of the next entry that failed
    mails,     \* mails sent for each event: 0, 1 or more
    \* history
    gaveUp,    \* entries whose mail failed for good
    skipped,   \* entries written before the group had an offset
    doubtful,  \* events logged twice, handled again or with a failure that
               \* came after the mail was accepted
    crashes

topic == <<log, published>>
audit == <<auditNext, auditCommitted, rows>>
mail == <<mailNext, mailCommitted, attempt, mails, gaveUp, skipped, doubtful>>
vars == <<topic, audit, mail, crashes>>

Entries == DOMAIN log

Init ==
    /\ log = <<>> /\ published = {}
    /\ auditNext = 1 /\ auditCommitted = 0 /\ rows = [e \in Events |-> 0]
    /\ mailNext = None /\ mailCommitted = None /\ attempt = 0
    /\ mails = [e \in Events |-> 0]
    /\ gaveUp = {} /\ skipped = {} /\ doubtful = {} /\ crashes = 0

-----------------------------------------------------------------------------
\* producer.send retries, so that an event may be logged twice, and gives up:
\* the failure is logged and the event is lost.
Send(e) ==
    \/ log' = Append(log, e) /\ doubtful' = doubtful
    \/ log' = log \o <<e, e>> /\ doubtful' = doubtful \cup {e}
    \/ UNCHANGED <<log, doubtful>>

PublishEvent(e) ==
    /\ e \notin published
    /\ published' = published \cup {e}
    /\ Send(e)
    /\ UNCHANGED <<audit, mailNext, mailCommitted, attempt, mails, gaveUp,
                   skipped, crashes>>

-----------------------------------------------------------------------------
(* audit-service. *)

\* AuditStore.append: ON CONFLICT (event_id) DO NOTHING.
Store(e) == rows' = [rows EXCEPT ![e] = IF @ = 0 THEN 1 ELSE @]

\* eachMessage. What is no audit event is dropped; nobody publishes any.
AuditMessage ==
    /\ auditNext \in Entries
    /\ Store(log[auditNext])
    /\ auditNext' = auditNext + 1
    /\ UNCHANGED <<topic, auditCommitted, mail, crashes>>

\* Mutant: the offset of a message is committed when it is delivered.
AuditCommitsFirst ==
    /\ auditNext \in Entries
    /\ auditCommitted' = auditNext
    /\ UNCHANGED <<topic, auditNext, rows, mail, crashes>>

AuditCommits ==
    /\ auditCommitted' = auditNext - 1
    /\ UNCHANGED <<topic, auditNext, rows, mail, crashes>>

\* Mutant: the group starts where the log ends.
AuditSkips ==
    /\ crashes < MaxCrashes
    /\ crashes' = crashes + 1
    /\ auditNext' = Len(log) + 1
    /\ UNCHANGED <<topic, auditCommitted, rows, mail>>

\* A group without an offset starts at the beginning (fromBeginning: true).
AuditCrashes ==
    /\ crashes < MaxCrashes
    /\ crashes' = crashes + 1
    /\ auditNext' = auditCommitted + 1
    /\ UNCHANGED <<topic, auditCommitted, rows, mail>>

-----------------------------------------------------------------------------
(* notifications-service. *)

\* A group without an offset starts at the end (fromBeginning: false).
MailStarts ==
    /\ mailNext = None
    /\ attempt' = 0
    /\ IF mailCommitted = None
       THEN /\ mailNext' = Len(log) + 1
            /\ skipped' = skipped \cup Entries
       ELSE mailNext' = mailCommitted + 1 /\ skipped' = skipped
    /\ UNCHANGED <<topic, audit, mailCommitted, mails, gaveUp, doubtful,
                   crashes>>

\* Mutant: the loop goes on after a mail was sent.
MailedEveryAttempt(e) == mails' = [mails EXCEPT ![e] = 2]

Mailed(e) == mails' = [mails EXCEPT ![e] = IF @ = 2 THEN 2 ELSE @ + 1]

\* sendConfirmationEmail resolves.
SendSucceeds ==
    /\ mailNext \in Entries
    /\ Mailed(log[mailNext])
    /\ mailNext' = mailNext + 1 /\ attempt' = 0
    /\ UNCHANGED <<topic, audit, mailCommitted, gaveUp, skipped, doubtful,
                   crashes>>

\* Mutant: a message is tried until its mail is sent.
SendFailsForEver ==
    /\ mailNext \in Entries
    /\ attempt' = (attempt + 1) % MaxSendAttempts
    /\ UNCHANGED <<topic, audit, mailNext, mailCommitted, mails, gaveUp,
                   skipped, doubtful, crashes>>

\* It rejects: another attempt, or, after the last, the next message. The
\* server may have accepted the mail before the connection broke.
SendFails ==
    /\ mailNext \in Entries
    /\ \/ UNCHANGED <<mails, doubtful>>
       \/ /\ Mailed(log[mailNext])
          /\ doubtful' = doubtful \cup {log[mailNext]}
    /\ IF attempt + 1 < MaxSendAttempts
       THEN attempt' = attempt + 1 /\ UNCHANGED <<mailNext, gaveUp>>
       ELSE /\ gaveUp' = gaveUp \cup {mailNext}
            /\ mailNext' = mailNext + 1 /\ attempt' = 0
    /\ UNCHANGED <<topic, audit, mailCommitted, skipped, crashes>>

MailCommits ==
    /\ mailNext # None
    /\ mailCommitted' = mailNext - 1
    /\ UNCHANGED <<topic, audit, mailNext, attempt, mails, gaveUp, skipped,
                   doubtful, crashes>>

\* What was sent and not committed is sent again.
MailCrashes ==
    /\ mailNext # None
    /\ crashes < MaxCrashes
    /\ crashes' = crashes + 1
    /\ mailNext' = None
    /\ doubtful' = doubtful \cup
          {log[i] : i \in {j \in Entries : /\ mailCommitted # None
                                           /\ j > mailCommitted
                                           /\ j <= mailNext}}
    /\ UNCHANGED <<topic, audit, mailCommitted, attempt, mails, gaveUp,
                   skipped>>

-----------------------------------------------------------------------------
Next ==
    \/ \E e \in Events : PublishEvent(e)
    \/ AuditMessage \/ AuditCommits \/ AuditCrashes
    \/ MailStarts \/ SendSucceeds \/ SendFails \/ MailCommits \/ MailCrashes

Spec == Init /\ [][Next]_vars

-----------------------------------------------------------------------------
TypeOK ==
    /\ log \in Seq(Events) /\ published \subseteq Events
    /\ auditNext \in Nat \ {0} /\ auditCommitted \in Nat
    /\ rows \in [Events -> Nat] /\ mails \in [Events -> 0..2]
    /\ mailNext \in (Nat \ {0}) \cup {None}
    /\ mailCommitted \in Nat \cup {None}
    /\ attempt \in 0..(MaxSendAttempts - 1)
    /\ gaveUp \subseteq Entries /\ skipped \subseteq Entries
    /\ doubtful \subseteq Events
    /\ crashes \in 0..MaxCrashes

\* No crash makes either group pass over an entry: what is below its offset is
\* stored, or mailed unless every attempt failed, or was in the log before the
\* group had an offset.
CommittedIsHandled ==
    /\ \A i \in Entries : i <= auditCommitted => rows[log[i]] = 1
    /\ mailCommitted # None =>
          \A i \in Entries : i <= mailCommitted =>
              mails[log[i]] > 0 \/ i \in gaveUp \cup skipped

\* A driver gets a second mail only for an event that was logged twice, handled
\* again after a crash, or whose mail was accepted by an attempt that failed.
MailedTwiceForAReason == \A e \in Events : mails[e] = 2 => e \in doubtful

\* The audit gets everything that was logged.
AuditComplete == <>[](\A i \in Entries : rows[log[i]] > 0)

\* No mail that cannot be sent holds up those behind it.
MailMovesOn == <>[](mailNext = Len(log) + 1)
=============================================================================
