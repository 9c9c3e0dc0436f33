------------------------- MODULE Publications_proofs -------------------------
(* Proofs about Publications, for any number of changes, events, attempts    *)
(* and crashes. The two ways share no variable, so that each has an          *)
(* invariant of its own.                                                     *)
EXTENDS Publications, SequenceTheorems, TLAPS

-----------------------------------------------------------------------------
(* The log and its two consumers. *)

Handled(i) == mails[log[i]] > 0 \/ i \in gaveUp \cup skipped

\* The audit has stored all it has passed, and commits no more than that.
AuditKeepsUp ==
    /\ auditCommitted < auditNext /\ auditNext <= Len(log) + 1
    /\ \A e \in Events : rows[e] \in {0, 1}
    /\ \A i \in L!Entries : i < auditNext => rows[log[i]] = 1

\* So does the mailer, up to the mails it gave up or never saw.
MailKeepsUp ==
    /\ mailNext # None =>
          /\ mailNext <= Len(log) + 1
          /\ \A i \in L!Entries : i < mailNext => Handled(i)
    /\ mailCommitted # None =>
          /\ mailCommitted <= Len(log)
          /\ mailNext # None => mailCommitted < mailNext
          /\ \A i \in L!Entries : i <= mailCommitted => Handled(i)

\* An event nobody doubts of is logged once, and its mail lies behind the
\* mailer, also after a restart.
MailsInOrder ==
    /\ \A i \in L!Entries : log[i] \in published
    /\ \A e \in Events : mails[e] > 0 => e \in published
    /\ \A e \in Events : mails[e] = 2 => e \in doubtful
    /\ \A i \in L!Entries : log[i] \notin doubtful =>
          /\ \A j \in L!Entries : log[j] = log[i] => j = i
          /\ mails[log[i]] > 0 =>
                /\ mailNext # None => i < mailNext
                /\ mailNext = None /\ mailCommitted # None =>
                      i <= mailCommitted

LogInductive == L!TypeOK /\ AuditKeepsUp /\ MailKeepsUp /\ MailsInOrder

\* What EventLog assumes of its constants.
LEMMA LogConstants ==
    /\ MaxSendAttempts \in Nat \ {0} /\ MaxCrashes \in Nat /\ None \notin Nat
  BY PublicationsAssumption DEF L!EventLogAssumption

\* An event is appended, once, twice or not at all.
LEMMA LogGrows ==
    ASSUME L!TypeOK, NEW e \in Events, L!PublishEvent(e)
    PROVE  /\ log' \in Seq(Events) /\ Len(log) <= Len(log')
           /\ L!Entries = 1..Len(log) /\ L!Entries' = 1..Len(log')
           /\ \A i \in 1..Len(log) : log'[i] = log[i]
           /\ \A i \in 1..Len(log') : i > Len(log) => log'[i] = e
           /\ Len(log') > Len(log) + 1 => e \in doubtful'
           /\ doubtful \subseteq doubtful' /\ doubtful' \subseteq Events
<1>1. log \in Seq(Events) /\ doubtful \subseteq Events
  BY DEF L!TypeOK
<1>2. CASE log' = Append(log, e) /\ doubtful' = doubtful
  BY <1>1, <1>2 DEF L!Entries
<1>3. CASE log' = log \o <<e, e>> /\ doubtful' = doubtful \cup {e}
  <2>1. /\ <<e, e>> \in Seq(Events) /\ Len(<<e, e>>) = 2
        /\ \A k \in 1..2 : <<e, e>>[k] = e
    OBVIOUS
  <2>2. /\ log' \in Seq(Events) /\ Len(log') = Len(log) + 2
        /\ \A i \in 1..Len(log') :
              log'[i] = IF i <= Len(log) THEN log[i]
                        ELSE <<e, e>>[i - Len(log)]
    BY <1>1, <1>3, <2>1, ConcatProperties
  <2>3. Len(log) \in Nat
    BY <1>1
  <2>4. L!Entries = 1..Len(log) /\ L!Entries' = 1..Len(log')
    BY <1>1, <2>2 DEF L!Entries
  <2>5. \A i \in 1..Len(log') : i > Len(log) => log'[i] = e
    BY <2>1, <2>2, <2>3
  <2> QED
    BY <1>1, <1>3, <2>2, <2>3, <2>4, <2>5
<1>4. CASE UNCHANGED <<log, doubtful>>
  BY <1>1, <1>4 DEF L!Entries
<1> QED
  BY <1>2, <1>3, <1>4 DEF L!PublishEvent, L!Send

\* A new entry is for an event that nobody has seen.
LEMMA PublishKeeps ==
    ASSUME LogInductive, NEW e \in Events, L!PublishEvent(e)
    PROVE  LogInductive'
<1>0. /\ log' \in Seq(Events) /\ Len(log) <= Len(log')
      /\ L!Entries = 1..Len(log) /\ L!Entries' = 1..Len(log')
      /\ \A i \in 1..Len(log) : log'[i] = log[i]
      /\ \A i \in 1..Len(log') : i > Len(log) => log'[i] = e
      /\ Len(log') > Len(log) + 1 => e \in doubtful'
      /\ doubtful \subseteq doubtful' /\ doubtful' \subseteq Events
  BY LogGrows DEF LogInductive
<1>a. Len(log) \in Nat /\ Len(log') \in Nat /\ L!Entries \subseteq L!Entries'
  BY <1>0 DEF LogInductive, L!TypeOK
<1> USE <1>0, <1>a, LogConstants DEF LogInductive
<1>1. L!TypeOK'
  BY DEF L!TypeOK, L!PublishEvent, L!audit
<1>2. AuditKeepsUp'
  <2>1. UNCHANGED <<auditNext, auditCommitted, rows>>
    BY DEF L!PublishEvent, L!audit
  <2>2. ASSUME NEW i \in L!Entries', i < auditNext
        PROVE  i \in L!Entries /\ log'[i] = log[i]
    BY <2>2 DEF L!TypeOK, AuditKeepsUp
  <2>3. ASSUME NEW i \in L!Entries', i < auditNext'
        PROVE  rows'[log'[i]] = 1
    <3>1. i \in L!Entries /\ log'[i] = log[i] /\ i < auditNext
      BY <2>1, <2>2, <2>3
    <3> QED
      BY <2>1, <3>1 DEF AuditKeepsUp
  <2>4. auditNext \in Nat
    BY DEF L!TypeOK
  <2>5. /\ auditCommitted' < auditNext' /\ auditNext' <= Len(log') + 1
        /\ \A f \in Events : rows'[f] \in {0, 1}
    BY <2>1, <2>4 DEF AuditKeepsUp
  <2> QED
    BY <2>3, <2>5 DEF AuditKeepsUp
<1>3. MailKeepsUp'
  <2>1. UNCHANGED <<mailNext, mailCommitted, mails, gaveUp, skipped>>
    BY DEF L!PublishEvent
  <2>2. ASSUME mailNext # None, NEW i \in L!Entries', i < mailNext
        PROVE  i \in L!Entries /\ log'[i] = log[i]
    BY <2>2 DEF L!TypeOK, MailKeepsUp
  <2>3. ASSUME mailCommitted # None, NEW i \in L!Entries', i <= mailCommitted
        PROVE  i \in L!Entries /\ log'[i] = log[i]
    BY <2>3 DEF L!TypeOK, MailKeepsUp
  <2>4. ASSUME mailNext' # None, NEW i \in L!Entries', i < mailNext'
        PROVE  Handled(i)'
    <3>1. Handled(i) /\ log'[i] = log[i]
      BY <2>1, <2>2, <2>4 DEF MailKeepsUp
    <3> QED
      BY <2>1, <3>1 DEF Handled
  <2>5. ASSUME mailCommitted' # None,
               NEW i \in L!Entries', i <= mailCommitted'
        PROVE  Handled(i)'
    <3>1. Handled(i) /\ log'[i] = log[i]
      BY <2>1, <2>3, <2>5 DEF MailKeepsUp
    <3> QED
      BY <2>1, <3>1 DEF Handled
  <2>6. /\ mailNext' # None => mailNext' <= Len(log') + 1
        /\ mailCommitted' # None =>
              /\ mailCommitted' <= Len(log')
              /\ mailNext' # None => mailCommitted' < mailNext'
    BY <2>1 DEF L!TypeOK, MailKeepsUp
  <2> QED
    BY <2>4, <2>5, <2>6 DEF MailKeepsUp
<1>4. MailsInOrder'
  <2>1. /\ UNCHANGED <<mailNext, mailCommitted, mails>>
        /\ published' = published \cup {e} /\ e \notin published
    BY DEF L!PublishEvent
  <2>2. \A i \in L!Entries' : log'[i] \in published'
    BY <2>1 DEF MailsInOrder
  <2>3. \A f \in Events : /\ mails'[f] > 0 => f \in published'
                          /\ mails'[f] = 2 => f \in doubtful'
    BY <2>1 DEF MailsInOrder
  <2>4. ASSUME NEW i \in L!Entries', log'[i] \notin doubtful'
        PROVE  /\ \A j \in L!Entries' : log'[j] = log'[i] => j = i
               /\ mails'[log'[i]] > 0 =>
                     /\ mailNext' # None => i < mailNext'
                     /\ mailNext' = None /\ mailCommitted' # None =>
                           i <= mailCommitted'
    <3>1. CASE i \in L!Entries
      <4>1. log'[i] = log[i] /\ log[i] \in published /\ log[i] # e
        BY <2>1, <3>1 DEF MailsInOrder
      <4>2. \A j \in L!Entries' : log'[j] = log[i] => j \in L!Entries
        BY <4>1
      <4> QED
        BY <2>1, <2>4, <3>1, <4>1, <4>2 DEF MailsInOrder
    <3>2. CASE i \notin L!Entries
      <4>1. i = Len(log) + 1 /\ Len(log') = Len(log) + 1 /\ log'[i] = e
        BY <2>4, <3>2
      <4>2. mails[e] = 0
        BY <2>1, SMTT(20) DEF MailsInOrder, L!TypeOK
      <4>3. \A j \in L!Entries : log'[j] # e
        BY <2>1 DEF MailsInOrder
      <4> QED
        BY <2>1, <4>1, <4>2, <4>3
    <3> QED
      BY <3>1, <3>2
  <2> QED
    BY <2>2, <2>3, <2>4 DEF MailsInOrder
<1> QED
  BY <1>1, <1>2, <1>3, <1>4

\* The audit stores before it passes, and goes back to what it committed.
LEMMA AuditKeeps ==
    ASSUME LogInductive,
           L!AuditMessage \/ L!AuditCommits \/ L!AuditCrashes
    PROVE  LogInductive'
<1> USE LogConstants DEF LogInductive, L!TypeOK, L!topic, L!mail, L!Entries
<1>1. L!Entries = 1..Len(log)
  OBVIOUS
<1>2. MailKeepsUp' /\ MailsInOrder'
  BY SMTT(20) DEF L!AuditMessage, L!AuditCommits, L!AuditCrashes, MailKeepsUp,
     MailsInOrder, Handled
<1>3. CASE L!AuditMessage
  BY <1>1, <1>2, <1>3 DEF L!AuditMessage, L!Store, AuditKeepsUp
<1>4. CASE L!AuditCommits
  BY <1>1, <1>2, <1>4 DEF L!AuditCommits, AuditKeepsUp
<1>5. CASE L!AuditCrashes
  BY <1>1, <1>2, <1>5 DEF L!AuditCrashes, AuditKeepsUp
<1> QED
  BY <1>3, <1>4, <1>5

\* The mailer passes over an entry mailed, given up or never seen.
LEMMA MailKeeps ==
    ASSUME LogInductive,
           \/ L!MailStarts \/ L!SendSucceeds \/ L!SendFails
           \/ L!MailCommits \/ L!MailCrashes
    PROVE  LogInductive'
<1> USE LogConstants DEF LogInductive, L!TypeOK, L!topic, L!audit
<1>1. L!Entries = 1..Len(log)
  BY DEF L!Entries
<1>2. AuditKeepsUp'
  BY DEF L!MailStarts, L!SendSucceeds, L!SendFails, L!MailCommits,
     L!MailCrashes, AuditKeepsUp, L!Entries
<1>3. CASE L!MailStarts
  BY <1>1, <1>2, <1>3
  DEF L!MailStarts, MailKeepsUp, MailsInOrder, Handled, L!Entries
<1>4. CASE L!SendSucceeds
  BY <1>1, <1>2, <1>4, SMTT(20)
  DEF L!SendSucceeds, L!Mailed, MailKeepsUp, MailsInOrder, Handled, L!Entries
<1>5. CASE L!SendFails
  <2> USE <1>1, <1>2, <1>5
  <2>1. /\ \A f \in Events : mails'[f] \in 0..2 /\ mails'[f] >= mails[f]
        /\ \A f \in Events : mails'[f] > mails[f] => f = log[mailNext]
        /\ mails' # mails => log[mailNext] \in doubtful'
        /\ mails' \in [Events -> 0..2]
        /\ doubtful \subseteq doubtful' /\ doubtful' \subseteq Events
    <3>1. CASE UNCHANGED <<mails, doubtful>>
      BY <3>1
    <3>2. CASE /\ L!Mailed(log[mailNext])
               /\ doubtful' = doubtful \cup {log[mailNext]}
      <4>1. log[mailNext] \in Events
        BY DEF L!SendFails
      <4>2. mails' = [mails EXCEPT ![log[mailNext]] =
                                      IF @ = 2 THEN 2 ELSE @ + 1]
        BY <3>2 DEF L!Mailed
      <4> QED
        BY <3>2, <4>1, <4>2, SMTT(20)
    <3> QED
      BY <3>1, <3>2 DEF L!SendFails
  <2>2. /\ mailNext \in 1..Len(log) /\ log[mailNext] \in Events
        /\ Len(log) \in Nat
    BY DEF L!SendFails
  <2>3. \/ mailNext' = mailNext /\ gaveUp' = gaveUp
        \/ mailNext' = mailNext + 1 /\ gaveUp' = gaveUp \cup {mailNext}
    BY DEF L!SendFails
  <2>4. UNCHANGED <<log, published, auditNext, auditCommitted, rows,
                   mailCommitted, skipped, crashes>>
    BY DEF L!SendFails
  <2>5. L!TypeOK'
    <3>1. attempt' \in 0..(MaxSendAttempts - 1)
      BY DEF L!SendFails
    <3> QED
      BY <2>1, <2>2, <2>3, <2>4, <3>1 DEF L!Entries
  <2>6. \A i \in L!Entries : Handled(i) => Handled(i)'
    <3> SUFFICES ASSUME NEW i \in L!Entries, Handled(i) PROVE Handled(i)'
      OBVIOUS
    <3>1. log[i] \in Events /\ mails'[log[i]] \in 0..2
      BY <2>1 DEF L!Entries
    <3> QED
      BY <2>1, <2>3, <2>4, <3>1 DEF Handled
  <2>7. MailKeepsUp'
    <3>1. mailNext' = mailNext + 1 => mailNext \in gaveUp'
      <4>1. attempt + 1 < MaxSendAttempts \/ mailNext \in gaveUp'
        BY DEF L!SendFails
      <4>2. attempt + 1 < MaxSendAttempts => mailNext' = mailNext
        BY DEF L!SendFails
      <4> QED
        BY <2>2, <4>1, <4>2
    <3>2. ASSUME NEW i \in L!Entries', i < mailNext'
          PROVE  Handled(i)'
      <4>1. CASE i < mailNext
        BY <2>2, <2>4, <2>6, <3>2, <4>1 DEF MailKeepsUp, L!Entries
      <4>2. CASE ~(i < mailNext)
        <5>1. i = mailNext /\ mailNext' = mailNext + 1
          BY <2>2, <2>3, <2>4, <3>2, <4>2 DEF L!Entries
        <5>2. i \in gaveUp'
          BY <3>1, <5>1
        <5> QED
          BY <5>2 DEF Handled
      <4> QED
        BY <4>1, <4>2
    <3>3. ASSUME mailCommitted' # None,
                 NEW i \in L!Entries', i <= mailCommitted'
          PROVE  Handled(i)'
      BY <2>4, <2>6, <3>3 DEF MailKeepsUp, L!Entries
    <3>4. /\ mailNext' # None /\ mailNext' <= Len(log') + 1
          /\ mailCommitted' # None =>
                mailCommitted' <= Len(log') /\ mailCommitted' < mailNext'
      BY <2>2, <2>3, <2>4 DEF MailKeepsUp
    <3> QED
      BY <3>2, <3>3, <3>4 DEF MailKeepsUp
  <2>8. MailsInOrder'
    <3>1. /\ \A i \in L!Entries' : log'[i] \in published'
          /\ \A f \in Events : mails'[f] > 0 => f \in published'
      <4>1. log[mailNext] \in published
        BY <2>2 DEF MailsInOrder, L!Entries
      <4>2. ASSUME NEW f \in Events, mails'[f] > 0
            PROVE  f \in published
        <5>1. mails[f] > 0 \/ mails'[f] > mails[f]
          BY <4>2
        <5> QED
          BY <2>1, <4>1, <5>1 DEF MailsInOrder
      <4>3. \A i \in L!Entries : log[i] \in published
        BY DEF MailsInOrder
      <4> QED
        BY <2>4, <4>2, <4>3 DEF L!Entries
    <3>2. ASSUME NEW f \in Events, mails'[f] = 2
          PROVE  f \in doubtful'
      <4>1. CASE mails[f] = 2
        BY <2>1, <4>1 DEF MailsInOrder
      <4>2. CASE mails[f] # 2
        <5>1. mails' # mails
          BY <3>2, <4>2
        <5>2. mails[f] \in 0..2
          OBVIOUS
        <5>3. mails'[f] > mails[f]
          BY <3>2, <4>2, <5>2
        <5> QED
          BY <2>1, <5>1, <5>3
      <4> QED
        BY <4>1, <4>2
    <3>3. ASSUME NEW i \in L!Entries', log'[i] \notin doubtful'
          PROVE  /\ \A j \in L!Entries' : log'[j] = log'[i] => j = i
                 /\ mails'[log'[i]] > 0 => mailNext' # None /\ i < mailNext'
      <4>1. log'[i] = log[i] /\ i \in L!Entries /\ log[i] \notin doubtful
        BY <2>1, <2>4, <3>3 DEF L!Entries
      <4>2. mails'[log[i]] = mails[log[i]]
        BY <2>1, <2>4, <3>3, <4>1
      <4> QED
        BY <2>2, <2>3, <2>4, <4>1, <4>2 DEF MailsInOrder, L!Entries
    <3> QED
      BY <3>1, <3>2, <3>3 DEF MailsInOrder
  <2> QED
    BY <2>5, <2>7, <2>8
<1>6. CASE L!MailCommits
  BY <1>1, <1>2, <1>6
  DEF L!MailCommits, MailKeepsUp, MailsInOrder, Handled, L!Entries
<1>7. CASE L!MailCrashes
  BY <1>1, <1>2, <1>7
  DEF L!MailCrashes, MailKeepsUp, MailsInOrder, Handled, L!Entries
<1> QED
  BY <1>3, <1>4, <1>5, <1>6, <1>7

-----------------------------------------------------------------------------
(* The summaries on their way to the page. *)

\* A summary has seen the change it was read for; none is newer than the
\* slots, and on the wire none is newer than the newest published.
SummariesSee ==
    /\ latest <= changes /\ fetched <= changes
    /\ \A c \in O!Changes :
          /\ c <= changes <=> notice[c].at # "none"
          /\ notice[c].at = "read" => c <= notice[c].seen
                                    /\ notice[c].seen <= changes
    /\ \A i \in DOMAIN wire : wire[i].of <= wire[i].seen
                              /\ wire[i].seen <= latest

\* Without disorder they come as they were read.
WireSorted ==
    ~disorder => \A i, j \in DOMAIN wire :
                    i <= j => wire[i].seen <= wire[j].seen

\* The notice of the last change is out and was neither lost nor overtaken.
LastNoticeOut ==
    /\ ~disorder /\ changes \notin lost
    /\ changes > 0 => notice[changes].at = "done"

\* Nothing that is still to come takes the page away from the slots.
PageSettles ==
    /\ phase = "shown" => shown = changes
    /\ phase = "read" => fetched = changes
    /\ \A i \in DOMAIN wire : wire[i].seen = changes
    /\ \A c \in O!Changes : notice[c].at = "read" =>
          notice[c].seen = changes \/ notice[c].seen < latest

\* Such a notice is on the wire, or has done its work.
LastNoticeWorks ==
    LastNoticeOut => \/ \E i \in DOMAIN wire : wire[i].of = changes
                     \/ PageSettles

PageInductive == O!TypeOK /\ SummariesSee /\ WireSorted /\ LastNoticeWorks

\* What Occupancy assumes of its constants.
LEMMA PageConstants == MaxChanges \in Nat /\ None \notin 0..MaxChanges
  BY PublicationsAssumption DEF O!OccupancyAssumption

\* What a notification may be.
LEMMA NoticeShapes ==
    ASSUME NEW n \in O!Notices
    PROVE  /\ n.at \in {"none", "owed", "read", "done"}
           /\ n.at = "read" => n.seen \in 0..MaxChanges
           /\ n.at # "read" => n \in [at : {"none", "owed", "done"}]
  BY DEF O!Notices, O!Summary

\* What is on the wire.
LEMMA WireShape ==
    ASSUME O!TypeOK
    PROVE  /\ Len(wire) \in Nat /\ DOMAIN wire = 1..Len(wire)
           /\ wire \in Seq([of : O!Changes, seen : 0..MaxChanges])
           /\ \A i \in 1..Len(wire) : /\ wire[i].of \in 1..MaxChanges
                                     /\ wire[i].seen \in 0..MaxChanges
<1>1. wire \in Seq([of : O!Changes, seen : 0..MaxChanges])
  BY DEF O!TypeOK, O!Summary
<1>2. DOMAIN wire = 1..Len(wire) /\ Len(wire) \in Nat
  BY <1>1
<1>3. \A i \in 1..Len(wire) :
         wire[i] \in [of : O!Changes, seen : 0..MaxChanges]
  BY <1>1, <1>2, ElementOfSeq
<1> QED
  BY <1>1, <1>2, <1>3 DEF O!Changes

\* A change takes away that the last notice is out.
LEMMA ChangeKeeps ==
    ASSUME PageInductive, O!ChangeSlots
    PROVE  PageInductive'
<1> USE PageConstants DEF PageInductive, O!TypeOK, O!ChangeSlots, O!page,
        O!Changes, O!Summary
<1>1. /\ changes' = changes + 1 /\ changes' \in 1..MaxChanges
      /\ changes \in Nat /\ notice \in [1..MaxChanges -> O!Notices]
      /\ UNCHANGED <<latest, fetched, wire, disorder, lost>>
  OBVIOUS
<1>2. notice[changes'].at = "none"
  BY <1>1, NoticeShapes DEF SummariesSee
<1>3. notice[changes'] \in [at : {"none", "owed", "done"}]
  BY <1>1, <1>2, NoticeShapes
<1>4. /\ notice' \in [1..MaxChanges -> O!Notices]
      /\ notice'[changes'].at = "owed"
      /\ \A c \in 1..MaxChanges : c # changes' => notice'[c] = notice[c]
  BY <1>1, <1>3 DEF O!Notices
<1>5. O!TypeOK'
  BY <1>1, <1>4
<1>6. SummariesSee'
  <2>1. ASSUME NEW c \in 1..MaxChanges
        PROVE  /\ c <= changes' <=> notice'[c].at # "none"
               /\ notice'[c].at = "read" => c <= notice'[c].seen
                                          /\ notice'[c].seen <= changes'
    <3>1. CASE c = changes'
      BY <1>4, <3>1
    <3>2. CASE c # changes'
      <4>1. notice'[c] = notice[c] /\ (c <= changes' <=> c <= changes)
        BY <1>1, <1>4, <3>2
      <4>2. notice[c].at = "read" => notice[c].seen \in 0..MaxChanges
        BY <1>1, NoticeShapes
      <4> QED
        BY <1>1, <4>1, <4>2 DEF SummariesSee
    <3> QED
      BY <3>1, <3>2
  <2>2. latest' <= changes' /\ fetched' <= changes'
    BY <1>1 DEF SummariesSee
  <2> QED
    BY <1>1, <2>1, <2>2 DEF SummariesSee
<1>7. WireSorted'
  BY <1>1 DEF WireSorted
<1>8. LastNoticeWorks'
  BY <1>1, <1>4 DEF LastNoticeWorks, LastNoticeOut
<1> QED
  BY <1>5, <1>6, <1>7, <1>8

\* A summary that is read now is of the slots as they are.
LEMMA ReadKeeps ==
    ASSUME PageInductive, NEW c \in O!Changes, O!ReadSummary(c)
    PROVE  PageInductive'
<1> USE PageConstants DEF PageInductive, O!TypeOK, O!ReadSummary, O!page,
        O!Changes, O!Summary, O!GetOccupancySummary
<1>1. /\ UNCHANGED <<changes, latest, role, joined, joining, wire, phase,
                     fetched, shown, lost, disorder>>
      /\ notice' \in [1..MaxChanges -> O!Notices]
      /\ notice'[c] = [at |-> "read", seen |-> changes]
      /\ \A d \in 1..MaxChanges : d # c => notice'[d] = notice[d]
      /\ notice[c].at = "owed" /\ c <= changes
  BY DEF O!Notices, SummariesSee
<1>2. O!TypeOK'
  BY <1>1
<1>3. SummariesSee'
  BY <1>1 DEF SummariesSee
<1>4. WireSorted'
  BY <1>1 DEF WireSorted
<1>5. LastNoticeWorks'
  <2> SUFFICES ASSUME LastNoticeOut' PROVE LastNoticeOut /\ c # changes
    BY <1>1 DEF LastNoticeWorks, PageSettles
  <2> QED
    BY <1>1 DEF LastNoticeOut
<1> QED
  BY <1>2, <1>3, <1>4, <1>5

\* A notice that fails is lost.
LEMMA FailKeeps ==
    ASSUME PageInductive, NEW c \in O!Changes, O!NoticeFails(c)
    PROVE  PageInductive'
<1> USE PageConstants DEF PageInductive, O!TypeOK, O!NoticeFails, O!page,
        O!Changes, O!Summary, O!Done
<1>1. /\ UNCHANGED <<changes, latest, role, joined, joining, wire, phase,
                     fetched, shown, disorder>>
      /\ notice' \in [1..MaxChanges -> O!Notices] /\ lost' = lost \cup {c}
      /\ notice'[c].at = "done" /\ c <= changes
      /\ \A d \in 1..MaxChanges : d # c => notice'[d] = notice[d]
  BY DEF O!Notices, SummariesSee
<1>2. O!TypeOK'
  BY <1>1
<1>3. SummariesSee'
  BY <1>1 DEF SummariesSee
<1>4. WireSorted'
  BY <1>1 DEF WireSorted
<1>5. LastNoticeWorks'
  <2> SUFFICES ASSUME LastNoticeOut' PROVE LastNoticeOut /\ c # changes
    BY <1>1 DEF LastNoticeWorks, PageSettles
  <2> QED
    BY <1>1 DEF LastNoticeOut
<1> QED
  BY <1>2, <1>3, <1>4, <1>5

\* A summary older than one that is out brings disorder.
LEMMA PublishSummaryKeeps ==
    ASSUME PageInductive, NEW c \in O!Changes, O!PublishSummary(c)
    PROVE  PageInductive'
<1> DEFINE seen == notice[c].seen
           N == Len(wire)
<1> USE PageConstants DEF PageInductive, O!TypeOK, O!PublishSummary, O!Done,
        O!Changes, O!Summary
<1> HIDE DEF N
<1>1. /\ UNCHANGED <<changes, role, joined, joining, phase, fetched, shown>>
      /\ notice' \in [1..MaxChanges -> O!Notices] /\ notice[c].at = "read"
      /\ notice'[c].at = "done"
      /\ \A d \in 1..MaxChanges : d # c => notice'[d] = notice[d]
      /\ disorder' <=> (disorder \/ seen < latest)
      /\ latest' = IF seen < latest THEN latest ELSE seen
      /\ disorder \in BOOLEAN /\ disorder' \in BOOLEAN
  BY DEF O!Notices
<1>2. /\ c \in 1..MaxChanges /\ changes \in 0..MaxChanges
      /\ latest \in 0..MaxChanges /\ latest' \in 0..MaxChanges
      /\ lost \subseteq 1..MaxChanges /\ lost' \subseteq 1..MaxChanges
      /\ seen \in 0..MaxChanges /\ c <= seen /\ seen <= changes /\ c <= changes
      /\ changes \in Nat /\ latest \in Nat /\ latest <= changes
  <2>1. seen \in 0..MaxChanges
    BY <1>1, NoticeShapes
  <2>2. c \in 1..MaxChanges /\ changes \in 0..MaxChanges
        /\ latest \in 0..MaxChanges /\ lost \subseteq 1..MaxChanges
    OBVIOUS
  <2>3. c <= seen /\ seen <= changes /\ latest <= changes
    BY <1>1 DEF SummariesSee
  <2>4. latest' \in 0..MaxChanges
    BY <1>1, <2>1, <2>2
  <2>5. lost' \subseteq 1..MaxChanges
    BY <2>2
  <2> QED
    BY <2>1, <2>2, <2>3, <2>4, <2>5
<1>3. N \in Nat /\ DOMAIN wire = 1..N
      /\ \A i \in 1..N : wire[i].of \in 1..MaxChanges
                       /\ wire[i].seen \in 0..MaxChanges
  BY WireShape DEF N
<1>4. \/ wire' = Append(wire, [of |-> c, seen |-> seen]) /\ lost' = lost
      \/ lost' = lost \cup {c} /\ wire' = wire
  OBVIOUS
<1>5. wire' = Append(wire, [of |-> c, seen |-> seen]) =>
         /\ DOMAIN wire' = 1..(N + 1)
         /\ \A i \in 1..N : wire'[i] = wire[i]
         /\ wire'[N + 1] = [of |-> c, seen |-> seen]
         /\ wire' \in Seq([of : 1..MaxChanges, seen : 0..MaxChanges])
  <2>1. [of |-> c, seen |-> seen] \in
           [of : 1..MaxChanges, seen : 0..MaxChanges]
    BY <1>2
  <2>2. wire \in Seq([of : 1..MaxChanges, seen : 0..MaxChanges])
    BY WireShape
  <2> HIDE DEF PageInductive, O!PublishSummary
  <2> QED
    BY <1>3, <2>1, <2>2, AppendProperties DEF N
<1> HIDE DEF O!PublishSummary, O!TypeOK, seen
<1>6. O!TypeOK'
  <2>1. wire' \in Seq([of : 1..MaxChanges, seen : 0..MaxChanges])
    BY <1>4, <1>5, WireShape
  <2>2. latest' \in 0..MaxChanges
    BY <1>2
  <2>3. disorder' \in BOOLEAN /\ lost' \subseteq 1..MaxChanges
    BY <1>1, <1>2
  <2> QED
    BY <1>1, <2>1, <2>2, <2>3 DEF O!TypeOK
<1>7. SummariesSee'
  <2>1. ASSUME NEW i \in DOMAIN wire'
        PROVE  wire'[i].of <= wire'[i].seen /\ wire'[i].seen <= latest'
    <3>1. CASE i \in DOMAIN wire /\ wire'[i] = wire[i]
      BY <1>1, <1>2, <1>3, <3>1 DEF SummariesSee
    <3>2. CASE wire'[i] = [of |-> c, seen |-> seen]
      BY <1>1, <1>2, <3>2
    <3> QED
      BY <1>3, <1>4, <1>5, <3>1, <3>2
  <2>2. latest' <= changes' /\ fetched' <= changes'
    BY <1>1, <1>2 DEF SummariesSee
  <2>3. \A d \in O!Changes :
          /\ d <= changes' <=> notice'[d].at # "none"
          /\ notice'[d].at = "read" => d <= notice'[d].seen
                                     /\ notice'[d].seen <= changes'
    BY <1>1, <1>2 DEF SummariesSee
  <2> QED
    BY <2>1, <2>2, <2>3 DEF SummariesSee
<1>8. WireSorted'
  <2> SUFFICES ASSUME ~disorder', NEW i \in DOMAIN wire',
                      NEW j \in DOMAIN wire', i <= j
               PROVE  wire'[i].seen <= wire'[j].seen
    BY DEF WireSorted
  <2>1. ~disorder /\ latest <= seen
    BY <1>1, <1>2
  <2>2. CASE j \in DOMAIN wire /\ wire'[j] = wire[j] /\ j <= N
    <3>1. i \in DOMAIN wire /\ wire'[i] = wire[i]
      <4>1. CASE wire' = wire
        BY <4>1
      <4>2. CASE wire' = Append(wire, [of |-> c, seen |-> seen])
        <5>1. i \in 1..(N + 1) /\ i <= N
          BY <1>3, <1>5, <2>2, <4>2
        <5> QED
          BY <1>3, <1>5, <4>2, <5>1
      <4> QED
        BY <1>4, <4>1, <4>2
    <3> QED
      BY <2>1, <2>2, <3>1 DEF WireSorted
  <2>3. CASE j = N + 1 /\ wire'[j] = [of |-> c, seen |-> seen]
    <3>1. (wire'[i] = wire[i] /\ i \in 1..N) \/ wire'[i] = wire'[j]
      BY <1>3, <1>4, <1>5, <2>3
    <3> QED
      BY <1>2, <1>3, <2>1, <2>3, <3>1 DEF SummariesSee
  <2> QED
    BY <1>3, <1>4, <1>5, <2>2, <2>3, SMTT(20)
<1>9. LastNoticeWorks'
  <2> SUFFICES ASSUME LastNoticeOut'
               PROVE  \/ \E i \in DOMAIN wire' : wire'[i].of = changes'
                      \/ PageSettles'
    BY DEF LastNoticeWorks
  <2>1. ~disorder /\ latest <= seen /\ changes \notin lost'
    BY <1>1, <1>2 DEF LastNoticeOut
  <2>2. CASE c = changes
    <3>1. wire' = Append(wire, [of |-> c, seen |-> seen])
      BY <1>4, <2>1, <2>2
    <3> QED
      <4>1. N + 1 \in DOMAIN wire' /\ wire'[N + 1].of = c
        BY <1>3, <1>5, <3>1
      <4> QED
        BY <1>1, <2>2, <4>1
  <2>3. CASE c # changes
    <3>1. LastNoticeOut
      <4>1. changes \notin lost
        BY <1>4, <2>1
      <4>2. changes > 0 => notice[changes].at = "done"
        BY <1>1, <1>2, <2>3 DEF LastNoticeOut
      <4> QED
        BY <2>1, <4>1, <4>2 DEF LastNoticeOut
    <3>2. CASE \E i \in DOMAIN wire : wire[i].of = changes
      <4>1. PICK i \in DOMAIN wire : wire[i].of = changes
        BY <3>2
      <4>2. i \in DOMAIN wire' /\ wire'[i] = wire[i]
        BY <1>3, <1>4, <1>5, SMTT(20)
      <4> QED
        BY <1>1, <4>1, <4>2
    <3>3. CASE PageSettles
      <4>1. seen = changes
        <5>1. seen = changes \/ seen < latest
          BY <1>1, <3>3 DEF PageSettles, seen
        <5> QED
          BY <1>2, <2>1, <5>1
      <4>2. \A i \in DOMAIN wire' : wire'[i].seen = changes
        <5> SUFFICES ASSUME NEW i \in DOMAIN wire'
                     PROVE  wire'[i].seen = changes
          OBVIOUS
        <5>1. (i \in DOMAIN wire /\ wire'[i] = wire[i]) \/ wire'[i].seen = seen
          BY <1>3, <1>4, <1>5
        <5> QED
          BY <3>3, <4>1, <5>1 DEF PageSettles
      <4>3. ASSUME NEW d \in O!Changes, notice'[d].at = "read"
            PROVE  notice'[d].seen = changes \/ notice'[d].seen < latest'
        <5>1. d # c /\ notice'[d] = notice[d] /\ notice[d].at = "read"
          BY <1>1, <4>3 DEF O!Changes
        <5>2. notice[d].seen \in 0..MaxChanges
          BY <5>1, NoticeShapes DEF O!TypeOK
        <5> QED
          <6>1. notice[d].seen = changes \/ notice[d].seen < latest
            BY <3>3, <5>1 DEF PageSettles
          <6> QED
            BY <1>1, <1>2, <5>1, <5>2, <6>1
      <4> QED
        BY <1>1, <3>3, <4>2, <4>3 DEF PageSettles
    <3> QED
      BY <3>1, <3>2, <3>3 DEF LastNoticeWorks
  <2> QED
    BY <2>2, <2>3
<1> QED
  BY <1>6, <1>7, <1>8, <1>9

\* What is cut off is lost.
LEMMA CutKeeps ==
    ASSUME PageInductive, O!RelayReconnects \/ O!SocketReconnects
    PROVE  PageInductive'
<1> USE PageConstants DEF PageInductive
<1>1. /\ UNCHANGED <<changes, notice, latest, role, joining, phase, fetched,
                     shown, disorder>>
      /\ wire' = <<>> /\ joined' \in BOOLEAN
      /\ lost' = lost \cup {wire[i].of : i \in DOMAIN wire}
  BY DEF O!RelayReconnects, O!SocketReconnects, O!backend, O!TypeOK
<1>2. O!TypeOK'
  <2>1. {wire[i].of : i \in DOMAIN wire} \subseteq O!Changes
    BY WireShape DEF O!Changes
  <2> QED
    BY <1>1, <2>1 DEF O!TypeOK
<1>3. SummariesSee' /\ WireSorted'
  BY <1>1 DEF SummariesSee, WireSorted
<1>4. LastNoticeWorks'
  <2> SUFFICES ASSUME LastNoticeOut' PROVE PageSettles'
    BY DEF LastNoticeWorks
  <2>1. LastNoticeOut /\ \A i \in DOMAIN wire : wire[i].of # changes
    BY <1>1 DEF LastNoticeOut
  <2>2. PageSettles
    BY <2>1 DEF LastNoticeWorks
  <2> QED
    BY <1>1, <2>2 DEF PageSettles
<1> QED
  BY <1>2, <1>3, <1>4

\* The page's own request.
LEMMA RequestKeeps ==
    ASSUME PageInductive,
           \/ O!AskOccupancy \/ O!JoinRooms \/ O!CompareOccupancy
           \/ O!ShowOccupancy \/ O!FetchFails
    PROVE  PageInductive'
<1> USE PageConstants DEF PageInductive
<1>1. UNCHANGED <<changes, notice, latest, role, wire, disorder>>
  BY DEF O!AskOccupancy, O!JoinRooms, O!CompareOccupancy, O!ShowOccupancy,
     O!FetchFails, O!backend
<1>2. O!TypeOK' /\ fetched' \in {fetched, changes}
  BY DEF O!TypeOK, O!AskOccupancy, O!JoinRooms, O!CompareOccupancy,
     O!ShowOccupancy, O!FetchFails, O!backend, O!GetOccupancySummary
<1>3. SummariesSee' /\ WireSorted'
  <2>1. changes \in Nat /\ fetched' <= changes
    BY <1>2 DEF O!TypeOK, O!Summary, SummariesSee
  <2> QED
    BY <1>1, <2>1 DEF SummariesSee, WireSorted
<1>4. LastNoticeWorks'
  <2>1. CASE O!CompareOccupancy /\ O!Settled
    <3>1. PageSettles'
      BY <1>1, <2>1 DEF O!CompareOccupancy, O!Settled, O!GetOccupancySummary,
         PageSettles
    <3> QED
      BY <3>1 DEF LastNoticeWorks
  <2>2. CASE ~(O!CompareOccupancy /\ O!Settled)
    <3>1. lost' = lost
      BY <2>2 DEF O!AskOccupancy, O!JoinRooms, O!CompareOccupancy,
         O!ShowOccupancy, O!FetchFails
    <3>2. PageSettles => PageSettles'
      BY <1>1 DEF O!AskOccupancy, O!JoinRooms, O!CompareOccupancy,
         O!ShowOccupancy, O!FetchFails, O!GetOccupancySummary, PageSettles
    <3> QED
      BY <1>1, <3>1, <3>2 DEF LastNoticeWorks, LastNoticeOut
  <2> QED
    BY <2>1, <2>2
<1> QED
  BY <1>2, <1>3, <1>4

\* An event comes to the page.
LEMMA EventKeeps ==
    ASSUME PageInductive, O!OnOccupancyUpdated
    PROVE  PageInductive'
<1> USE PageConstants DEF PageInductive
<1>1. /\ UNCHANGED <<changes, notice, latest, role, joined, joining, phase,
                     fetched>>
      /\ disorder' <=> (disorder \/ phase = "read")
      /\ wire # <<>> /\ wire' = Tail(wire)
      /\ disorder \in BOOLEAN /\ disorder' \in BOOLEAN
  BY DEF O!OnOccupancyUpdated, O!backend, O!TypeOK
<1>2. /\ Len(wire) \in Nat \ {0} /\ DOMAIN wire = 1..Len(wire)
      /\ DOMAIN wire' = 1..(Len(wire) - 1)
      /\ \A i \in DOMAIN wire' : i + 1 \in DOMAIN wire
                               /\ wire'[i] = wire[i + 1]
      /\ wire' \in Seq([of : O!Changes, seen : 0..MaxChanges])
      /\ Head(wire) = wire[1] /\ 1 \in DOMAIN wire
  <2>1. wire \in Seq([of : O!Changes, seen : 0..MaxChanges])
    BY WireShape
  <2> HIDE DEF PageInductive
  <2> QED
    BY <1>1, <2>1, HeadTailProperties, EmptySeq
<1>3. /\ wire[1].of \in 1..MaxChanges /\ wire[1].seen \in 0..MaxChanges
      /\ changes \in 0..MaxChanges /\ latest \in 0..MaxChanges
      /\ wire[1].of <= wire[1].seen /\ wire[1].seen <= latest
      /\ latest <= changes
  BY <1>2, WireShape DEF SummariesSee, O!TypeOK, O!Summary
<1>4. \/ lost' = lost \cup {wire[1].of} /\ shown' = shown
      \/ lost' = lost /\ shown' = wire[1].seen
  BY <1>2 DEF O!OnOccupancyUpdated
<1>5. O!TypeOK'
  BY <1>1, <1>2, <1>3, <1>4 DEF O!TypeOK, O!Summary, O!Changes
<1>6. SummariesSee'
  BY <1>1, <1>2 DEF SummariesSee
<1>7. WireSorted'
  <2> SUFFICES ASSUME ~disorder', NEW i \in DOMAIN wire',
                      NEW j \in DOMAIN wire', i <= j
               PROVE  wire'[i].seen <= wire'[j].seen
    BY DEF WireSorted
  <2>1. i + 1 <= j + 1
    BY <1>2
  <2> QED
    BY <1>1, <1>2, <2>1 DEF WireSorted
<1>8. LastNoticeWorks'
  <2> SUFFICES ASSUME LastNoticeOut',
                      \A i \in DOMAIN wire' : wire'[i].of # changes
               PROVE  PageSettles'
    BY <1>1 DEF LastNoticeWorks
  <2>1. LastNoticeOut /\ phase # "read"
    BY <1>1, <1>4 DEF LastNoticeOut
  <2>2. wire[1].seen = changes /\ \A i \in DOMAIN wire : wire[i].seen = changes
    <3>1. CASE PageSettles
      BY <1>2, <3>1 DEF PageSettles
    <3>2. CASE \E i \in DOMAIN wire : wire[i].of = changes
      <4>1. PICK i \in DOMAIN wire : wire[i].of = changes
        BY <3>2
      <4>2. i = 1
        <5>1. CASE i # 1
          <6>1. i - 1 \in DOMAIN wire' /\ wire'[i - 1] = wire[i]
            BY <1>2, <5>1
          <6> QED
            BY <4>1, <6>1
        <5> QED
          BY <5>1
      <4>3. wire[1].seen = changes
        BY <1>3, <4>1, <4>2
      <4>4. ASSUME NEW j \in DOMAIN wire
            PROVE  wire[j].seen = changes
        <5>1. wire[1].seen <= wire[j].seen /\ wire[j].seen <= latest
          BY <1>2, <2>1 DEF WireSorted, LastNoticeOut, SummariesSee
        <5>2. wire[j].seen \in 0..MaxChanges
          BY <1>2, WireShape
        <5> QED
          BY <1>3, <4>3, <5>1, <5>2
      <4> QED
        BY <4>3, <4>4
    <3> QED
      BY <2>1, <3>1, <3>2 DEF LastNoticeWorks
  <2>3. \A i \in DOMAIN wire' : wire'[i].seen = changes
    BY <1>2, <2>2
  <2>4. ASSUME NEW c \in O!Changes, notice[c].at = "read"
        PROVE  notice[c].seen = changes \/ notice[c].seen < latest
    <3>1. notice[c].seen \in 0..MaxChanges /\ notice[c].seen <= changes
      BY <2>4, NoticeShapes DEF O!TypeOK, SummariesSee
    <3> QED
      BY <1>3, <2>2, <3>1
  <2>5. phase = "shown" => shown' = changes
    BY <1>2, <2>1, <2>2 DEF O!OnOccupancyUpdated
  <2> QED
    BY <1>1, <2>1, <2>3, <2>4, <2>5 DEF PageSettles
<1> QED
  BY <1>5, <1>6, <1>7, <1>8

-----------------------------------------------------------------------------
(* Every behaviour of the composition. *)

\* Nothing is logged, committed or mailed.
LEMMA InitLog == L!Init => LogInductive
<1> SUFFICES ASSUME L!Init PROVE LogInductive
  OBVIOUS
<1> USE LogConstants DEF L!Init
<1>1. log = <<>> /\ L!Entries = {} /\ Len(log) = 0
  BY DEF L!Entries
<1>2. L!TypeOK
  BY <1>1 DEF L!TypeOK
<1> QED
  BY <1>1, <1>2 DEF LogInductive, AuditKeepsUp, MailKeepsUp, MailsInOrder

\* Nothing has changed and the page has asked for nothing.
LEMMA InitPage == O!Init => PageInductive
<1> SUFFICES ASSUME O!Init PROVE PageInductive
  OBVIOUS
<1> USE PageConstants DEF O!Init, O!Changes, O!Summary
<1>1. DOMAIN wire = {} /\ \A c \in 1..MaxChanges : notice[c].at = "none"
  OBVIOUS
<1>2. notice \in [O!Changes -> O!Notices]
  BY DEF O!Notices
<1>3. O!TypeOK
  <2>1. /\ joined \in BOOLEAN /\ joining \in BOOLEAN /\ disorder \in BOOLEAN
        /\ role \in {"USER", "ADMIN"} /\ lost \subseteq 1..MaxChanges
    OBVIOUS
  <2>2. /\ wire \in Seq([of : 1..MaxChanges, seen : 0..MaxChanges])
        /\ changes = 0 /\ latest = 0 /\ fetched = 0 /\ 0 \in 0..MaxChanges
        /\ phase = "list" /\ shown = None
    OBVIOUS
  <2> HIDE DEF O!Init
  <2> QED
    BY <1>2, <2>1, <2>2 DEF O!TypeOK
<1> QED
  BY <1>1, <1>3 DEF PageInductive, SummariesSee, WireSorted, LastNoticeWorks,
     PageSettles

\* One of the two ways takes a step, or neither.
LEMMA StepLog == LogInductive /\ [L!Next]_kafka => LogInductive'
<1> SUFFICES ASSUME LogInductive, [L!Next]_kafka PROVE LogInductive'
  OBVIOUS
<1>1. CASE UNCHANGED kafka
  BY <1>1 DEF kafka, LogInductive, L!TypeOK, L!Entries, AuditKeepsUp,
     MailKeepsUp, MailsInOrder, Handled
<1>2. CASE L!Next
  BY <1>2, PublishKeeps, AuditKeeps, MailKeeps DEF L!Next
<1> QED
  BY <1>1, <1>2

\* The same of the pages.
LEMMA StepPage == PageInductive /\ [O!Next]_pages => PageInductive'
<1> SUFFICES ASSUME PageInductive, [O!Next]_pages PROVE PageInductive'
  OBVIOUS
<1>1. CASE UNCHANGED pages
  BY <1>1 DEF pages, PageInductive, O!TypeOK, SummariesSee, WireSorted,
     LastNoticeWorks, LastNoticeOut, PageSettles
<1>2. CASE O!Next
  BY <1>2, ChangeKeeps, ReadKeeps, PublishSummaryKeeps, FailKeeps, CutKeeps,
     RequestKeeps, EventKeeps
  DEF O!Next
<1> QED
  BY <1>1, <1>2

\* Both invariants, in every behaviour of the composition.
LEMMA PublicationsHold == Spec => [](LogInductive /\ PageInductive)
<1>1. Init => LogInductive /\ PageInductive
  BY InitLog, InitPage DEF Init
<1>2. LogInductive /\ PageInductive /\ [Next]_vars
         => (LogInductive /\ PageInductive)'
  BY StepLog, StepPage DEF Next, Realtime, Kafka, vars
<1> QED
  BY <1>1, <1>2, PTL DEF Spec

\* No crash makes the audit or the mailer pass over an entry, for any number
\* of events, attempts and crashes.
THEOREM CommittedIsHandledTheorem == Spec => []CommittedIsHandled
<1>1. LogInductive => CommittedIsHandled
  <2> SUFFICES ASSUME LogInductive PROVE CommittedIsHandled
    OBVIOUS
  <2>1. \A i \in L!Entries : i <= auditCommitted => rows[log[i]] = 1
    BY DEF LogInductive, L!TypeOK, L!Entries, AuditKeepsUp
  <2> QED
    BY <2>1 DEF LogInductive, MailKeepsUp, Handled, CommittedIsHandled,
       L!CommittedIsHandled
<1> QED
  BY <1>1, PublicationsHold, PTL

\* A second mail of an event has one of three causes: it was logged twice,
\* handled again after a crash, or its mail was accepted by an attempt that
\* failed.
THEOREM MailedTwiceTheorem == Spec => []MailedTwiceForAReason
<1>1. LogInductive => MailedTwiceForAReason
  BY DEF LogInductive, MailsInOrder, MailedTwiceForAReason,
     L!MailedTwiceForAReason
<1> QED
  BY <1>1, PublicationsHold, PTL

\* A page is right in the end, for any number of changes of the slots, unless
\* the last notice was lost or overtaken.
THEOREM FreshTheorem == Spec => []FreshWhenQuiet
<1>1. PageInductive => FreshWhenQuiet
  <2> SUFFICES ASSUME PageInductive, O!Settled, phase = "shown", ~disorder,
                      changes \notin lost
               PROVE  shown = changes
    BY DEF FreshWhenQuiet, O!FreshWhenQuiet
  <2> USE PageConstants DEF PageInductive
  <2>1. changes > 0 => notice[changes].at = "done"
    <3> SUFFICES ASSUME changes > 0 PROVE notice[changes].at = "done"
      OBVIOUS
    <3>1. changes \in O!Changes /\ changes <= changes
      BY DEF O!TypeOK, O!Summary, O!Changes
    <3> QED
      BY <3>1 DEF O!Settled, SummariesSee
  <2>2. DOMAIN wire = {}
    BY DEF O!Settled
  <2> QED
    BY <2>1, <2>2 DEF LastNoticeWorks, LastNoticeOut, PageSettles
<1> QED
  BY <1>1, PublicationsHold, PTL

\* Both ways keep their types.
THEOREM PublicationsType == Spec => []TypeOK
<1>1. LogInductive /\ PageInductive => TypeOK
  BY DEF LogInductive, PageInductive, TypeOK
<1> QED
  BY <1>1, PublicationsHold, PTL
=============================================================================
