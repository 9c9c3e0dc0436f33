---------------------------- MODULE PaymentLedger ----------------------------
(* What the parking backend expects of the payments service, for one stay:   *)
(* the amount on record is what was due at some instant, and it only grows.  *)
EXTENDS Naturals

VARIABLES paid, due

LedgerInit == paid = 0 /\ due \in Nat

\* The stay goes on and costs more.
Accrue == due' > due /\ UNCHANGED paid

\* A payment or a top-up brings the record to what is due, or was when asked.
Record == paid' > paid /\ paid' <= due /\ UNCHANGED due

LedgerNext == Accrue \/ Record

LedgerSpec == LedgerInit /\ [][LedgerNext]_<<paid, due>>
==============================================================================
