-------------------------------- MODULE SignIn --------------------------------
(* auth-service, the gateway before it and the pages that use them: making   *)
(* an account (SignUp), and its second factor (MfaLogin). The second begins  *)
(* where the first has ended, so that a behaviour follows one of them.       *)
EXTENDS Naturals

CONSTANTS MaxAttempts, MaxCalls, MaxStep, BackupCodes, None

VARIABLES
    way, \* the one that is followed: "account" or "factor"
    account, client, via, server, sdkPromise, script, raced, sdkFailed,
    clock, phone, pad, row, call, step, mfaEnabled, busy, view, loading,
    awaited, used, twice, overlapped, crossed, doubt

A == INSTANCE SignUp
F == INSTANCE MfaLogin

ASSUME SignInAssumption == A!SignUpAssumption /\ F!MfaLoginAssumption

accounts ==
    <<account, client, via, server, sdkPromise, script, raced, sdkFailed>>
factors == <<clock, phone, pad, row, call, step, mfaEnabled, busy, view,
             loading, awaited, used, twice, overlapped, crossed, doubt>>
vars == <<way, accounts, factors>>

Init ==
    /\ A!Init /\ F!Init
    /\ \/ way = "account" /\ ~row.enabled /\ step = "gone"
       \/ way = "factor"

Account(Step) == way = "account" /\ Step /\ UNCHANGED <<way, factors>>
Factor(Step) == way = "factor" /\ Step /\ UNCHANGED <<way, accounts>>

Next == Account(A!Next) \/ Factor(F!Next)

Spec == Init /\ [][Next]_vars

\* An answer is handled, the timer of the gateway fires, and a script that is
\* being loaded loads or fails.
FairSpec ==
    /\ Spec
    /\ WF_vars(Account(\E a \in A!Attempts : A!OnTimeout(a) \/ A!OnAnswer(a)))
    /\ WF_vars(Account(\E a \in A!Attempts : A!SdkSettled(a)))
    /\ WF_vars(Account(A!ScriptLoads \/ A!ScriptFails))
    /\ WF_vars(Factor(F!OnAnswer \/ F!OnTimeout))
    /\ WF_vars(Factor(\E c \in F!Calls :
                         F!OnLoginResult(c) \/ F!OnLoginTimeout(c)))

\* Types of both ways.
TypeOK == A!TypeOK /\ F!TypeOK

\* SignUp: one address is one account, and only a race is told as a breakdown.
OneAccount == A!OneAccount

\* MfaLogin: an account that asks for a second factor asks for the phone's.
NotLockedOut == F!NotLockedOut

\* MfaLogin: a code is accepted once, unless two calls overlapped.
UsedOnce == F!UsedOnce

\* MfaLogin: the page says what is so.
PageAgrees == F!PageAgrees

\* No page waits for ever, whatever becomes of auth-service: no button loads on,
\* but Facebook's after a failed script, and neither form of the second factor.
PagesComeBack ==
    /\ way = "account" => A!ButtonsComeBack
    /\ way = "factor" => F!FormsComeBack
=============================================================================
