------------------------------- MODULE MfaLogin -------------------------------
(* The second factor of one account: the security page that turns it on and  *)
(* off, the login that asks for it, and the rows auth-service reads, checks  *)
(* and writes back one statement at a time. The gateway gives up on a call   *)
(* after 3 s, and auth-service goes on with it.                              *)
(*                                                                           *)
(* A code is the secret and the step of the clock it was made from, or a     *)
(* backup code; codes of different secrets or steps are taken to differ.     *)
EXTENDS Naturals

CONSTANTS
    MaxCalls, \* calls to auth-service (a bound)
    MaxStep,  \* steps of 30 s (a bound)
    BackupCodes,
    None

Calls == 1..MaxCalls
Steps == 0..MaxStep
Batches == 0..MaxCalls \* a secret, or a list of codes, is named by its call
Totp == [secret : Batches, step : Steps]
BackupOf(batch) == [batch : {batch}, code : BackupCodes]
Backup == [batch : Batches, code : BackupCodes]
Codes == Totp \cup Backup

\* What is assumed of the constants.
MfaLoginAssumption ==
    /\ MaxCalls \in Nat /\ MaxStep \in Nat
    /\ None \notin Batches \cup Steps \cup Codes

VARIABLES
    clock, \* the step the clocks of the server and of the phone are in
    phone, \* the secret in the app
    pad,   \* the backup codes the driver has noted
    row,   \* users: mfa_enabled, totp_secret_enc, totp_last_step, backup codes
    call,  \* the calls to auth-service
    \* SecurityPage
    step, mfaEnabled, busy,
    \* LoginPage and MfaChallengePage: the call the form waits for, and those
    \* whose answer still signs in
    view, loading, awaited,
    \* history
    used,       \* codes that were accepted
    twice,      \* codes that were accepted once more
    overlapped, \* a row was written that another call had read and will write
    crossed,    \* the secret was written between the read and the write of a
                \* confirmation
    doubt       \* the page gave up on a call since it last knew the row

security == <<step, mfaEnabled, busy, doubt>>
login == <<view, loading, awaited>>
history == <<used, twice, overlapped, crossed>>
vars == <<clock, phone, pad, row, call, security, login, history>>

Ops == {"me", "setup", "confirm", "disable", "login", "verify"}
Results == {"enabled", "disabled", "ok", "session", "challenge", "error"}
Blank == [at |-> "none"]
Gone == [at |-> "gone"]

Off == [enabled |-> FALSE, secret |-> None, lastStep |-> None, codes |-> {}]

Init ==
    /\ clock = 0
    /\ \/ row = Off /\ phone = None /\ pad = {}
       \/ /\ pad = BackupOf(0) /\ phone = 0
          /\ row = [enabled |-> TRUE, secret |-> 0, lastStep |-> 0,
                    codes |-> pad]
    /\ call = [c \in Calls |-> Blank]
    /\ step \in {"gone", "idle"} \* idle: it has its status already
    /\ mfaEnabled = (step = "idle" /\ row.enabled) /\ busy = None
    /\ view = "login" /\ loading = None /\ awaited = {}
    /\ used = {} /\ twice = {} /\ overlapped = FALSE /\ crossed = FALSE
    /\ doubt = FALSE

Tick ==
    /\ clock < MaxStep
    /\ clock' = clock + 1
    /\ UNCHANGED <<phone, pad, row, call, security, login, history>>

-----------------------------------------------------------------------------
(* A call: sent through the gateway, read, and answered. *)

Unfinished(c) == call[c].at \in {"sent", "read"}
Is(c, at, op) ==
    call[c] \notin {Blank, Gone} /\ call[c].at = at /\ call[c].op = op

Send(c, op, code) ==
    /\ call[c] = Blank
    /\ \A d \in Calls : d < c => call[d] # Blank
    /\ call' = [call EXCEPT ![c] = [at |-> "sent", op |-> op, code |-> code]]

Answer(c, result) ==
    call' = [call EXCEPT ![c] = IF c \in awaited \cup {busy}
                                THEN [at |-> "done", op |-> @.op,
                                      result |-> result]
                                ELSE Gone]

\* What the call has read decides what it will write.
Reads(c, seen) ==
    call' = [call EXCEPT ![c] = [at |-> "read", op |-> @.op, code |-> @.code,
                                 seen |-> seen]]

\* updateMfa, by call c.
UpdateMfa(c, new) ==
    /\ row' = new
    /\ overlapped' =
          (overlapped \/ \E d \in Calls \ {c} : call[d].at = "read")
    /\ crossed' = (crossed \/ (/\ call[c].op \in {"setup", "disable"}
                                /\ \E d \in Calls : Is(d, "read", "confirm")))

Accept(code) ==
    /\ used' = used \cup {code}
    /\ twice' = IF code \in used THEN twice \cup {code} ELSE twice

\* The process dies, or the connection.
CallLost(c) ==
    /\ Unfinished(c)
    /\ call' = [call EXCEPT ![c] = Gone]
    /\ UNCHANGED <<clock, phone, pad, row, security, login, history>>

-----------------------------------------------------------------------------
(* auth-service. *)

\* TotpPort.verify: the step of the code, if it is the one before, of or after
\* the clock's.
InWindow(secret, code) ==
    /\ code \in Totp /\ code.secret = secret
    /\ code.step <= clock + 1 /\ clock <= code.step + 1

\* Mutant: a step is as good as the last one that was used.
AcceptsTotpAgain(code) ==
    /\ InWindow(row.secret, code)
    /\ row.lastStep # None => code.step >= row.lastStep

AcceptsTotp(code) ==
    /\ InWindow(row.secret, code)
    /\ row.lastStep # None => code.step > row.lastStep

GetMe(c) ==
    /\ Is(c, "sent", "me")
    /\ Answer(c, IF row.enabled THEN "enabled" ELSE "disabled")
    /\ doubt' = (doubt /\ (c = busy => \E d \in Calls :
                    /\ Unfinished(d)
                    /\ call[d].op \in {"setup", "confirm", "disable"}))
    /\ UNCHANGED <<clock, phone, pad, row, step, mfaEnabled, busy, login,
                   history>>

SetupReads(c) ==
    /\ Is(c, "sent", "setup")
    /\ IF row.enabled THEN Answer(c, "error") ELSE Reads(c, {})
    /\ UNCHANGED <<clock, phone, pad, row, security, login, history>>

\* Mutant: what the account had is turned on again with the new secret.
SetupWritesEnabled(c) ==
    /\ Is(c, "read", "setup")
    /\ UpdateMfa(c, [Off EXCEPT !.secret = c, !.enabled = pad # {}])
    /\ Answer(c, "ok")
    /\ UNCHANGED <<clock, phone, pad, security, login, used, twice>>

\* A new secret, not enabled.
SetupWrites(c) ==
    /\ Is(c, "read", "setup")
    /\ UpdateMfa(c, [Off EXCEPT !.secret = c])
    /\ Answer(c, "ok")
    /\ UNCHANGED <<clock, phone, pad, security, login, used, twice>>

\* The code must be of the secret that was read.
ConfirmReads(c) ==
    /\ Is(c, "sent", "confirm")
    /\ IF /\ row.secret # None /\ ~row.enabled
          /\ InWindow(row.secret, call[c].code)
       THEN Reads(c, {})
       ELSE Answer(c, "error")
    /\ UNCHANGED <<clock, phone, pad, row, security, login, history>>

\* Eight codes have been hashed; the secret is not written.
ConfirmWrites(c) ==
    /\ Is(c, "read", "confirm")
    /\ UpdateMfa(c, [row EXCEPT !.enabled = TRUE,
                                !.lastStep = call[c].code.step,
                                !.codes = BackupOf(c)])
    /\ Accept(call[c].code)
    /\ Answer(c, "ok")
    /\ UNCHANGED <<clock, phone, pad, security, login>>

DisableReads(c) ==
    /\ Is(c, "sent", "disable")
    /\ IF row.enabled /\ row.secret # None /\ AcceptsTotp(call[c].code)
       THEN Reads(c, {})
       ELSE Answer(c, "error")
    /\ UNCHANGED <<clock, phone, pad, row, security, login, history>>

DisableWrites(c) ==
    /\ Is(c, "read", "disable")
    /\ UpdateMfa(c, Off)
    /\ Accept(call[c].code)
    /\ Answer(c, "ok")
    /\ UNCHANGED <<clock, phone, pad, security, login>>

IssueSession(c) ==
    Answer(c, IF row.enabled THEN "challenge" ELSE "session")

\* With a password, Google or Facebook.
Login(c) ==
    /\ Is(c, "sent", "login")
    /\ IssueSession(c)
    /\ UNCHANGED <<clock, phone, pad, row, security, login, history>>

\* The challenge the login answered with lasts 5 minutes, and nobody counts
\* them here: it may be over at any moment.
VerifyMfaChallengeFails(c) == Answer(c, "error")

VerifyReads(c) ==
    /\ Is(c, "sent", "verify")
    /\ \/ VerifyMfaChallengeFails(c)
       \/ /\ row.enabled /\ row.secret # None
          /\ AcceptsTotp(call[c].code) \/ call[c].code \in row.codes
          /\ Reads(c, row.codes)
    /\ UNCHANGED <<clock, phone, pad, row, security, login, history>>

Remaining(code, codes) == codes \ {code}

\* The step of the code is stored, or the codes that were read without it.
VerifyWrites(c) ==
    /\ Is(c, "read", "verify")
    /\ LET code == call[c].code IN
       /\ UpdateMfa(c, IF code \in Totp
                       THEN [row EXCEPT !.lastStep = code.step]
                       ELSE [row EXCEPT !.codes =
                                Remaining(code, call[c].seen)])
       /\ Accept(code)
    /\ Answer(c, "session")
    /\ UNCHANGED <<clock, phone, pad, security, login>>

-----------------------------------------------------------------------------
(* SecurityPage. *)

Asking == call[busy] # Gone /\ call[busy].op = "me"

\* Mounted, or left and mounted again: it asks for the status.
OpenSecurity(c) ==
    /\ Send(c, "me", None)
    /\ step' = "loading" /\ mfaEnabled' = FALSE /\ busy' = c
    /\ doubt' = (doubt \/ (busy # None /\ ~Asking))
    /\ UNCHANGED <<clock, phone, pad, row, login, history>>

\* A button is disabled while the page waits. The code is what the app shows.
Submit(c, op) ==
    /\ busy = None
    /\ \/ op = "setup" /\ step = "idle" /\ ~mfaEnabled /\ Send(c, op, None)
       \/ /\ \/ op = "confirm" /\ step = "scanning"
             \/ op = "disable" /\ step = "idle" /\ mfaEnabled
          /\ phone # None
          /\ Send(c, op, [secret |-> phone, step |-> clock])
    /\ busy' = c
    /\ UNCHANGED <<clock, phone, pad, row, step, mfaEnabled, doubt, login,
                   history>>

\* Cancelar, and Ya los guardé.
Back ==
    /\ busy = None /\ step \in {"scanning", "backup"}
    /\ step' = "idle"
    /\ UNCHANGED <<clock, phone, pad, row, call, mfaEnabled, busy, doubt,
                   login, history>>

\* Mutant: after disabling, the page goes on saying that it is on.
OnAnswerForgets ==
    /\ busy # None /\ call[busy].at = "done"
    /\ call' = [call EXCEPT ![busy] = Gone] /\ busy' = None
    /\ step' = IF call[busy].op = "me" /\ call[busy].result # "error"
               THEN "idle" ELSE step
    /\ mfaEnabled' = (mfaEnabled \/ call[busy].result = "enabled")
    /\ UNCHANGED <<clock, phone, pad, row, doubt, login, history>>

\* The driver scans the secret and notes the codes. An error is shown, and
\* changes nothing: a page that did not get its status goes on loading.
OnAnswer ==
    /\ busy # None /\ call[busy].at = "done"
    /\ call' = [call EXCEPT ![busy] = Gone] /\ busy' = None
    /\ LET op == call[busy].op
           ok == call[busy].result # "error" IN
       /\ step' = IF ~ok THEN step
                  ELSE CASE op = "me" -> "idle" [] op = "setup" -> "scanning"
                         [] op = "confirm" -> "backup" [] OTHER -> step
       /\ mfaEnabled' = IF ok /\ op # "setup"
                        THEN op = "confirm" \/ call[busy].result = "enabled"
                        ELSE mfaEnabled
       /\ phone' = IF ok /\ op = "setup" THEN busy ELSE phone
       /\ pad' = IF ok /\ op = "confirm" THEN BackupOf(busy) ELSE pad
    /\ UNCHANGED <<clock, row, doubt, login, history>>

\* 3 s: 503. The answer is of no use any more.
OnTimeout ==
    /\ busy # None /\ call[busy].at # "done"
    /\ busy' = None
    /\ doubt' = (doubt \/ ~Asking)
    /\ UNCHANGED <<clock, phone, pad, row, call, step, mfaEnabled, login,
                   history>>

-----------------------------------------------------------------------------
(* LoginPage and MfaChallengePage. *)

SubmitLogin(c) ==
    /\ view = "login" /\ loading = None
    /\ Send(c, "login", None)
    /\ loading' = c /\ awaited' = awaited \cup {c}
    /\ UNCHANGED <<clock, phone, pad, row, security, view, history>>

SubmitCode(c, code) ==
    /\ view = "mfa" /\ loading = None
    /\ \/ code \in pad
       \/ phone # None /\ code = [secret |-> phone, step |-> clock]
    /\ Send(c, "verify", code)
    /\ loading' = c /\ awaited' = awaited \cup {c}
    /\ UNCHANGED <<clock, phone, pad, row, security, view, history>>

\* Volver a iniciar sesión, also while a call is under way, or signing out.
BackToLogin ==
    /\ view # "login"
    /\ view' = "login" /\ loading' = None
    /\ UNCHANGED <<clock, phone, pad, row, call, security, awaited, history>>

NotAwaited(c) ==
    /\ awaited' = awaited \ {c}
    /\ loading' = IF loading = c THEN None ELSE loading

\* handleLoginResult, also when the form that sent it is gone.
OnLoginResult(c) ==
    /\ c \in awaited /\ call[c].at = "done"
    /\ call' = [call EXCEPT ![c] = Gone]
    /\ view' = CASE call[c].result = "session" -> "in"
                 [] call[c].result = "challenge" -> "mfa"
                 [] OTHER -> view
    /\ loading' = IF view' # view \/ loading = c THEN None ELSE loading
    /\ awaited' = awaited \ {c}
    /\ UNCHANGED <<clock, phone, pad, row, security, history>>

\* Mutant: the gateway waits for as long as auth-service is up.
OnLoginTimeoutNever(c) ==
    /\ c \in awaited /\ call[c].at = "read"
    /\ NotAwaited(c)
    /\ UNCHANGED <<clock, phone, pad, row, call, security, view, history>>

OnLoginTimeout(c) ==
    /\ c \in awaited /\ call[c].at # "done"
    /\ NotAwaited(c)
    /\ UNCHANGED <<clock, phone, pad, row, call, security, view, history>>

-----------------------------------------------------------------------------
Handlers(c) ==
    \/ GetMe(c) \/ SetupReads(c) \/ SetupWrites(c)
    \/ ConfirmReads(c) \/ ConfirmWrites(c)
    \/ DisableReads(c) \/ DisableWrites(c)
    \/ Login(c) \/ VerifyReads(c) \/ VerifyWrites(c)
    \/ CallLost(c)

Next ==
    \/ Tick
    \/ \E c \in Calls :
          \/ Handlers(c)
          \/ OpenSecurity(c)
          \/ \E op \in {"setup", "confirm", "disable"} : Submit(c, op)
          \/ SubmitLogin(c)
          \/ \E code \in pad \cup [secret : {phone}, step : {clock}] :
                SubmitCode(c, code)
          \/ OnLoginResult(c) \/ OnLoginTimeout(c)
    \/ Back \/ OnAnswer \/ OnTimeout \/ BackToLogin

Spec == Init /\ [][Next]_vars

\* An answer is handled, and the timer of the gateway fires.
FairSpec ==
    /\ Spec
    /\ WF_vars(OnAnswer \/ OnTimeout)
    /\ WF_vars(\E c \in Calls : OnLoginResult(c) \/ OnLoginTimeout(c))

-----------------------------------------------------------------------------
Rows == [enabled : BOOLEAN, secret : Batches \cup {None},
         lastStep : Steps \cup {None}, codes : SUBSET Backup]

CallStates ==
    {Blank, Gone}
    \cup [at : {"sent"}, op : Ops, code : Codes \cup {None}]
    \cup [at : {"read"}, op : Ops, code : Codes \cup {None},
          seen : SUBSET Backup]
    \cup [at : {"done"}, op : Ops, result : Results]

TypeOK ==
    /\ clock \in Steps /\ phone \in Batches \cup {None} /\ pad \subseteq Backup
    /\ row \in Rows
    /\ call \in [Calls -> CallStates]
    /\ step \in {"gone", "loading", "idle", "scanning", "backup"}
    /\ mfaEnabled \in BOOLEAN /\ busy \in Calls \cup {None}
    /\ view \in {"login", "mfa", "in"}
    /\ loading \in Calls \cup {None} /\ awaited \subseteq Calls
    /\ used \subseteq Codes /\ twice \subseteq Codes
    /\ overlapped \in BOOLEAN /\ crossed \in BOOLEAN /\ doubt \in BOOLEAN

\* "si se cierra la pantalla a mitad de camino no queda bloqueado": however the
\* driver sets up, cancels, retries and leaves, and whatever answers are late
\* or lost, an account that asks for a second factor asks for the one in the
\* phone, unless a set-up or a disabling that the page gave up on was written
\* in the middle of a confirmation.
NotLockedOut == row.enabled /\ ~crossed => row.secret = phone

\* "cada uno te permite entrar una sola vez", and so does a code of the app,
\* also the one that confirmed it, unless two calls overlapped that both write
\* the row.
UsedOnce == ~overlapped => twice = {}

\* When the page waits for nothing, it says what is so, unless it gave up on a
\* call and has not asked again since: whether the factor is on, the secret to
\* scan, and the codes to note. The list of codes may also be one that a slow
\* verification has written back.
PageAgrees ==
    busy = None /\ step \notin {"gone", "loading"} /\ ~doubt =>
        /\ mfaEnabled <=> row.enabled
        /\ step = "scanning" => row.secret = phone
        /\ step = "backup" /\ ~overlapped => row.codes \subseteq pad

\* When the clicks are over neither form goes on waiting, whatever becomes of
\* auth-service.
FormsComeBack == <>[](busy = None /\ loading = None)
=============================================================================
