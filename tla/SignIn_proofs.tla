---------------------------- MODULE SignIn_proofs ----------------------------
(* The promises of signing up and signing in, for any number of attempts,    *)
(* calls, steps of the clock and backup codes.                               *)
EXTENDS SignIn, TLAPS

-----------------------------------------------------------------------------
(* Making an account. *)

\* Who found no account still finds none, or lost a race; who was answered has
\* the account, or there is one.
AccountsAgree ==
    \A a \in A!Attempts :
        /\ server[a] = "absent" /\ account # 0 => a \in raced
        /\ server[a] = "unavailable" => account # 0 /\ a \in raced
        /\ server[a] = "created" => account = a
        /\ server[a] = "session" => account # 0

AccountInductive == A!TypeOK /\ AccountsAgree

\* At first there is no account and nothing was asked.
LEMMA InitAccount == A!Init => AccountInductive
<1> SUFFICES ASSUME A!Init
             PROVE  AccountInductive
  OBVIOUS
<1>1. MaxAttempts \in Nat
  BY SignInAssumption DEF A!SignUpAssumption
<1>2. sdkFailed \in BOOLEAN
  BY DEF A!Init
<1>3. A!TypeOK
  BY <1>1, <1>2
  DEF A!Init, A!TypeOK, A!Attempts, A!Controls, A!Answers
<1>4. AccountsAgree
  BY DEF A!Init, AccountsAgree
<1> QED
  BY <1>3, <1>4 DEF AccountInductive

\* What the browser does leaves auth-service alone, but for a request it sends.
LEMMA BrowserAccount ==
    ASSUME AccountInductive, NEW a \in A!Attempts,
           \/ A!SubmitRegister(a) \/ A!ClickGoogle(a) \/ A!ClickFacebook(a)
           \/ A!SdkSettled(a) \/ A!PopupCloses(a) \/ A!OnTimeout(a)
           \/ A!OnAnswer(a)
    PROVE  AccountInductive'
  BY ZenonT(30)
    DEF AccountInductive, AccountsAgree, A!TypeOK, A!Attempts, A!Controls,
      A!Answers, A!SubmitRegister, A!ClickGoogle, A!ClickFacebook,
      A!SdkSettled, A!PopupCloses, A!OnTimeout, A!OnAnswer, A!Click, A!Client,
      A!Post, A!LoadSdk, A!sdk

\* auth-service looks before it inserts, and an INSERT that fails was
\* overtaken.
LEMMA ServerAccount ==
    ASSUME AccountInductive, NEW a \in A!Attempts,
           \/ A!Register(a) \/ A!LoginWithGoogle(a)
           \/ A!AssertTokenBelongsToThisApp(a) \/ A!FetchIdentity(a)
           \/ A!FindsByIdentity(a) \/ A!Creates(a) \/ A!Lost(a)
    PROVE  AccountInductive'
<1>1. CASE A!Register(a) \/ A!FindsByIdentity(a)
  BY <1>1 DEF AccountInductive, AccountsAgree, A!TypeOK, A!Attempts,
      A!Answers, A!Register, A!FindsByIdentity, A!Finds, A!Goes, A!sdk
<1>2. CASE \/ A!LoginWithGoogle(a) \/ A!AssertTokenBelongsToThisApp(a)
           \/ A!FetchIdentity(a) \/ A!Lost(a)
  BY <1>2, ZenonT(30) DEF AccountInductive, AccountsAgree, A!TypeOK, A!Attempts,
      A!Answers, A!LoginWithGoogle, A!AssertTokenBelongsToThisApp,
      A!FetchIdentity, A!Lost, A!Goes, A!sdk
<1>3. CASE A!Creates(a)
  <2>1. CASE account # 0
    BY <1>3, <2>1 DEF AccountInductive, AccountsAgree, A!TypeOK, A!Attempts,
        A!Answers, A!Creates, A!Goes, A!sdk
  <2>2. CASE account = 0
    <3>1. /\ server' = [server EXCEPT ![a] = A!Created(a)]
          /\ server[a] = "absent" /\ account' = a
          /\ raced' = {b \in A!Attempts \ {a} : server[b] = "absent"}
          /\ UNCHANGED <<client, via, sdkPromise, script, sdkFailed>>
      BY <1>3, <2>2 DEF A!Creates, A!Goes, A!sdk
    <3>2. A!Created(a) \in {"created", "session"}
      BY DEF A!Created
    <3>3. A!TypeOK'
      BY <3>1, <3>2 DEF AccountInductive, A!TypeOK, A!Attempts, A!Answers
    <3>4. AccountsAgree'
      BY <2>2, <3>1, <3>2 DEF AccountInductive, AccountsAgree, A!TypeOK,
          A!Attempts
    <3> QED
      BY <3>3, <3>4 DEF AccountInductive
  <2> QED
    BY <2>1, <2>2
<1> QED
  BY <1>1, <1>2, <1>3

\* Every step of the browser, of auth-service and of the SDK's script.
LEMMA StepAccount == AccountInductive /\ [A!Next]_accounts => AccountInductive'
<1> SUFFICES ASSUME AccountInductive, [A!Next]_accounts
             PROVE  AccountInductive'
  OBVIOUS
<1>1. CASE UNCHANGED accounts
  BY <1>1 DEF accounts, AccountInductive, AccountsAgree, A!TypeOK
<1>2. CASE A!ScriptLoads \/ A!ScriptFails \/ A!Reload
  BY <1>2 DEF AccountInductive, AccountsAgree, A!TypeOK, A!ScriptLoads,
      A!ScriptFails, A!Reload
<1> QED
  BY <1>1, <1>2, BrowserAccount, ServerAccount DEF A!Next

\* The invariant of making an account, in every behaviour of the composition.
LEMMA AccountHolds == Spec => []AccountInductive
<1>1. Init => AccountInductive
  BY InitAccount DEF Init
<1>2. AccountInductive /\ [Next]_vars => AccountInductive'
  BY StepAccount DEF Next, Account, Factor, vars, accounts
<1> QED
  BY <1>1, <1>2, PTL DEF Spec

\* However registrations and first logins overlap, one of them makes the
\* account, and only those it overtook are told that the service is down.
THEOREM OneAccountTheorem == Spec => []OneAccount
<1>1. AccountInductive => OneAccount
  BY DEF AccountInductive, AccountsAgree, OneAccount, A!OneAccount
<1> QED
  BY <1>1, AccountHolds, PTL

-----------------------------------------------------------------------------
(* The second factor: what the calls under way may rely on. *)

Carries(d, secret) ==
    F!Unfinished(d) /\ call[d].code \in F!Totp /\ call[d].code.secret = secret

\* Somebody outside has the secret, or has had it.
Known(secret) ==
    \/ phone = secret
    \/ \E d \in F!Calls : Carries(d, secret)
    \/ \E k \in used : k \in F!Totp /\ k.secret = secret

\* The forms send the kind of code each operation asks for.
CodesFit ==
    \A d \in F!Calls : F!Unfinished(d) =>
        /\ call[d].op \in {"confirm", "disable"} => call[d].code \in F!Totp
        /\ call[d].op = "verify" => call[d].code \in F!Codes

SettingUp(c) ==
    \/ call[c] = F!Blank
    \/ call[c].at \in {"sent", "read", "done"} /\ call[c].op = "setup"

\* The secret a set-up will write, or has answered with and nobody scanned.
NewSecrets == \A c \in F!Calls : SettingUp(c) => ~Known(c)

Answered ==
    busy # None /\ call[busy].at = "done" /\ call[busy].result # "error"

\* While the answer of a set-up waits to be shown, nobody can confirm.
SetupAnswers ==
    Answered /\ call[busy].op = "setup" =>
        /\ row.secret # None => ~Known(row.secret)
        /\ ~crossed => ~row.enabled

\* A code of the stored secret is a code of the phone's.
CodesOfThePhone ==
    \A d \in F!Calls : Carries(d, row.secret) => row.secret = phone

\* A confirmation that nothing crossed will enable the secret it checked.
ConfirmsWhatItRead ==
    ~crossed => \A d \in F!Calls : F!Is(d, "read", "confirm") =>
                    row.secret = call[d].code.secret

\* What a call has read and will write is still so.
ReadsHold ==
    \A d \in F!Calls : call[d].at = "read" =>
        /\ call[d].op = "confirm" => /\ ~row.enabled
                                     /\ call[d].code.secret = row.secret
        /\ call[d].op \in {"disable", "verify"} => row.enabled
        /\ call[d].op \in {"disable", "verify"} =>
              \/ call[d].code \notin F!Totp
              \/ /\ call[d].code.secret = row.secret
                 /\ row.lastStep # None => call[d].code.step > row.lastStep
        /\ call[d].op = "verify" =>
              /\ call[d].seen = row.codes
              /\ call[d].code \notin F!Totp => call[d].code \in row.codes

\* A code of the app that was accepted is not after the stored step.
StepsUsed ==
    \A k \in used : k \in F!Totp /\ k.secret = row.secret =>
        row.enabled /\ row.lastStep # None /\ k.step <= row.lastStep

Confirming(c) ==
    \/ call[c] = F!Blank
    \/ F!Is(c, "sent", "confirm")
    \/ F!Is(c, "read", "confirm")

\* The stored backup codes were not accepted yet, and those a confirmation may
\* still write are of a list of their own.
BackupUnused ==
    /\ row.codes \cap used = {}
    /\ \A c \in F!Calls : Confirming(c) =>
          \A k \in row.codes \cup used : k \in F!Backup => k.batch # c

OnceInductive ==
    ~overlapped => twice = {} /\ ReadsHold /\ StepsUsed /\ BackupUnused

Changing(d) ==
    F!Unfinished(d) /\ call[d].op \in {"setup", "confirm", "disable"}

\* What the page shows is what is stored.
Agreed ==
    /\ mfaEnabled <=> row.enabled
    /\ step = "scanning" => row.secret = phone
    /\ step = "backup" /\ ~overlapped => row.codes \subseteq pad

\* Each operation is asked for in its own state of the page.
AskedInTurn ==
    /\ busy \notin awaited /\ \A c \in awaited : call[c] # F!Blank
    /\ busy # None =>
           /\ call[busy] \notin {F!Blank, F!Gone} =>
                 /\ call[busy].op = "me" => step = "loading"
                 /\ call[busy].op = "setup" => step = "idle" /\ ~mfaEnabled
                 /\ call[busy].op = "confirm" => step = "scanning"
                 /\ call[busy].op = "disable" => step = "idle"
                 /\ call[busy].op \notin {"login", "verify"}
           /\ call[busy] # F!Blank

\* An answer the page waits for tells what was stored.
AnswersAgree ==
    Answered =>
        /\ call[busy].op = "me" =>
              (call[busy].result = "enabled" <=> row.enabled)
        /\ call[busy].op = "setup" => row.secret = busy /\ ~row.enabled
        /\ call[busy].op = "confirm" =>
              /\ row.enabled
              /\ ~overlapped => row.codes \subseteq F!BackupOf(busy)
        /\ call[busy].op = "disable" =>
              ~row.enabled /\ call[busy].result # "enabled"

\* A page without doubts: only the call it waits for changes the row, and it
\* agrees with the row until that call is answered.
PageInductive ==
    /\ AskedInTurn
    /\ ~doubt =>
          /\ \A d \in F!Calls : Changing(d) => d = busy
          /\ AnswersAgree
          /\ step \notin {"gone", "loading"} /\ ~Answered => Agreed

SecretsAgree ==
    /\ NewSecrets /\ SetupAnswers /\ CodesOfThePhone /\ ConfirmsWhatItRead
    /\ F!NotLockedOut

FactorInductive ==
    F!TypeOK /\ CodesFit /\ SecretsAgree /\ OnceInductive /\ PageInductive

\* Calls, secrets, steps and codes are told apart.
LEMMA Names ==
    /\ F!Calls \subseteq F!Batches /\ None \notin F!Batches \cup F!Steps
    /\ MaxCalls \in Nat /\ MaxStep \in Nat
    /\ F!Totp \cap F!Backup = {} /\ None \notin F!Codes
    /\ \A c \in F!Batches : F!BackupOf(c) \subseteq F!Backup
  <1>1. MaxCalls \in Nat /\ MaxStep \in Nat
        /\ None \notin F!Batches \cup F!Steps \cup F!Codes
    BY SignInAssumption DEF F!MfaLoginAssumption
  <1>2. F!Calls \subseteq F!Batches
    BY <1>1 DEF F!Calls, F!Batches
  <1>3. \A k \in F!Totp : DOMAIN k = {"secret", "step"}
    BY DEF F!Totp
  <1>4. \A k \in F!Backup : DOMAIN k = {"batch", "code"}
    BY DEF F!Backup
  <1>5. {"secret", "step"} # {"batch", "code"}
    OBVIOUS
  <1>6. \A c \in F!Batches : F!BackupOf(c) \subseteq F!Backup
    BY DEF F!BackupOf, F!Backup
  <1>7. F!Totp \cap F!Backup = {}
    BY <1>3, <1>4, <1>5
  <1> QED
    BY <1>1, <1>2, <1>6, <1>7

\* What auth-service does.
LEMMA TypeHandlers ==
    ASSUME F!TypeOK, CodesFit, NEW c \in F!Calls, F!Handlers(c)
    PROVE  F!TypeOK' /\ CodesFit'
<1> USE Names DEF F!TypeOK, CodesFit, F!CallStates, F!Blank, F!Gone, F!Ops,
    F!Results, F!Unfinished, F!login, F!history, F!security
<1>1. CASE F!GetMe(c)
  <2>1. doubt' \in BOOLEAN
    BY <1>1 DEF F!GetMe, F!Is, F!Answer
  <2> QED
    BY <1>1, <2>1 DEF F!GetMe, F!Is, F!Answer
<1>2. CASE F!SetupReads(c)
  BY <1>2 DEF F!SetupReads, F!Is, F!Answer, F!Reads
<1>3. CASE F!SetupWrites(c)
  BY <1>3, ZenonT(30)
    DEF F!SetupWrites, F!Is, F!Answer, F!UpdateMfa, F!Rows, F!Off
<1>4. CASE F!ConfirmReads(c)
  BY <1>4 DEF F!ConfirmReads, F!InWindow, F!Is, F!Answer, F!Reads
<1>5. CASE F!ConfirmWrites(c)
  BY <1>5, ZenonT(30) DEF F!ConfirmWrites, F!Is, F!Answer, F!UpdateMfa, F!Rows,
     F!Totp, F!Codes, F!Accept
<1>6. CASE F!DisableReads(c)
  BY <1>6 DEF F!DisableReads, F!Is, F!Answer, F!Reads
<1>7. CASE F!DisableWrites(c)
  BY <1>7 DEF F!DisableWrites, F!Is, F!Answer, F!UpdateMfa, F!Rows,
     F!Off, F!Accept, F!Codes, F!Totp
<1>8. CASE F!Login(c)
  BY <1>8 DEF F!Login, F!IssueSession, F!Is, F!Answer
<1>9. CASE F!VerifyReads(c)
  BY <1>9 DEF F!VerifyReads, F!VerifyMfaChallengeFails, F!Is, F!Answer,
     F!Reads, F!Rows
<1>10. CASE F!VerifyWrites(c)
  BY <1>10 DEF F!VerifyWrites, F!Remaining, F!Is, F!Answer, F!UpdateMfa,
     F!Rows, F!Totp, F!Codes, F!Accept
<1>11. CASE F!CallLost(c)
  BY <1>11 DEF F!CallLost
<1> QED
  BY <1>1, <1>2, <1>3, <1>4, <1>5, <1>6, <1>7, <1>8, <1>9, <1>10, <1>11
     DEF F!Handlers

\* What the pages do, and the clock.
LEMMA TypePages ==
    ASSUME F!TypeOK, CodesFit,
           F!Next, ~ \E c \in F!Calls : F!Handlers(c)
    PROVE  F!TypeOK' /\ CodesFit'
<1> USE Names DEF F!TypeOK, CodesFit, F!CallStates, F!Blank, F!Gone, F!Ops,
    F!Results, F!Unfinished, F!login, F!history, F!security
<1>1. ASSUME NEW c \in F!Calls, F!OpenSecurity(c)
      PROVE  F!TypeOK' /\ CodesFit'
  <2>1. doubt' \in BOOLEAN
    BY <1>1 DEF F!OpenSecurity, F!Send, F!Codes
  <2> QED
    BY <1>1, <2>1 DEF F!OpenSecurity, F!Send, F!Codes
<1>2. ASSUME NEW c \in F!Calls, F!SubmitLogin(c)
      PROVE  F!TypeOK' /\ CodesFit'
  BY <1>2 DEF F!SubmitLogin, F!Send, F!Codes
<1>3. ASSUME NEW c \in F!Calls, F!OnLoginResult(c)
      PROVE  F!TypeOK' /\ CodesFit'
  BY <1>3 DEF F!OnLoginResult
<1>4. ASSUME NEW c \in F!Calls, F!OnLoginTimeout(c)
      PROVE  F!TypeOK' /\ CodesFit'
  BY <1>4 DEF F!OnLoginTimeout, F!NotAwaited
<1>5. CASE F!Tick
  BY <1>5 DEF F!Tick, F!Steps
<1>6. CASE F!Back
  BY <1>6 DEF F!Back
<1>7. CASE F!OnAnswer
  BY <1>7 DEF F!OnAnswer, F!Totp
<1>8. CASE F!OnTimeout
  <2>1. doubt' \in BOOLEAN
    BY <1>8 DEF F!OnTimeout
  <2> QED
    BY <1>8, <2>1 DEF F!OnTimeout
<1>9. CASE F!BackToLogin
  BY <1>9 DEF F!BackToLogin
<1>10. ASSUME NEW c \in F!Calls, NEW code, F!SubmitCode(c, code)
      PROVE  F!TypeOK' /\ CodesFit'
  BY <1>10 DEF F!SubmitCode, F!Send, F!Totp, F!Backup, F!Codes
<1>11. ASSUME NEW c \in F!Calls,
             NEW op \in {"setup", "confirm", "disable"}, F!Submit(c, op)
      PROVE  F!TypeOK' /\ CodesFit'
  BY <1>11 DEF F!Submit, F!Send, F!Totp, F!Codes
<1> QED
  BY <1>1, <1>2, <1>3, <1>4, <1>5, <1>6, <1>7, <1>8, <1>9, <1>10, <1>11
     DEF F!Next

\* A new secret is nobody's yet, and a confirmation enables what it checked.
LEMMA SecretsHandlers ==
    ASSUME F!TypeOK, CodesFit, SecretsAgree,
           NEW c \in F!Calls, F!Handlers(c)
    PROVE  SecretsAgree'
<1> USE Names DEF SecretsAgree, NewSecrets, SettingUp, Answered,
    SetupAnswers, CodesOfThePhone, ConfirmsWhatItRead, F!NotLockedOut,
    CodesFit, Known, Carries, F!TypeOK, F!CallStates, F!Blank, F!Gone,
    F!Unfinished, F!Is, F!login, F!history, F!security
<1>1. CASE F!GetMe(c)
  BY <1>1 DEF F!GetMe, F!Answer
<1>2. CASE F!SetupReads(c)
  BY <1>2 DEF F!SetupReads, F!Answer, F!Reads
<1>3. CASE F!SetupWrites(c)
  BY <1>3, ZenonT(30) DEF F!SetupWrites, F!Answer, F!UpdateMfa, F!Rows, F!Off
<1>4. CASE F!ConfirmReads(c)
  BY <1>4 DEF F!ConfirmReads, F!InWindow, F!Answer, F!Reads
<1>5. CASE F!ConfirmWrites(c)
  BY <1>5 DEF F!ConfirmWrites, F!Answer, F!UpdateMfa, F!Rows, F!Totp,
     F!Codes, F!Accept
<1>6. CASE F!DisableReads(c)
  BY <1>6 DEF F!DisableReads, F!Answer, F!Reads
<1>7. CASE F!DisableWrites(c)
  <2> USE <1>7 DEF F!DisableWrites, F!Answer, F!UpdateMfa, F!Rows, F!Off,
     F!Accept, F!Totp
  <2>1. NewSecrets' /\ SetupAnswers'
    OBVIOUS
  <2>2. CodesOfThePhone' /\ ConfirmsWhatItRead' /\ F!NotLockedOut'
    OBVIOUS
  <2> QED
    BY <2>1, <2>2
<1>8. CASE F!Login(c)
  BY <1>8 DEF F!Login, F!IssueSession, F!Answer
<1>9. CASE F!VerifyReads(c)
  BY <1>9 DEF F!VerifyReads, F!VerifyMfaChallengeFails, F!Answer,
     F!Reads, F!Rows
<1>10. CASE F!VerifyWrites(c)
  BY <1>10 DEF F!VerifyWrites, F!Remaining, F!Answer, F!UpdateMfa,
     F!Rows, F!Totp, F!Codes, F!Accept
<1>11. CASE F!CallLost(c)
  BY <1>11 DEF F!CallLost
<1> QED
  BY <1>1, <1>2, <1>3, <1>4, <1>5, <1>6, <1>7, <1>8, <1>9, <1>10, <1>11
     DEF F!Handlers

\* The pages send codes of the phone's secret only, and scan new ones.
LEMMA SecretsPages ==
    ASSUME F!TypeOK, CodesFit, SecretsAgree,
           F!Next, ~ \E c \in F!Calls : F!Handlers(c)
    PROVE  SecretsAgree'
<1> USE Names DEF SecretsAgree, NewSecrets, SettingUp, Answered,
    SetupAnswers, CodesOfThePhone, ConfirmsWhatItRead, F!NotLockedOut,
    CodesFit, Known, Carries, F!TypeOK, F!CallStates, F!Blank, F!Gone,
    F!Unfinished, F!Is, F!login, F!history, F!security
<1>1. ASSUME NEW c \in F!Calls, F!OpenSecurity(c)
      PROVE  SecretsAgree'
  BY <1>1 DEF F!OpenSecurity, F!Send, F!Codes
<1>2. ASSUME NEW c \in F!Calls, F!SubmitLogin(c)
      PROVE  SecretsAgree'
  BY <1>2 DEF F!SubmitLogin, F!Send, F!Codes
<1>3. ASSUME NEW c \in F!Calls, F!OnLoginResult(c)
      PROVE  SecretsAgree'
  BY <1>3 DEF F!OnLoginResult
<1>4. ASSUME NEW c \in F!Calls, F!OnLoginTimeout(c)
      PROVE  SecretsAgree'
  BY <1>4 DEF F!OnLoginTimeout, F!NotAwaited
<1>5. CASE F!Tick
  BY <1>5 DEF F!Tick, F!Steps
<1>6. CASE F!Back
  BY <1>6 DEF F!Back
<1>7. CASE F!OnAnswer
  BY <1>7 DEF F!OnAnswer, F!Totp
<1>8. CASE F!OnTimeout
  BY <1>8 DEF F!OnTimeout
<1>9. CASE F!BackToLogin
  BY <1>9 DEF F!BackToLogin
<1>10. ASSUME NEW c \in F!Calls, NEW code, F!SubmitCode(c, code)
      PROVE  SecretsAgree'
  BY <1>10 DEF F!SubmitCode, F!Send, F!Totp, F!Backup, F!Codes
<1>11. ASSUME NEW c \in F!Calls,
             NEW op \in {"setup", "confirm", "disable"}, F!Submit(c, op)
      PROVE  SecretsAgree'
  BY <1>11 DEF F!Submit, F!Send, F!Totp, F!Codes
<1> QED
  BY <1>1, <1>2, <1>3, <1>4, <1>5, <1>6, <1>7, <1>8, <1>9, <1>10, <1>11
     DEF F!Next

\* A code is written down as used by the call that was the only one to read.
LEMMA OnceHandlers ==
    ASSUME F!TypeOK, CodesFit, SecretsAgree, OnceInductive,
           NEW c \in F!Calls, F!Handlers(c)
    PROVE  OnceInductive'
<1> USE Names DEF OnceInductive, SecretsAgree, ReadsHold, StepsUsed,
    BackupUnused, Confirming, NewSecrets, SettingUp, CodesFit, Known,
    Carries, F!TypeOK, F!CallStates, F!Blank, F!Gone, F!Unfinished, F!Is,
    F!login, F!history, F!security
<1>1. CASE F!GetMe(c)
  BY <1>1 DEF F!GetMe, F!Answer
<1>2. CASE F!SetupReads(c)
  BY <1>2 DEF F!SetupReads, F!Answer, F!Reads
<1>3. CASE F!SetupWrites(c)
  BY <1>3 DEF F!SetupWrites, F!Answer, F!UpdateMfa, F!Rows, F!Off
<1>4. CASE F!ConfirmReads(c)
  BY <1>4 DEF F!ConfirmReads, F!InWindow, F!Answer, F!Reads
<1>5. CASE F!ConfirmWrites(c)
  <2> SUFFICES ASSUME ~overlapped'
               PROVE  /\ twice' = {} /\ ReadsHold'
                      /\ StepsUsed' /\ BackupUnused'
    OBVIOUS
  <2>1. /\ ~overlapped
        /\ \A d \in F!Calls \ {c} : call[d].at # "read"
    BY <1>5 DEF F!ConfirmWrites, F!UpdateMfa
  <2>2. call[c].code \in F!Totp /\ ~row.enabled
        /\ call[c].code.secret = row.secret
    BY <1>5, <2>1 DEF F!ConfirmWrites, F!Codes
  <2>3. call[c].code \notin used
    BY <1>5, <2>1, <2>2 DEF F!ConfirmWrites, F!Rows, F!Steps, F!Totp, F!Codes
  <2>4. twice' = {}
    BY <1>5, <2>1, <2>3 DEF F!ConfirmWrites, F!Accept
  <2>5. ReadsHold'
    BY <1>5, <2>1 DEF F!ConfirmWrites, F!Answer
  <2>6. StepsUsed'
    BY <1>5, <2>1, <2>2, <2>3 DEF F!ConfirmWrites, F!UpdateMfa,
       F!Accept, F!Rows, F!Totp, F!BackupOf, F!Backup, F!Steps
  <2>7. BackupUnused'
    BY <1>5, <2>1, <2>2 DEF F!ConfirmWrites, F!UpdateMfa, F!Accept,
       F!Answer, F!Rows, F!Totp, F!BackupOf, F!Backup
  <2> QED
    BY <2>4, <2>5, <2>6, <2>7
<1>6. CASE F!DisableReads(c)
  BY <1>6 DEF F!DisableReads, F!Answer, F!Reads, F!AcceptsTotp,
     F!InWindow
<1>7. CASE F!DisableWrites(c)
  <2> SUFFICES ASSUME ~overlapped'
               PROVE  /\ twice' = {} /\ ReadsHold'
                      /\ StepsUsed' /\ BackupUnused'
    OBVIOUS
  <2>1. /\ ~overlapped
        /\ \A d \in F!Calls \ {c} : call[d].at # "read"
    BY <1>7 DEF F!DisableWrites, F!UpdateMfa
  <2>2. call[c].code \in F!Totp /\ row.enabled
        /\ call[c].code.secret = row.secret
    BY <1>7, <2>1 DEF F!DisableWrites, F!Codes
  <2>3. call[c].code \notin used
    BY <1>7, <2>1, <2>2 DEF F!DisableWrites, F!Rows, F!Steps, F!Totp, F!Codes
  <2>4. twice' = {}
    BY <1>7, <2>1, <2>3 DEF F!DisableWrites, F!Accept
  <2>5. ReadsHold'
    BY <1>7, <2>1 DEF F!DisableWrites, F!Answer
  <2>6. StepsUsed'
    BY <1>7, <2>1, <2>2, <2>3 DEF F!DisableWrites, F!UpdateMfa,
       F!Accept, F!Rows, F!Off, F!Totp, F!Steps
  <2>7. BackupUnused'
    BY <1>7, <2>1, <2>2 DEF F!DisableWrites, F!UpdateMfa, F!Accept,
       F!Answer, F!Rows, F!Off, F!Totp
  <2> QED
    BY <2>4, <2>5, <2>6, <2>7
<1>8. CASE F!Login(c)
  BY <1>8 DEF F!Login, F!IssueSession, F!Answer
<1>9. CASE F!VerifyReads(c)
  BY <1>9 DEF F!VerifyReads, F!VerifyMfaChallengeFails, F!Answer,
     F!Reads, F!Rows, F!AcceptsTotp, F!InWindow, F!Codes
<1>10. CASE F!VerifyWrites(c)
  <2> SUFFICES ASSUME ~overlapped'
               PROVE  /\ twice' = {} /\ ReadsHold'
                      /\ StepsUsed' /\ BackupUnused'
    OBVIOUS
  <2>1. /\ ~overlapped
        /\ \A d \in F!Calls \ {c} : call[d].at # "read"
    BY <1>10 DEF F!VerifyWrites, F!UpdateMfa
  <2>2. call[c].code \in F!Codes /\ row.enabled
        /\ call[c].seen = row.codes
    BY <1>10, <2>1 DEF F!VerifyWrites, F!Codes
  <2>3. call[c].code \notin used
    BY <1>10, <2>1, <2>2 DEF F!VerifyWrites, F!Rows, F!Steps, F!Totp, F!Codes
  <2>4. twice' = {}
    BY <1>10, <2>1, <2>3 DEF F!VerifyWrites, F!Accept
  <2>5. ReadsHold'
    BY <1>10, <2>1 DEF F!VerifyWrites, F!Answer
  <2>6. StepsUsed'
    BY <1>10, <2>1, <2>2, <2>3 DEF F!VerifyWrites, F!UpdateMfa,
       F!Accept, F!Rows, F!Remaining, F!Codes, F!Totp, F!Steps
  <2>7. BackupUnused'
    BY <1>10, <2>1, <2>2 DEF F!VerifyWrites, F!UpdateMfa, F!Accept,
       F!Answer, F!Rows, F!Remaining, F!Codes, F!Totp
  <2> QED
    BY <2>4, <2>5, <2>6, <2>7
<1>11. CASE F!CallLost(c)
  BY <1>11 DEF F!CallLost
<1> QED
  BY <1>1, <1>2, <1>3, <1>4, <1>5, <1>6, <1>7, <1>8, <1>9, <1>10, <1>11
     DEF F!Handlers

\* The pages accept no code and read no row.
LEMMA OncePages ==
    ASSUME F!TypeOK, CodesFit, SecretsAgree, OnceInductive,
           F!Next, ~ \E c \in F!Calls : F!Handlers(c)
    PROVE  OnceInductive'
<1> USE Names DEF OnceInductive, SecretsAgree, ReadsHold, StepsUsed,
    BackupUnused, Confirming, NewSecrets, SettingUp, CodesFit, Known,
    Carries, F!TypeOK, F!CallStates, F!Blank, F!Gone, F!Unfinished, F!Is,
    F!login, F!history, F!security
<1>1. ASSUME NEW c \in F!Calls, F!OpenSecurity(c)
      PROVE  OnceInductive'
  BY <1>1 DEF F!OpenSecurity, F!Send, F!Codes
<1>2. ASSUME NEW c \in F!Calls, F!SubmitLogin(c)
      PROVE  OnceInductive'
  BY <1>2 DEF F!SubmitLogin, F!Send, F!Codes
<1>3. ASSUME NEW c \in F!Calls, F!OnLoginResult(c)
      PROVE  OnceInductive'
  BY <1>3 DEF F!OnLoginResult
<1>4. ASSUME NEW c \in F!Calls, F!OnLoginTimeout(c)
      PROVE  OnceInductive'
  BY <1>4 DEF F!OnLoginTimeout, F!NotAwaited
<1>5. CASE F!Tick
  BY <1>5 DEF F!Tick, F!Steps
<1>6. CASE F!Back
  BY <1>6 DEF F!Back
<1>7. CASE F!OnAnswer
  BY <1>7 DEF F!OnAnswer, F!Totp
<1>8. CASE F!OnTimeout
  BY <1>8 DEF F!OnTimeout
<1>9. CASE F!BackToLogin
  BY <1>9 DEF F!BackToLogin
<1>10. ASSUME NEW c \in F!Calls, NEW code, F!SubmitCode(c, code)
      PROVE  OnceInductive'
  BY <1>10 DEF F!SubmitCode, F!Send, F!Totp, F!Backup, F!Codes
<1>11. ASSUME NEW c \in F!Calls,
             NEW op \in {"setup", "confirm", "disable"}, F!Submit(c, op)
      PROVE  OnceInductive'
  BY <1>11 DEF F!Submit, F!Send, F!Totp, F!Codes
<1> QED
  BY <1>1, <1>2, <1>3, <1>4, <1>5, <1>6, <1>7, <1>8, <1>9, <1>10, <1>11
     DEF F!Next

\* Only the call the page waits for changes what it shows.
LEMMA PageHandlers ==
    ASSUME F!TypeOK, CodesFit, OnceInductive, PageInductive,
           NEW c \in F!Calls, F!Handlers(c)
    PROVE  PageInductive'
<1> USE Names DEF PageInductive, AskedInTurn, AnswersAgree, Answered,
    Agreed, Changing, CodesFit, F!TypeOK, F!CallStates, F!Blank, F!Gone,
    F!Unfinished, F!Is, F!login, F!history, F!security
<1>1. CASE F!GetMe(c)
  <2>1. /\ UNCHANGED <<phone, pad, row, step, mfaEnabled, busy, awaited>>
        /\ UNCHANGED overlapped
        /\ F!Is(c, "sent", "me")
        /\ call' = [call EXCEPT ![c] =
                       IF c \in awaited \cup {busy}
                       THEN [at |-> "done", op |-> "me", result |->
                                IF row.enabled THEN "enabled" ELSE "disabled"]
                       ELSE F!Gone]
    BY <1>1 DEF F!GetMe, F!Answer
  <2>2. ~doubt' => ~doubt \/ (c = busy /\ ~ \E d \in F!Calls : Changing(d))
    BY <1>1 DEF F!GetMe
  <2>3. AskedInTurn'
    BY <2>1
  <2>4. \A d \in F!Calls : Changing(d)' => Changing(d)
    BY <2>1
  <2>5. ~doubt' /\ c = busy => AnswersAgree'
    BY <2>1
  <2>6. ~doubt /\ c # busy => AnswersAgree'
    BY <2>1
  <2>7. Agreed <=> Agreed'
    BY <2>1
  <2>8. c = busy => step = "loading"
    BY <2>1
  <2>9. c # busy => (Answered' <=> Answered)
    BY <2>1
  <2> QED
    BY <2>1, <2>2, <2>3, <2>4, <2>5, <2>6, <2>7, <2>8, <2>9
<1>2. CASE F!SetupReads(c)
  BY <1>2 DEF F!SetupReads, F!Answer, F!Reads
<1>3. CASE F!SetupWrites(c)
  BY <1>3 DEF F!SetupWrites, F!Answer, F!UpdateMfa, F!Rows, F!Off
<1>4. CASE F!ConfirmReads(c)
  BY <1>4 DEF F!ConfirmReads, F!InWindow, F!Answer, F!Reads
<1>5. CASE F!ConfirmWrites(c)
  BY <1>5 DEF F!ConfirmWrites, F!Answer, F!UpdateMfa, F!Rows, F!Totp,
     F!Codes, F!Accept
<1>6. CASE F!DisableReads(c)
  BY <1>6 DEF F!DisableReads, F!Answer, F!Reads, F!AcceptsTotp,
     F!InWindow
<1>7. CASE F!DisableWrites(c)
  BY <1>7 DEF F!DisableWrites, F!Answer, F!UpdateMfa, F!Rows, F!Off,
     F!Accept, F!Codes, F!Totp
<1>8. CASE F!Login(c)
  BY <1>8 DEF F!Login, F!IssueSession, F!Answer
<1>9. CASE F!VerifyReads(c)
  BY <1>9 DEF F!VerifyReads, F!VerifyMfaChallengeFails, F!Answer,
     F!Reads, F!Rows, F!AcceptsTotp, F!InWindow, F!Codes
<1>10. CASE F!VerifyWrites(c)
  <2>1. /\ row'.enabled = row.enabled /\ row'.secret = row.secret
        /\ ~overlapped' => row'.codes \subseteq row.codes /\ ~overlapped
    BY <1>10 DEF F!VerifyWrites, F!Remaining, F!UpdateMfa, F!Rows,
       OnceInductive, ReadsHold
  <2>2. c # busy
    BY <1>10 DEF F!VerifyWrites
  <2>3. /\ busy # None => call'[busy] = call[busy]
        /\ UNCHANGED <<phone, pad, step, mfaEnabled, busy, awaited, doubt>>
        /\ \A d \in F!Calls : call'[d] # call[d] => call'[d].at # "sent"
                              /\ call'[d].at # "read" /\ call'[d] # F!Blank
    BY <1>10, <2>2 DEF F!VerifyWrites, F!Answer
  <2>4. AskedInTurn' /\ (Answered' <=> Answered)
    BY <2>3
  <2>5. ~doubt => AnswersAgree' /\ (Agreed => Agreed')
    BY <2>1, <2>3
  <2>6. \A d \in F!Calls : Changing(d)' => Changing(d)
    BY <2>3
  <2> QED
    BY <2>3, <2>4, <2>5, <2>6
<1>11. CASE F!CallLost(c)
  BY <1>11 DEF F!CallLost
<1> QED
  BY <1>1, <1>2, <1>3, <1>4, <1>5, <1>6, <1>7, <1>8, <1>9, <1>10, <1>11
     DEF F!Handlers

\* The page asks in turn, and takes an answer for what it says.
LEMMA PagePages ==
    ASSUME F!TypeOK, CodesFit, OnceInductive, PageInductive,
           F!Next, ~ \E c \in F!Calls : F!Handlers(c)
    PROVE  PageInductive'
<1> USE Names DEF PageInductive, AskedInTurn, AnswersAgree, Answered,
    Agreed, Changing, CodesFit, F!TypeOK, F!CallStates, F!Blank, F!Gone,
    F!Unfinished, F!Is, F!login, F!history, F!security
<1>1. ASSUME NEW c \in F!Calls, F!OpenSecurity(c)
      PROVE  PageInductive'
  BY <1>1 DEF F!OpenSecurity, F!Send, F!Codes, F!Asking
<1>2. ASSUME NEW c \in F!Calls, F!SubmitLogin(c)
      PROVE  PageInductive'
  BY <1>2 DEF F!SubmitLogin, F!Send, F!Codes
<1>3. ASSUME NEW c \in F!Calls, F!OnLoginResult(c)
      PROVE  PageInductive'
  BY <1>3 DEF F!OnLoginResult
<1>4. ASSUME NEW c \in F!Calls, F!OnLoginTimeout(c)
      PROVE  PageInductive'
  BY <1>4 DEF F!OnLoginTimeout, F!NotAwaited
<1>5. CASE F!Tick
  BY <1>5 DEF F!Tick, F!Steps
<1>6. CASE F!Back
  BY <1>6 DEF F!Back
<1>7. CASE F!OnAnswer
  <2>1. busy # None /\ busy' = None /\ call[busy].at = "done"
    BY <1>7 DEF F!OnAnswer
  <2>2. AskedInTurn' /\ ~Answered'
    BY <1>7, <2>1 DEF F!OnAnswer
  <2>3. ~doubt => \A d \in F!Calls : ~Changing(d)'
    BY <1>7, <2>1 DEF F!OnAnswer
  <2>4. ASSUME ~doubt, step' \notin {"gone", "loading"}
        PROVE  Agreed'
    <3>1. CASE call[busy].result = "error"
      BY <1>7, <2>1, <2>4, <3>1 DEF F!OnAnswer
    <3>2. CASE call[busy].result # "error" /\ call[busy].op = "me"
      BY <1>7, <2>1, <2>4, <3>2 DEF F!OnAnswer
    <3>3. CASE call[busy].result # "error" /\ call[busy].op = "setup"
      BY <1>7, <2>1, <2>4, <3>3 DEF F!OnAnswer
    <3>4. CASE call[busy].result # "error" /\ call[busy].op = "confirm"
      BY <1>7, <2>1, <2>4, <3>4 DEF F!OnAnswer
    <3>5. CASE call[busy].result # "error" /\ call[busy].op = "disable"
      BY <1>7, <2>1, <2>4, <3>5 DEF F!OnAnswer
    <3> QED
      BY <2>1, <3>1, <3>2, <3>3, <3>4, <3>5 DEF F!Ops
  <2> QED
    BY <1>7, <2>2, <2>3, <2>4 DEF F!OnAnswer
<1>8. CASE F!OnTimeout
  BY <1>8 DEF F!OnTimeout, F!Asking
<1>9. CASE F!BackToLogin
  BY <1>9 DEF F!BackToLogin
<1>10. ASSUME NEW c \in F!Calls, NEW code, F!SubmitCode(c, code)
      PROVE  PageInductive'
  BY <1>10 DEF F!SubmitCode, F!Send, F!Totp, F!Backup, F!Codes
<1>11. ASSUME NEW c \in F!Calls,
             NEW op \in {"setup", "confirm", "disable"}, F!Submit(c, op)
      PROVE  PageInductive'
  BY <1>11 DEF F!Submit, F!Send, F!Totp, F!Codes
<1> QED
  BY <1>1, <1>2, <1>3, <1>4, <1>5, <1>6, <1>7, <1>8, <1>9, <1>10, <1>11
     DEF F!Next

\* Nothing is sent, and what the phone has, if anything, is what is stored.
LEMMA InitFactor == F!Init => FactorInductive
<1> SUFFICES ASSUME F!Init
             PROVE  FactorInductive
  OBVIOUS
<1> USE Names
<1>1. /\ mfaEnabled \in BOOLEAN /\ overlapped \in BOOLEAN
      /\ crossed \in BOOLEAN /\ doubt \in BOOLEAN
  BY DEF F!Init
<1>2. 0 \in F!Batches /\ 0 \in F!Steps /\ 0 \notin F!Calls
  BY DEF F!Batches, F!Steps, F!Calls
<1>3. /\ phone \in F!Batches \cup {None} /\ pad \subseteq F!Backup
      /\ row \in F!Rows /\ row.codes = pad
  <2>1. F!BackupOf(0) \subseteq F!Backup
    BY <1>2
  <2>2. CASE row = F!Off /\ phone = None /\ pad = {}
    BY <2>2 DEF F!Rows, F!Off
  <2>3. CASE /\ pad = F!BackupOf(0) /\ phone = 0
             /\ row = [enabled |-> TRUE, secret |-> 0, lastStep |-> 0,
                       codes |-> pad]
    BY <1>2, <2>1, <2>3 DEF F!Rows
  <2> QED
    BY <2>2, <2>3 DEF F!Init
<1>4. call \in [F!Calls -> F!CallStates]
  BY DEF F!Init, F!CallStates
<1>5. F!TypeOK
  BY <1>1, <1>2, <1>3, <1>4 DEF F!Init, F!TypeOK
<1>6. \A c \in F!Calls : call[c] = F!Blank /\ phone # c /\ ~Carries(c, phone)
  BY <1>2 DEF F!Init, F!Blank, Carries, F!Unfinished
<1>7. CodesFit
  BY <1>6 DEF CodesFit, F!Unfinished, F!Blank
<1>8. SecretsAgree
  BY <1>6 DEF F!Init, SecretsAgree, NewSecrets, SetupAnswers, Answered,
     CodesOfThePhone, ConfirmsWhatItRead, F!NotLockedOut, Known, Carries,
     F!Unfinished, F!Is, F!Blank, F!Off
<1>9. OnceInductive
  <2>1. pad = {} \/ pad = F!BackupOf(0)
    BY DEF F!Init
  <2>2. used = {} /\ twice = {}
    BY DEF F!Init
  <2>3. \A k \in pad : k.batch = 0
    <3>1. \A k \in F!BackupOf(0) : k.batch = 0
      BY DEF F!BackupOf
    <3> QED
      BY <2>1, <3>1
  <2>4. BackupUnused
    BY <1>2, <1>3, <2>2, <2>3 DEF BackupUnused
  <2> QED
    BY <1>6, <2>2, <2>4 DEF OnceInductive, ReadsHold, StepsUsed, F!Blank
<1>10. PageInductive
  BY <1>6 DEF F!Init, PageInductive, AskedInTurn, AnswersAgree, Answered,
     Agreed, Changing, F!Unfinished, F!Blank
<1> QED
  BY <1>5, <1>7, <1>8, <1>9, <1>10 DEF FactorInductive

\* Every step of auth-service, of the pages and of the clock.
LEMMA StepFactor == FactorInductive /\ [F!Next]_factors => FactorInductive'
<1> SUFFICES ASSUME FactorInductive, [F!Next]_factors
             PROVE  FactorInductive'
  OBVIOUS
<1>1. CASE UNCHANGED factors
  BY <1>1 DEF factors, FactorInductive, F!TypeOK, CodesFit, SecretsAgree,
     NewSecrets, SettingUp, Answered, SetupAnswers, CodesOfThePhone,
     ConfirmsWhatItRead, F!NotLockedOut, OnceInductive, ReadsHold, StepsUsed,
     BackupUnused, Confirming, PageInductive, AskedInTurn, AnswersAgree,
     Agreed, Changing, Known, Carries, F!Unfinished, F!Is
<1>2. CASE \E c \in F!Calls : F!Handlers(c)
  BY <1>2, TypeHandlers, SecretsHandlers, OnceHandlers, PageHandlers
  DEF FactorInductive
<1>3. CASE F!Next /\ ~ \E c \in F!Calls : F!Handlers(c)
  BY <1>3, TypePages, SecretsPages, OncePages, PagePages
  DEF FactorInductive
<1> QED
  BY <1>1, <1>2, <1>3

\* The invariant of the second factor, in every behaviour of the composition.
LEMMA FactorHolds == Spec => []FactorInductive
<1>1. Init => FactorInductive
  BY InitFactor DEF Init
<1>2. FactorInductive /\ [Next]_vars => FactorInductive'
  BY StepFactor DEF Next, Account, Factor, vars, factors
<1> QED
  BY <1>1, <1>2, PTL DEF Spec

\* Whatever is late, lost or given up on, the account asks for the second
\* factor in the phone, unless a confirmation was crossed by a set-up or a
\* disabling.
THEOREM NotLockedOutTheorem == Spec => []NotLockedOut
<1>1. FactorInductive => NotLockedOut
  BY DEF FactorInductive, SecretsAgree, NotLockedOut
<1> QED
  BY <1>1, FactorHolds, PTL

\* As long as calls that write the row do not overlap, no code of the app and
\* no backup code is accepted twice, for any number of calls and of codes.
THEOREM UsedOnceTheorem == Spec => []UsedOnce
<1>1. FactorInductive => UsedOnce
  BY DEF FactorInductive, OnceInductive, UsedOnce, F!UsedOnce
<1> QED
  BY <1>1, FactorHolds, PTL

\* A page that gave up on no call since it last asked shows whether the factor
\* is on, the secret that is stored and codes that still hold.
THEOREM PageAgreesTheorem == Spec => []PageAgrees
<1>1. FactorInductive => PageAgrees
  BY DEF FactorInductive, PageInductive, Answered, Agreed, PageAgrees,
     F!PageAgrees
<1> QED
  BY <1>1, FactorHolds, PTL

\* Both ways keep their types.
THEOREM SignInType == Spec => []TypeOK
<1>1. AccountInductive /\ FactorInductive => TypeOK
  BY DEF AccountInductive, FactorInductive, TypeOK
<1> QED
  BY <1>1, AccountHolds, FactorHolds, PTL
==============================================================================
