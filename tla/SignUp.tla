-------------------------------- MODULE SignUp --------------------------------
(* How an account comes to be: the register form, and the buttons of Google  *)
(* and Facebook, that also make one the first time. Each has a flag of its   *)
(* own, so that several attempts may be under way for the same address.      *)
EXTENDS Naturals

CONSTANT MaxAttempts \* clicks (a bound)

Attempts == 1..MaxAttempts

\* What is assumed of the constants.
SignUpAssumption == MaxAttempts \in Nat

VARIABLES
    account, \* the attempt whose row is in users; 0: none, the address is free
    client,  \* what each attempt waits for in the browser
    via,     \* the control that was clicked
    server,  \* where auth-service is with it
    sdkPromise, script, \* Facebook's SDK, loaded when it is first needed
    \* history
    raced,     \* attempts that found no account, and then there was one
    sdkFailed  \* the script could not be loaded since the page was

sdk == <<sdkPromise, script, sdkFailed>>
vars == <<account, client, via, server, sdk, raced>>

Controls == {"register", "google", "facebook"}
Answers == {"created", "session", "taken", "rejected", "unavailable"}

Init ==
    /\ account = 0
    /\ client = [a \in Attempts |-> "idle"]
    /\ via = [a \in Attempts |-> "register"]
    /\ server = [a \in Attempts |-> "idle"]
    /\ sdkPromise = "null" /\ script = "absent"
    /\ raced = {} /\ sdkFailed = FALSE

-----------------------------------------------------------------------------
(* The browser. *)

Client(a, now) == client' = [client EXCEPT ![a] = now]

\* A control is disabled while it is loading.
Click(a, control) ==
    /\ client[a] = "idle"
    /\ \A b \in Attempts : /\ b < a => client[b] # "idle"
                           /\ client[b] \notin {"idle", "over"} =>
                                 via[b] # control
    /\ via' = [via EXCEPT ![a] = control]

\* POST: to the gateway, and from there to auth-service.
Post(a) ==
    /\ Client(a, "waiting")
    /\ server' = [server EXCEPT ![a] = "sent"]

SubmitRegister(a) ==
    /\ Click(a, "register")
    /\ Post(a)
    /\ UNCHANGED <<account, sdk, raced>>

ClickGoogle(a) ==
    /\ Click(a, "google")
    /\ Client(a, "popup")
    /\ UNCHANGED <<account, server, sdk, raced>>

\* loadSdk: one promise for all; with a script element in the document,
\* whatever became of it, no other is added.
LoadSdk ==
    /\ sdkPromise' = CASE sdkPromise # "null" -> sdkPromise
                       [] script = "loaded" -> "fulfilled"
                       [] OTHER -> "pending"
    /\ script' = IF sdkPromise = "null" /\ script = "absent"
                 THEN "loading" ELSE script
    /\ sdkFailed' = sdkFailed

ClickFacebook(a) ==
    /\ Click(a, "facebook")
    /\ Client(a, "sdk")
    /\ LoadSdk
    /\ UNCHANGED <<account, server, raced>>

\* fbAsyncInit; without window.FB the promise stays rejected.
ScriptLoads ==
    /\ script = "loading"
    /\ script' = "loaded"
    /\ sdkPromise' \in {"fulfilled", "rejected"}
    /\ UNCHANGED <<account, client, via, server, sdkFailed, raced>>

\* onerror: the next click is to try again.
ScriptFails ==
    /\ script = "loading"
    /\ script' = "failed"
    /\ sdkPromise' = "null" /\ sdkFailed' = TRUE
    /\ client' = [a \in Attempts |->
                     IF client[a] = "sdk" THEN "over" ELSE client[a]]
    /\ UNCHANGED <<account, via, server, raced>>

\* FB.login opens a popup too.
SdkSettled(a) ==
    /\ client[a] = "sdk" /\ sdkPromise \in {"fulfilled", "rejected"}
    /\ Client(a, IF sdkPromise = "fulfilled" THEN "popup" ELSE "over")
    /\ UNCHANGED <<account, via, server, sdk, raced>>

\* The driver consents, or closes it.
PopupCloses(a) ==
    /\ client[a] = "popup"
    /\ \/ Post(a)
       \/ Client(a, "over") /\ server' = server
    /\ UNCHANGED <<account, via, sdk, raced>>

\* Mutant: the gateway waits for as long as auth-service is up.
OnTimeoutNever(a) ==
    /\ client[a] = "waiting" /\ server[a] = "sent"
    /\ Client(a, "over")
    /\ UNCHANGED <<account, via, server, sdk, raced>>

\* 3 s: 503, and auth-service goes on.
OnTimeout(a) ==
    /\ client[a] = "waiting" /\ server[a] \notin Answers
    /\ Client(a, "over")
    /\ UNCHANGED <<account, via, server, sdk, raced>>

\* On to the login, or to where the driver was going, or an error is shown.
OnAnswer(a) ==
    /\ client[a] = "waiting" /\ server[a] \in Answers
    /\ Client(a, "over")
    /\ UNCHANGED <<account, via, server, sdk, raced>>

Reload ==
    /\ client' = [a \in Attempts |->
                     IF client[a] = "idle" THEN "idle" ELSE "over"]
    /\ sdkPromise' = "null" /\ script' = "absent" /\ sdkFailed' = FALSE
    /\ UNCHANGED <<account, via, server, raced>>

-----------------------------------------------------------------------------
(* auth-service. *)

Goes(a, from, now) ==
    /\ server[a] = from
    /\ server' = [server EXCEPT ![a] = now]

\* findByEmail.
Finds(a, from, found) ==
    /\ Goes(a, from, IF account # 0 THEN found ELSE "absent")
    /\ UNCHANGED <<account, client, via, sdk, raced>>

\* Mutant: no look first.
RegisterBlindly(a) ==
    /\ via[a] = "register"
    /\ Goes(a, "sent", "absent")
    /\ UNCHANGED <<account, client, via, sdk, raced>>

Register(a) == via[a] = "register" /\ Finds(a, "sent", "taken")

\* The token's signature, and that Google has verified the address.
LoginWithGoogle(a) ==
    /\ via[a] = "google"
    /\ Goes(a, "sent", "rejected") \/ Goes(a, "sent", "identified")
    /\ UNCHANGED <<account, client, via, sdk, raced>>

\* The token is valid and of this application,
AssertTokenBelongsToThisApp(a) ==
    /\ via[a] = "facebook"
    /\ Goes(a, "sent", "rejected") \/ Goes(a, "sent", "checked")
    /\ UNCHANGED <<account, client, via, sdk, raced>>

\* and its user lets the address be read.
FetchIdentity(a) ==
    /\ Goes(a, "checked", "rejected") \/ Goes(a, "checked", "identified")
    /\ UNCHANGED <<account, client, via, sdk, raced>>

FindsByIdentity(a) == Finds(a, "identified", "session")

Created(a) == IF via[a] = "register" THEN "created" ELSE "session"

\* A password is hashed before. The address is unique: the second INSERT fails,
\* with an error that is none of the domain's.
Creates(a) ==
    /\ IF account # 0
       THEN Goes(a, "absent", "unavailable") /\ UNCHANGED <<account, raced>>
       ELSE /\ Goes(a, "absent", Created(a))
            /\ account' = a
            /\ raced' = {b \in Attempts \ {a} : server[b] = "absent"}
    /\ UNCHANGED <<client, via, sdk>>

\* The process dies, or the connection.
Lost(a) ==
    /\ server[a] \notin Answers \cup {"idle", "lost"}
    /\ Goes(a, server[a], "lost")
    /\ UNCHANGED <<account, client, via, sdk, raced>>

-----------------------------------------------------------------------------
Next ==
    \/ \E a \in Attempts :
          \/ SubmitRegister(a) \/ ClickGoogle(a) \/ ClickFacebook(a)
          \/ SdkSettled(a) \/ PopupCloses(a) \/ OnTimeout(a) \/ OnAnswer(a)
          \/ Register(a) \/ LoginWithGoogle(a)
          \/ AssertTokenBelongsToThisApp(a) \/ FetchIdentity(a)
          \/ FindsByIdentity(a) \/ Creates(a) \/ Lost(a)
    \/ ScriptLoads \/ ScriptFails \/ Reload

Spec == Init /\ [][Next]_vars

-----------------------------------------------------------------------------
TypeOK ==
    /\ account \in 0..MaxAttempts
    /\ client \in
          [Attempts -> {"idle", "sdk", "popup", "waiting", "over"}]
    /\ via \in [Attempts -> Controls]
    /\ server \in [Attempts -> {"idle", "sent", "checked", "identified",
                                "absent", "lost"} \cup Answers]
    /\ sdkPromise \in {"null", "pending", "fulfilled", "rejected"}
    /\ script \in {"absent", "loading", "loaded", "failed"}
    /\ raced \subseteq Attempts /\ sdkFailed \in BOOLEAN

\* One address is one account, whichever ways it is first used in at once, and
\* "no se pudo comunicar con el servicio" is said, without anything being wrong
\* with the service, only to one whose address was taken between the look and
\* the INSERT.
OneAccount ==
    \A a \in Attempts :
        /\ server[a] = "unavailable" => a \in raced
        /\ server[a] = "created" => account = a
        /\ server[a] = "session" => account # 0

\* When the clicks are over no button goes on loading, except that of Facebook
\* after the script could not be loaded once: the element that failed stays in
\* the document, and the next click waits for it.
ButtonsComeBack ==
    <>[](\A a \in Attempts : /\ client[a] # "waiting"
                             /\ client[a] = "sdk" => sdkFailed)
=============================================================================
