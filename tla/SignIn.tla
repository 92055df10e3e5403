------------------------------- MODULE SignIn -------------------------------
(***************************************************************************)
(* One browser tab on its way into the application: the login form, the    *)
(* page an e-mail link or Google returns to (callback), and AuthGuard,     *)
(* which decides what the application shows while it is open.              *)
(*                                                                         *)
(* The stored session (localStorage) is shared with the other tabs of the  *)
(* browser; React state dies with a hard navigation (Fresh) and survives a *)
(* soft one (router.push), so an answer the login form is waiting for may  *)
(* arrive when the application is already on screen.                       *)
(***************************************************************************)
EXTENDS Naturals, FiniteSets

CONSTANTS Users,       \* people, named by their e-mail address
          None,
          Slots,       \* first checks that may be under way together
          MaxEvents,   \* bound on what happens elsewhere: expiry, membership, other tabs
          MaxFailures, \* bound on requests the server does not answer
          MaxSteps     \* bound on what the person does at the login form

Modes == {"signin", "signup", "set_password", "otp"}
Sessions == [user : Users, fresh : BOOLEAN]  \* fresh: signed in while the model runs
Stored == Sessions \cup {None}
Jobs == [kind : {"signin", "signup", "send", "verify", "update", "onboard"},
         email : Users, mode : Modes]

VARIABLES
    page,       \* "login", "callback" or "app"
    stored,     \* the session in localStorage
    dead,       \* sessions that expired or were revoked
    member,     \* what the server thinks of a person: "new", "ok", "inactive" or "removed"
    form,       \* the login form: mode, step, email
    job,        \* the form's request under way (loading), or None
    checks,     \* sessions checkSession is asking /users/me about
    codes,      \* people a six-digit code or link was mailed to
    pending,    \* sessionStorage: whose chosen password waits for the link, or None
    arrival,    \* the callback page: step and the session it read
    chosenFor,  \* whose chosen password each account has been given, or None
    guard,      \* AuthGuard's flags: checking, denied, unreachable; its retry timer
    mount,      \* first checks under way
    recheck,    \* mid-session check under way: None or [sent |-> session]
    throttled,  \* the last check is younger than ACCESS_RECHECK_MIN_INTERVAL_MS
    trailing,   \* a trailing check is scheduled
    owed,       \* the session a trigger was accepted for after the server withdrew its access, or None
    crossed,    \* another tab has changed the stored session
    events, failures, steps

formVars == <<form, job, pending, arrival>>
guardVars == <<guard, mount, recheck, throttled, trailing, owed>>
serverVars == <<dead, member, codes, chosenFor>>
worldVars == <<crossed, events>>
vars == <<page, stored, checks, formVars, guardVars, serverVars, worldVars, failures, steps>>

EmptyForm == [mode |-> "signin", step |-> 1, email |-> CHOOSE u \in Users : TRUE]
NoArrival == [at |-> "none", as |-> None]
Checking == [checking |-> TRUE, denied |-> FALSE, unreachable |-> FALSE, timer |-> FALSE]
NoMount == [s \in Slots |-> None]

Init ==
    /\ page = "login"
    /\ \E n \in Users : member = [u \in Users |-> IF u = n THEN "new" ELSE "ok"]
    /\ stored \in {None} \cup [user : {u \in Users : member[u] = "ok"}, fresh : {FALSE}]
    /\ dead \in {{}, {stored} \ {None}}
    /\ form = EmptyForm /\ job = None /\ pending = None /\ arrival = NoArrival
    /\ checks = {stored} \ {None}
    /\ codes \in SUBSET {u \in Users : member[u] = "ok"} /\ chosenFor = [u \in Users |-> None]
    /\ guard = Checking /\ mount = NoMount /\ recheck = None
    /\ throttled = FALSE /\ trailing = FALSE /\ owed = None
    /\ crossed = FALSE /\ events = 0 /\ failures = 0 /\ steps = 0

-----------------------------------------------------------------------------
(* The server, and the two kinds of navigation.                            *)

\* What GET /users/me answers for a session.
Profile(s) ==
    IF s = None \/ s \in dead THEN 401
    ELSE IF member[s.user] = "ok" THEN 200
    ELSE IF member[s.user] = "inactive" THEN 400 ELSE 403

\* The server does not answer (a deploy, a restart, the network).
Fail == failures < MaxFailures /\ failures' = failures + 1
Answered == UNCHANGED failures

\* A variant for mutation testing: the guard waits for a check nobody starts.
OpenAppUnchecked ==
    /\ page' = "app" /\ guard' = Checking /\ mount' = NoMount
    /\ recheck' = None /\ throttled' = FALSE /\ trailing' = FALSE /\ owed' = None

\* A soft navigation into the application mounts AuthGuard, which starts its first check.
OpenApp ==
    /\ page' = "app" /\ guard' = Checking
    /\ \E i \in Slots : mount' = [NoMount EXCEPT ![i] = [sent |-> FALSE, as |-> None]]
    /\ recheck' = None /\ throttled' = FALSE /\ trailing' = FALSE /\ owed' = None

\* router.push: a page of the application that is already open keeps its guard.
EnterApp == IF page = "app" THEN UNCHANGED <<page, guardVars>> ELSE OpenApp

\* A hard navigation to the login page destroys the JavaScript context; the new page asks
\* about the session it finds.
FreshLogin(s) ==
    /\ page' = "login" /\ stored' = s
    /\ form' = EmptyForm /\ job' = None /\ checks' = {s} \ {None} /\ arrival' = NoArrival
    /\ guard' = Checking /\ mount' = NoMount /\ recheck' = None
    /\ throttled' = FALSE /\ trailing' = FALSE /\ owed' = None
    /\ UNCHANGED pending

Step == steps < MaxSteps /\ steps' = steps + 1

-----------------------------------------------------------------------------
(* The login form.                                                         *)

\* resetMessagesAndStep: any tab, at any time, a request under way included.
PickTab(m) ==
    /\ page = "login" /\ Step /\ m # form.mode
    /\ form' = [form EXCEPT !.mode = m, !.step = 1]
    /\ pending' = None
    /\ UNCHANGED <<page, stored, checks, job, arrival, guardVars, serverVars, worldVars, failures>>

\* "Use a different email or method" leaves the pending password where it is.
DifferentEmail ==
    /\ page = "login" /\ form.step = 2 /\ Step
    /\ form' = [form EXCEPT !.step = 1]
    /\ UNCHANGED <<page, stored, checks, job, pending, arrival, guardVars, serverVars, worldVars,
                   failures>>

\* The submit buttons are disabled while a request is under way (loading). The handler keeps
\* the address and the mode it was called with; the address is typed at step 1 only.
Submit(u) ==
    /\ page = "login" /\ job = None /\ Step
    /\ form.step = 2 => u = form.email
    /\ form' = [form EXCEPT !.email = u]
    /\ job' = [kind |-> IF form.step = 2 THEN "verify"
                        ELSE IF form.mode \in {"signin", "signup"} THEN form.mode ELSE "send",
               email |-> u, mode |-> form.mode]
    /\ UNCHANGED <<page, stored, checks, pending, arrival, guardVars, serverVars, worldVars,
                   failures>>

\* signInWithOAuth leaves the site and comes back to /callback with a session.
OAuth(u) ==
    /\ page = "login" /\ form.step = 1 /\ job = None /\ Step
    /\ page' = "callback" /\ stored' = [user |-> u, fresh |-> TRUE]
    /\ checks' = {} /\ form' = EmptyForm
    /\ arrival' = [at |-> "read", as |-> None]
    /\ UNCHANGED <<job, pending, guardVars, serverVars, worldVars, failures>>

\* Any handler's error path: the message is shown, loading ends. What was done before stays.
JobFails ==
    /\ job # None /\ job' = None
    /\ \/ Fail
       \/ job.kind = "update" /\ stored = None /\ Answered
    /\ UNCHANGED <<page, stored, checks, form, pending, arrival, guardVars, serverVars, worldVars,
                   steps>>

\* handlePasswordSignIn and handlePasswordSignUp. The session is stored and the client reset,
\* which makes the form's effect ask about the new session as well.
SignedIn ==
    /\ job # None /\ job.kind \in {"signin", "signup"}
    /\ member[job.email] = (IF job.kind = "signin" THEN "ok" ELSE "new")
    /\ member' = [member EXCEPT ![job.email] = "ok"]
    /\ stored' = [user |-> job.email, fresh |-> TRUE]
    /\ checks' = checks \cup {stored'}
    /\ job' = None /\ form' = EmptyForm
    /\ EnterApp
    /\ UNCHANGED <<pending, arrival, dead, codes, chosenFor, worldVars, failures, steps>>

\* The server's refusal: a wrong password, an account that exists, an unknown address.
SignInRefused ==
    /\ job # None /\ job.kind \in {"signin", "signup", "send"}
    /\ job.kind = "signup" => member[job.email] # "new"
    /\ job.kind = "send" => member[job.email] = "new"
    /\ job' = None
    /\ UNCHANGED <<page, stored, checks, form, pending, arrival, guardVars, serverVars, worldVars,
                   failures, steps>>

\* handleSendOtp and handleRequestPasswordOtp: the second also keeps the chosen password for
\* the link. Whatever the form shows by now goes to step 2.
CodeSent ==
    /\ job # None /\ job.kind = "send" /\ member[job.email] # "new"
    /\ codes' = codes \cup {job.email}
    /\ pending' = IF job.mode = "set_password" THEN job.email ELSE pending
    /\ form' = [form EXCEPT !.step = 2]
    /\ job' = None
    /\ UNCHANGED <<page, stored, checks, arrival, guardVars, dead, member, chosenFor, worldVars,
                   failures, steps>>

\* handleVerifyOtp, first answer: verifyOtp stores the session of the address.
CodeVerified ==
    /\ job # None /\ job.kind = "verify" /\ job.email \in codes
    /\ stored' = [user |-> job.email, fresh |-> TRUE]
    /\ codes' = codes \ {job.email}
    /\ job' = [job EXCEPT !.kind = IF job.mode = "set_password" THEN "update" ELSE "onboard"]
    /\ UNCHANGED <<page, checks, form, pending, arrival, guardVars, dead, member, chosenFor, worldVars,
                   failures, steps>>

CodeRefused ==
    /\ job # None /\ job.kind = "verify" /\ job.email \notin codes
    /\ job' = None
    /\ UNCHANGED <<page, stored, checks, form, pending, arrival, guardVars, serverVars, worldVars,
                   failures, steps>>

\* supabase.auth.updateUser acts on the session it finds in storage.
GivePassword(u) == chosenFor' = [chosenFor EXCEPT ![stored.user] = u]

\* handleVerifyOtp in "set_password" mode, second answer.
PasswordUpdated ==
    /\ job # None /\ job.kind = "update" /\ stored # None
    /\ GivePassword(job.email)
    /\ pending' = None
    /\ job' = [job EXCEPT !.kind = "onboard"]
    /\ UNCHANGED <<page, stored, checks, form, arrival, guardVars, dead, member, codes, worldVars,
                   failures, steps>>

\* What POST /users/onboard does: get or create.
Provision(u) == member' = [member EXCEPT ![u] = IF @ = "inactive" THEN @ ELSE "ok"]

\* handleVerifyOtp, last answer: /users/onboard, with the token verifyOtp returned.
Onboarded ==
    /\ job # None /\ job.kind = "onboard" /\ Provision(job.email)
    /\ job' = None /\ form' = EmptyForm
    /\ EnterApp
    /\ UNCHANGED <<stored, checks, pending, arrival, dead, codes, chosenFor, worldVars, failures, steps>>

\* A variant for mutation testing: an outage counts as a refusal.
AnyFailure == {401, 403, 503}

\* Answers that make a stored session useless.
STALE_SESSION_STATUSES == {401, 403}

\* checkSession's answer, about the session it read when it was called: a refusal removes
\* whatever session is stored by now; an answer that is not a verdict keeps it.
CheckAnswered(s) ==
    /\ s \in checks /\ checks' = checks \ {s}
    /\ \E status \in {Profile(s), 503} :
        /\ IF status = 503 THEN Fail ELSE Answered
        /\ stored' = IF status \in STALE_SESSION_STATUSES THEN None ELSE stored
        /\ IF status = 200 THEN EnterApp ELSE UNCHANGED <<page, guardVars>>
    /\ UNCHANGED <<form, job, pending, arrival, serverVars, worldVars, steps>>

-----------------------------------------------------------------------------
(* The page an e-mail link or Google returns to.                           *)

\* A mailed link opens /callback: in this tab, or in one with a sessionStorage of its own.
OpenLink(u, sameTab) ==
    /\ page = "login" /\ u \in codes /\ Step
    /\ page' = "callback" /\ stored' = [user |-> u, fresh |-> TRUE]
    /\ codes' = codes \ {u}
    /\ pending' = IF sameTab THEN pending ELSE None
    /\ checks' = {} /\ form' = EmptyForm /\ job' = None
    /\ arrival' = [at |-> "read", as |-> None]
    /\ UNCHANGED <<guardVars, dead, member, chosenFor, worldVars, failures>>

\* syncUserWithBackend reads the session and posts it to /users/onboard.
ReadSession ==
    /\ page = "callback" /\ arrival.at = "read"
    /\ arrival' = IF stored = None THEN [arrival EXCEPT !.at = "error"]
                  ELSE [at |-> "onboard", as |-> stored]
    /\ UNCHANGED <<page, stored, checks, form, job, pending, guardVars, serverVars, worldVars,
                   failures, steps>>

\* A variant for mutation testing: the address of the pending password is not compared.
ConsumeAny(s) == pending

\* consumePendingPasswordReset: the pending password, if it is this person's.
Consume(s) == IF pending = s.user THEN pending ELSE None

\* /users/onboard's answer: the pending password is consumed and applied, or a new one is
\* asked for (intent=set_password), or the person goes on.
Synced(prompt) ==
    /\ page = "callback" /\ arrival.at = "onboard"
    /\ Provision(arrival.as.user)
    /\ pending' = None
    /\ \/ /\ Consume(arrival.as) # None
          /\ arrival' = [at |-> "apply", as |-> [user |-> pending, fresh |-> TRUE]]
          /\ UNCHANGED <<page, guardVars>>
       \/ /\ Consume(arrival.as) = None /\ prompt
          /\ arrival' = [arrival EXCEPT !.at = "prompt"]
          /\ UNCHANGED <<page, guardVars>>
       \/ /\ Consume(arrival.as) = None /\ ~prompt
          /\ arrival' = NoArrival
          /\ OpenApp
    /\ UNCHANGED <<stored, checks, form, job, dead, codes, chosenFor, worldVars, failures, steps>>

\* updateUser with the pending password, or with the one typed at the prompt.
Applied ==
    /\ page = "callback" /\ arrival.at \in {"apply", "prompt"} /\ stored # None
    /\ GivePassword(arrival.as.user)
    /\ arrival' = NoArrival
    /\ OpenApp
    /\ UNCHANGED <<stored, checks, form, job, pending, dead, member, codes, worldVars,
                   failures, steps>>

\* An error ends on the error card; at the prompt it may be tried again.
ArrivalFails ==
    /\ page = "callback" /\ arrival.at \in {"onboard", "apply"}
    /\ \/ Fail
       \/ arrival.at = "apply" /\ stored = None /\ Answered
    /\ arrival' = [arrival EXCEPT !.at = "error"]
    /\ UNCHANGED <<page, stored, checks, form, job, pending, guardVars, serverVars, worldVars, steps>>

\* "Return to Login" keeps the session, which the form will ask about.
ReturnToLogin ==
    /\ page = "callback" /\ arrival.at = "error" /\ Step
    /\ page' = "login" /\ arrival' = NoArrival /\ form' = EmptyForm
    /\ checks' = {stored} \ {None}
    /\ UNCHANGED <<stored, job, pending, guardVars, serverVars, worldVars, failures>>

-----------------------------------------------------------------------------
(* AuthGuard.                                                              *)

\* checkAuthAndFetchProfile finds no session, or asks /users/me with the one it finds.
SendMount(i) ==
    /\ page = "app" /\ mount[i] # None /\ ~mount[i].sent
    /\ \/ /\ stored = None
          /\ FreshLogin(None)
       \/ /\ stored # None
          /\ mount' = [mount EXCEPT ![i] = [sent |-> TRUE, as |-> stored]]
          /\ UNCHANGED <<page, stored, checks, formVars, guard, recheck, throttled, trailing, owed>>
    /\ UNCHANGED <<serverVars, worldVars, failures, steps>>

\* The first check's answer. The effect that arms the retry timer runs when the flag changes,
\* so a second failure in a row arms nothing.
MountAnswered(i) ==
    /\ page = "app" /\ mount[i] # None /\ mount[i].sent
    /\ \/ /\ Profile(mount[i].as) = 200 /\ Answered
          /\ guard' = [guard EXCEPT !.checking = FALSE, !.unreachable = FALSE, !.timer = FALSE]
          /\ throttled' = TRUE
          /\ mount' = [mount EXCEPT ![i] = None]
          /\ UNCHANGED <<page, stored, checks, formVars, recheck, trailing, owed>>
       \/ /\ Profile(mount[i].as) \in {400, 403} /\ Answered
          /\ guard' = [guard EXCEPT !.checking = FALSE, !.denied = TRUE]
          /\ mount' = [mount EXCEPT ![i] = None]
          /\ trailing' = FALSE /\ owed' = None
          /\ UNCHANGED <<page, stored, checks, formVars, recheck, throttled>>
       \/ /\ Fail
          /\ guard' = [guard EXCEPT !.checking = FALSE, !.unreachable = TRUE,
                                    !.timer = @ \/ ~guard.unreachable]
          /\ mount' = [mount EXCEPT ![i] = None]
          /\ UNCHANGED <<page, stored, checks, formVars, recheck, throttled, trailing, owed>>
       \/ /\ Profile(mount[i].as) = 401 /\ Answered
          /\ FreshLogin(None)
    /\ UNCHANGED <<serverVars, worldVars, steps>>

\* retryProfile, from the timer or from "Retry now": checking again, the trailing check dropped.
Retry(i, byTimer) ==
    /\ page = "app" /\ mount[i] = None
    /\ IF byTimer THEN guard.timer ELSE guard.unreachable /\ ~guard.checking /\ Step
    /\ guard' = [guard EXCEPT !.checking = TRUE, !.timer = @ /\ ~byTimer]
    /\ mount' = [mount EXCEPT ![i] = [sent |-> FALSE, as |-> None]]
    /\ trailing' = FALSE /\ owed' = None
    /\ byTimer => UNCHANGED steps
    /\ UNCHANGED <<page, stored, checks, formVars, recheck, throttled, serverVars, worldVars,
                   failures>>

\* A variant for mutation testing: a trigger inside the throttle window is dropped.
RecheckAccessDropped(before) ==
    /\ recheck' = IF recheck = None /\ ~throttled THEN [sent |-> stored] ELSE recheck
    /\ trailing' = before
    /\ owed' = IF recheck = None /\ Profile(stored) \in {400, 403} THEN stored ELSE owed

\* recheckAccess: dropped while a check is under way, put off inside the throttle window.
RecheckAccess(before) ==
    /\ recheck' = IF recheck = None /\ ~throttled THEN [sent |-> stored] ELSE recheck
    /\ trailing' = (before \/ (recheck = None /\ throttled))
    /\ owed' = IF recheck = None /\ Profile(stored) \in {400, 403} THEN stored ELSE owed

\* A request refused with 403, or the window in front again.
Trigger ==
    /\ page = "app" /\ ~guard.checking /\ ~guard.denied /\ Step
    /\ RecheckAccess(trailing)
    /\ UNCHANGED <<page, stored, checks, formVars, guard, mount, throttled, serverVars, worldVars,
                   failures>>

TrailingCheck ==
    /\ page = "app" /\ trailing
    /\ RecheckAccess(FALSE)
    /\ UNCHANGED <<page, stored, checks, formVars, guard, mount, throttled, serverVars, worldVars,
                   failures, steps>>

WindowEnds ==
    /\ throttled /\ throttled' = FALSE
    /\ UNCHANGED <<page, stored, checks, formVars, guard, mount, recheck, trailing, owed, serverVars,
                   worldVars, failures, steps>>

\* A request the server refuses with 401 redirects from the interceptor, the check's included.
RecheckAnswered ==
    /\ page = "app" /\ recheck # None
    /\ \/ /\ Profile(recheck.sent) \in {400, 403} /\ Answered
          /\ guard' = [guard EXCEPT !.denied = TRUE]
          /\ recheck' = None /\ throttled' = TRUE /\ trailing' = FALSE /\ owed' = None
          /\ UNCHANGED <<page, stored, checks, formVars, mount>>
       \/ /\ Fail \/ (Answered /\ (recheck.sent = None \/ Profile(recheck.sent) = 200))
          /\ recheck' = None /\ throttled' = TRUE
          /\ owed' = IF failures' = failures THEN owed ELSE None
          /\ UNCHANGED <<page, stored, checks, formVars, guard, mount, trailing>>
       \/ /\ recheck.sent # None /\ Profile(recheck.sent) = 401 /\ Answered
          /\ FreshLogin(None)
    /\ UNCHANGED <<serverVars, worldVars, steps>>

\* signOutAndRedirect, from the header or from the screen that explains a refusal.
SignOut ==
    /\ page = "app" /\ ~guard.checking /\ Step
    /\ FreshLogin(None)
    /\ UNCHANGED <<serverVars, worldVars, failures>>

-----------------------------------------------------------------------------
(* Elsewhere.                                                              *)

Event == events < MaxEvents /\ events' = events + 1

Expire ==
    /\ Event /\ stored # None
    /\ dead' = dead \cup {stored}
    /\ UNCHANGED <<page, stored, checks, formVars, guardVars, member, codes, chosenFor, crossed,
                   failures, steps>>

SetMember(u, m) ==
    /\ Event /\ member[u] \notin {"new", m}
    /\ member' = [member EXCEPT ![u] = m]
    /\ owed' = IF m = "ok" THEN None ELSE owed
    /\ UNCHANGED <<page, stored, checks, formVars, guard, mount, recheck, throttled, trailing, dead,
                   codes, chosenFor, crossed, failures, steps>>

OtherTab(s) ==
    /\ Event /\ s # stored
    /\ stored' = s /\ crossed' = TRUE
    /\ UNCHANGED <<page, checks, formVars, guardVars, serverVars, failures, steps>>

Next ==
    \/ \E m \in Modes : PickTab(m)
    \/ \E u \in Users : Submit(u) \/ OAuth(u)
    \/ DifferentEmail \/ JobFails \/ SignedIn \/ SignInRefused \/ CodeSent
    \/ CodeVerified \/ CodeRefused \/ PasswordUpdated \/ Onboarded
    \/ \E s \in Sessions : CheckAnswered(s)
    \/ \E u \in Users, b \in BOOLEAN : OpenLink(u, b)
    \/ ReadSession \/ Applied \/ ArrivalFails \/ ReturnToLogin
    \/ \E b \in BOOLEAN : Synced(b)
    \/ \E i \in Slots : SendMount(i) \/ MountAnswered(i)
    \/ \E i \in Slots, b \in BOOLEAN : Retry(i, b)
    \/ Trigger \/ TrailingCheck \/ WindowEnds \/ RecheckAnswered \/ SignOut
    \/ Expire
    \/ \E u \in Users, m \in {"ok", "inactive", "removed"} : SetMember(u, m)
    \/ \E s \in Stored : OtherTab(s)

\* A request that is sent is answered in the end, and the browser runs a timer that is due.
Handled ==
    \/ \E i \in Slots : SendMount(i) \/ MountAnswered(i) \/ Retry(i, TRUE)
    \/ TrailingCheck \/ WindowEnds \/ RecheckAnswered

Fairness == WF_vars(Handled)

Spec == Init /\ [][Next]_vars /\ Fairness

-----------------------------------------------------------------------------
(* Properties.                                                             *)

TypeOK ==
    /\ page \in {"login", "callback", "app"} /\ stored \in Stored /\ dead \subseteq Sessions
    /\ member \in [Users -> {"new", "ok", "inactive", "removed"}]
    /\ form \in [mode : Modes, step : {1, 2}, email : Users]
    /\ job \in Jobs \cup {None} /\ checks \subseteq Sessions
    /\ codes \subseteq Users /\ pending \in Users \cup {None}
    /\ chosenFor \in [Users -> Users \cup {None}]
    /\ guard \in [checking : BOOLEAN, denied : BOOLEAN, unreachable : BOOLEAN, timer : BOOLEAN]
    /\ recheck = None \/ recheck.sent \in Stored
    /\ guard.timer => guard.unreachable
    /\ page = "app" /\ guard.checking => \E i \in Slots : mount[i] # None

\* A password chosen for one address never ends up on another account, whichever of the form,
\* the code and the mailed link finishes the change and whatever the person did in between
\* (unless another tab signs somebody else in meanwhile: updateUser acts on what is stored).
PasswordForItsOwner == ~crossed => \A u \in Users : chosenFor[u] \in {None, u}

Asked == checks \cup {mount[i].as : i \in {j \in Slots : mount[j] # None}}
    \cup (IF recheck = None THEN {} ELSE {recheck.sent})

Removed(s) == stored = s /\ stored' = None /\ crossed' = crossed

\* The tab drops a stored session only when the person signs out or the server refuses a
\* session it was asked about: an outage, however long, signs nobody out.
OutageKeepsSession ==
    [][\A s \in Sessions :
         Removed(s) /\ events' = events =>
            \/ page = "app" /\ steps' # steps
            \/ failures' = failures /\ \E t \in Asked : t # None /\ Profile(t) \in {401, 403}]_vars

\* login-form.tsx's checkSession: what is removed is the session the server refused.
RefusedSessionOnly ==
    [][\A s \in Sessions :
         Removed(s) /\ events' = events /\ ~crossed /\ page = "login" => Profile(s) \in {401, 403}]_vars

\* A check is owed to the session that is stored.
Withdrawn == owed # None /\ owed = stored /\ member[owed.user] # "ok"

\* recheckAccess: once a refused request or the window's return asked for a check after access
\* was withdrawn, the check is made (unless the server fails it, or the session is another or
\* access is back by then), throttled or not.
WithdrawalNoticed == Withdrawn ~> ~Withdrawn

=============================================================================
