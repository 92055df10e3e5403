----------------------------- MODULE ShellProofs -----------------------------
(***************************************************************************)
(* Proofs about the way into the application (SignIn) and the shell around *)
(* its pages (Workspace), for any people and any bounds on what happens.   *)
(*                                                                         *)
(* The argument for the password: unless another tab changes the session,  *)
(* the session that is stored while a chosen password is being applied is  *)
(* the one of the address it was chosen for, whether the code or the       *)
(* mailed link stored it. For the menus: the remembered choice is the flow *)
(* last chosen, whatever the scope of the person was in between.           *)
(*                                                                         *)
(* After them screens its menus lead to: what RateCalculator,              *)
(* ShipmentForm, PricingPanel, EditOrder, Appointments, AddressBook and    *)
(* Settings promise, for every value of their constants, as parts of       *)
(* TypeOK, OncePerIntent, ActedAsShown and TypingKept of MCDesks.  A       *)
(* section declares the constants and variables its screen adds and names  *)
(* its operators with a prefix; ...Constants is what a proof asks of the   *)
(* constants, and every instance of MCDesks satisfies it.                  *)
(***************************************************************************)
EXTENDS MCShell, Naturals, Sequences, FiniteSetTheorems, TLAPS

(******************************* the invariants ****************************)

Unsent == [sent : {FALSE}, as : {None}]
Sent == [sent : {TRUE}, as : SI!Sessions]

\* What the server and localStorage know.
Accounts ==
    /\ stored \in SI!Stored /\ dead \subseteq SI!Sessions /\ checks \subseteq SI!Sessions
    /\ member \in [Users -> {"new", "ok", "inactive", "removed"}]
    /\ codes \subseteq Users /\ chosenFor \in [Users -> Users \cup {None}]

\* The login form and its request under way.
Filled ==
    /\ form \in [mode : SI!Modes, step : {1, 2}, email : Users]
    /\ job \in SI!Jobs \cup {None} /\ pending \in Users \cup {None}

\* AuthGuard: while it checks, a check is under way.
Guarded ==
    /\ page \in {"login", "callback", "app"}
    /\ guard \in [checking : BOOLEAN, denied : BOOLEAN, unreachable : BOOLEAN, timer : BOOLEAN]
    /\ guard.timer => guard.unreachable
    /\ mount \in [Slots -> {None} \cup Unsent \cup Sent]
    /\ recheck \in {None} \cup [sent : SI!Stored]
    /\ page = "app" /\ guard.checking => \E i \in Slots : mount[i] # None

\* Whom the callback page works for: the session it read.
Arriving ==
    /\ arrival \in [at : {"none", "read", "onboard", "apply", "prompt", "error"}, as : SI!Stored]
    /\ arrival.at \in {"onboard", "apply", "prompt"} => arrival.as \in SI!Sessions
    /\ page = "callback" => job = None

\* Whoever's password is being applied is whose session is stored.
Owned ==
    ~crossed =>
        /\ job # None /\ job.kind = "update" /\ stored # None => stored.user = job.email
        /\ page = "callback" /\ arrival.at \in {"onboard", "apply", "prompt"} /\ stored # None =>
               stored.user = arrival.as.user
        /\ \A u \in Users : chosenFor[u] \in {None, u}

SignInInv == Accounts /\ Filled /\ Guarded /\ Arriving /\ Owned

ShellInv == WS!TypeOK /\ (chosen # None => savedFlow = chosen)

\* What counts the person's and the others' doings.
Counted == events \in Nat /\ steps \in Nat

Inv == (part = "signin" /\ SignInInv /\ Counted) \/ (part = "shell" /\ ShellInv)


(***************************** signing in: steps ***************************)

LEMMA Nothing ==
    /\ None \notin Users /\ None \notin SI!Sessions /\ None \notin SI!Jobs
    /\ None \notin Unsent /\ None \notin Sent /\ None \notin [sent : SI!Stored]
    /\ None \notin WS!Flows /\ None \notin WS!Routes
<1>1. /\ None \notin Users /\ None \notin SI!Sessions /\ None \notin SI!Jobs
      /\ None \notin [sent : BOOLEAN, as : SI!Stored] /\ None \notin [sent : SI!Stored]
      /\ None \notin WS!Flows /\ None \notin WS!Routes
  BY NoneAssumption
<1>2. Unsent \subseteq [sent : BOOLEAN, as : SI!Stored] /\ Sent \subseteq [sent : BOOLEAN, as : SI!Stored]
  BY DEF Unsent, Sent, SI!Stored
<1> QED BY <1>1, <1>2

LEMMA EmptyFormKind ==
    ASSUME Filled
    PROVE  SI!EmptyForm \in [mode : SI!Modes, step : {1, 2}, email : Users]
<1>1. form.email \in Users
  BY DEF Filled
<1>2. (CHOOSE u \in Users : TRUE) \in Users
  BY <1>1
<1> QED BY <1>2 DEF SI!EmptyForm, SI!Modes

LEMMA CheckingKind ==
    /\ SI!Checking \in [checking : BOOLEAN, denied : BOOLEAN, unreachable : BOOLEAN, timer : BOOLEAN]
    /\ ~SI!Checking.timer
BY DEF SI!Checking

LEMMA NoMountKind == SI!NoMount \in [Slots -> {None} \cup Unsent \cup Sent]
BY DEF SI!NoMount

LEMMA NoArrivalKind ==
    /\ SI!NoArrival \in [at : {"none", "read", "onboard", "apply", "prompt", "error"}, as : SI!Stored]
    /\ SI!NoArrival.at = "none"
BY DEF SI!NoArrival, SI!Stored

\* Entering the application starts a check.
LEMMA OpenGuarded ==
    ASSUME Guarded, SI!OpenApp
    PROVE  Guarded' /\ page' = "app"
<1>1. /\ page' = "app" /\ guard' = SI!Checking /\ recheck' = None
  BY DEF SI!OpenApp
<1>2. PICK i \in Slots : mount' = [SI!NoMount EXCEPT ![i] = [sent |-> FALSE, as |-> None]]
  BY DEF SI!OpenApp
<1>3. [sent |-> FALSE, as |-> None] \in Unsent
  BY DEF Unsent
<1>4. mount' \in [Slots -> {None} \cup Unsent \cup Sent] /\ mount'[i] \in Unsent
  BY <1>2, <1>3, NoMountKind
<1> QED BY <1>1, <1>4, CheckingKind, Nothing DEF Guarded

LEMMA EnterGuarded ==
    ASSUME Guarded, SI!EnterApp
    PROVE  Guarded' /\ page' = "app"
<1>1. CASE page = "app"
  <2>1. UNCHANGED <<page, guard, mount, recheck>>
    BY <1>1 DEF SI!EnterApp, SI!guardVars
  <2> QED BY <1>1, <2>1 DEF Guarded
<1>2. CASE page # "app"
  BY <1>2, OpenGuarded DEF SI!EnterApp
<1> QED BY <1>1, <1>2

\* A new login page: nothing is under way but the question about the session found there.
LEMMA FreshSignIn ==
    ASSUME SignInInv, SI!FreshLogin(None), UNCHANGED <<SI!serverVars, crossed>>
    PROVE  SignInInv'
<1>1. /\ page' = "login" /\ stored' = None /\ form' = SI!EmptyForm /\ job' = None
      /\ checks' = {} /\ arrival' = SI!NoArrival /\ guard' = SI!Checking /\ mount' = SI!NoMount
      /\ recheck' = None /\ pending' = pending
      /\ UNCHANGED <<dead, member, codes, chosenFor, crossed>>
  BY DEF SI!FreshLogin, SI!serverVars
<1>2. Accounts' /\ Filled'
  BY <1>1, EmptyFormKind DEF SignInInv, Accounts, Filled, SI!Stored
<1>3. Guarded'
  BY <1>1, CheckingKind, NoMountKind DEF Guarded
<1>4. Arriving' /\ Owned'
  BY <1>1, NoArrivalKind DEF SignInInv, Arriving, Owned
<1> QED BY <1>2, <1>3, <1>4 DEF SignInInv

\* What the form's own steps leave alone.
LEMMA FormStep ==
    ASSUME SignInInv, NEW m \in SI!Modes, NEW u \in Users,
           SI!PickTab(m) \/ SI!DifferentEmail \/ SI!Submit(u) \/ SI!JobFails \/ SI!SignInRefused
              \/ SI!CodeRefused
    PROVE  SignInInv'
<1>1. /\ UNCHANGED <<page, stored, checks, arrival, guard, mount, recheck, dead, member, codes,
                     chosenFor, crossed>>
  BY DEF SI!PickTab, SI!DifferentEmail, SI!Submit, SI!JobFails, SI!SignInRefused, SI!CodeRefused,
     SI!guardVars, SI!serverVars, SI!worldVars
<1>2. form.mode \in SI!Modes /\ form \in [mode : SI!Modes, step : {1, 2}, email : Users]
  BY DEF SignInInv, Filled
<1>3. Filled' /\ (job' = job \/ job' = None \/ (page = "login" /\ job' # None /\ job'.kind # "update"))
  <2>1. CASE SI!PickTab(m)
    BY <2>1 DEF SI!PickTab, SignInInv, Filled
  <2>2. CASE SI!DifferentEmail
    BY <2>2 DEF SI!DifferentEmail, SignInInv, Filled
  <2>3. CASE SI!Submit(u)
    <3> DEFINE kind == IF form.step = 2 THEN "verify"
                       ELSE IF form.mode \in {"signin", "signup"} THEN form.mode ELSE "send"
    <3>1. /\ page = "login" /\ form' = [form EXCEPT !.email = u] /\ pending' = pending
          /\ job' = [kind |-> kind, email |-> u, mode |-> form.mode]
      BY <2>3 DEF SI!Submit
    <3>2. kind \in {"signin", "signup", "send", "verify"}
      OBVIOUS
    <3> HIDE DEF kind
    <3>3. job' \in SI!Jobs /\ job'.kind # "update"
      BY <1>2, <3>1, <3>2 DEF SI!Jobs
    <3>4. form' \in [mode : SI!Modes, step : {1, 2}, email : Users]
      BY <1>2, <3>1
    <3> QED BY <3>1, <3>3, <3>4, Nothing DEF SignInInv, Filled
  <2>4. CASE SI!JobFails \/ SI!SignInRefused \/ SI!CodeRefused
    BY <2>4 DEF SI!JobFails, SI!SignInRefused, SI!CodeRefused, SignInInv, Filled
  <2> QED BY <2>1, <2>2, <2>3, <2>4
<1>4. Accounts' /\ Guarded' /\ Arriving' /\ Owned'
  BY <1>1, <1>3 DEF SignInInv, Accounts, Guarded, Arriving, Owned
<1> QED BY <1>3, <1>4 DEF SignInInv

\* The answers of the form's requests.
LEMMA AnswerStep ==
    ASSUME SignInInv, SI!SignedIn \/ SI!CodeSent \/ SI!CodeVerified \/ SI!PasswordUpdated \/ SI!Onboarded
    PROVE  SignInInv'
<1>1. /\ job # None /\ job \in SI!Jobs /\ job.email \in Users /\ job.mode \in SI!Modes /\ page # "callback"
  BY Nothing DEF SI!SignedIn, SI!CodeSent, SI!CodeVerified, SI!PasswordUpdated, SI!Onboarded, SignInInv,
     Filled, Arriving, SI!Jobs
<1>2. [user |-> job.email, fresh |-> TRUE] \in SI!Sessions
  BY <1>1 DEF SI!Sessions
<1>3. CASE SI!SignedIn
  <2>1. /\ stored' = [user |-> job.email, fresh |-> TRUE] /\ checks' = checks \cup {stored'}
        /\ member' = [member EXCEPT ![job.email] = "ok"]
        /\ job' = None /\ form' = SI!EmptyForm /\ SI!EnterApp
        /\ UNCHANGED <<pending, arrival, dead, codes, chosenFor, crossed>>
    BY <1>3 DEF SI!SignedIn, SI!worldVars
  <2>2. Accounts' /\ Filled'
    BY <1>2, <2>1, EmptyFormKind DEF SignInInv, Accounts, Filled, SI!Stored
  <2>3. Guarded' /\ page' = "app"
    BY <2>1, EnterGuarded DEF SignInInv
  <2>4. Arriving' /\ Owned'
    BY <2>1, <2>3 DEF SignInInv, Arriving, Owned
  <2> QED BY <2>2, <2>3, <2>4 DEF SignInInv
<1>4. CASE SI!CodeSent
  <2>1. /\ codes' = codes \cup {job.email} /\ pending' \in {job.email, pending}
        /\ form' = [form EXCEPT !.step = 2] /\ job' = None
        /\ UNCHANGED <<page, stored, checks, arrival, guard, mount, recheck, dead, member, chosenFor, crossed>>
    BY <1>4 DEF SI!CodeSent, SI!guardVars, SI!worldVars
  <2>2. Accounts' /\ Filled'
    BY <1>1, <2>1 DEF SignInInv, Accounts, Filled
  <2>3. Guarded' /\ Arriving' /\ Owned'
    BY <2>1 DEF SignInInv, Guarded, Arriving, Owned
  <2> QED BY <2>2, <2>3 DEF SignInInv
<1>5. CASE SI!CodeVerified
  <2>1. /\ stored' = [user |-> job.email, fresh |-> TRUE] /\ codes' = codes \ {job.email}
        /\ \E kind \in {"update", "onboard"} : job' = [job EXCEPT !.kind = kind]
        /\ UNCHANGED <<page, checks, form, pending, arrival, guard, mount, recheck, dead, member,
                       chosenFor, crossed>>
    BY <1>5 DEF SI!CodeVerified, SI!guardVars, SI!worldVars
  <2>2. job' \in SI!Jobs /\ job'.email = job.email
    BY <1>1, <2>1 DEF SI!Jobs
  <2>3. Accounts' /\ Filled'
    BY <1>2, <2>1, <2>2 DEF SignInInv, Accounts, Filled, SI!Stored
  <2>4. Guarded' /\ Arriving'
    BY <1>1, <2>1 DEF SignInInv, Guarded, Arriving
  <2>5. Owned'
    BY <1>1, <2>1, <2>2 DEF SignInInv, Owned
  <2> QED BY <2>3, <2>4, <2>5 DEF SignInInv
<1>6. CASE SI!PasswordUpdated
  <2>1. /\ job.kind = "update" /\ stored # None
        /\ chosenFor' = [chosenFor EXCEPT ![stored.user] = job.email]
        /\ pending' = None /\ job' = [job EXCEPT !.kind = "onboard"]
        /\ UNCHANGED <<page, stored, checks, form, arrival, guard, mount, recheck, dead, member, codes, crossed>>
    BY <1>6 DEF SI!PasswordUpdated, SI!GivePassword, SI!guardVars, SI!worldVars
  <2>2. job' \in SI!Jobs /\ job'.kind = "onboard"
    BY <1>1, <2>1 DEF SI!Jobs
  <2>3. Accounts' /\ Filled'
    BY <1>1, <2>1, <2>2 DEF SignInInv, Accounts, Filled
  <2>4. Guarded' /\ Arriving'
    BY <1>1, <2>1 DEF SignInInv, Guarded, Arriving
  <2>5. Owned'
    <3>1. ~crossed => stored.user = job.email /\ \A u \in Users : chosenFor[u] \in {None, u}
      BY <1>1, <2>1 DEF SignInInv, Owned
    <3>2. ~crossed => \A u \in Users : chosenFor'[u] \in {None, u}
      BY <2>1, <3>1 DEF SignInInv, Accounts
    <3> QED BY <1>1, <2>1, <2>2, <3>2 DEF SignInInv, Owned
  <2> QED BY <2>3, <2>4, <2>5 DEF SignInInv
<1>7. CASE SI!Onboarded
  <2>1. /\ member' = [member EXCEPT ![job.email] = IF @ = "inactive" THEN @ ELSE "ok"]
        /\ job' = None /\ form' = SI!EmptyForm /\ SI!EnterApp
        /\ UNCHANGED <<stored, checks, pending, arrival, dead, codes, chosenFor, crossed>>
    BY <1>7 DEF SI!Onboarded, SI!Provision, SI!worldVars
  <2>2. Accounts' /\ Filled'
    BY <2>1, EmptyFormKind DEF SignInInv, Accounts, Filled
  <2>3. Guarded' /\ page' = "app"
    BY <2>1, EnterGuarded DEF SignInInv
  <2>4. Arriving' /\ Owned'
    BY <2>1, <2>3 DEF SignInInv, Arriving, Owned
  <2> QED BY <2>2, <2>3, <2>4 DEF SignInInv
<1> QED BY <1>3, <1>4, <1>5, <1>6, <1>7

\* checkSession's answer: a refusal forgets the stored session, an acceptance enters.
LEMMA CheckStep ==
    ASSUME SignInInv, NEW s \in SI!Sessions, SI!CheckAnswered(s)
    PROVE  SignInInv'
<1>1. /\ checks' = checks \ {s} /\ stored' \in {None, stored}
      /\ SI!EnterApp \/ UNCHANGED <<page, SI!guardVars>>
      /\ UNCHANGED <<form, job, pending, arrival, dead, member, codes, chosenFor, crossed>>
  BY DEF SI!CheckAnswered, SI!serverVars, SI!worldVars
<1>2. Accounts' /\ Filled'
  BY <1>1 DEF SignInInv, Accounts, Filled, SI!Stored
<1>3. Guarded' /\ (page' = "app" \/ page' = page)
  <2>1. CASE SI!EnterApp
    BY <2>1, EnterGuarded DEF SignInInv
  <2>2. CASE UNCHANGED <<page, SI!guardVars>>
    BY <2>2 DEF SignInInv, Guarded, SI!guardVars
  <2> QED BY <1>1, <2>1, <2>2
<1>4. Arriving' /\ Owned'
  BY <1>1, <1>3 DEF SignInInv, Arriving, Owned
<1> QED BY <1>2, <1>3, <1>4 DEF SignInInv

\* Leaving for the callback page.
LEMMA LeaveStep ==
    ASSUME SignInInv, NEW u \in Users, NEW b \in BOOLEAN, SI!OAuth(u) \/ SI!OpenLink(u, b)
    PROVE  SignInInv'
<1>1. /\ page' = "callback" /\ stored' = [user |-> u, fresh |-> TRUE] /\ job' = None
      /\ codes' \in {codes, codes \ {u}} /\ pending' \in {pending, None}
      /\ checks' = {} /\ form' = SI!EmptyForm /\ arrival' = [at |-> "read", as |-> None]
      /\ UNCHANGED <<guard, mount, recheck, dead, member, chosenFor, crossed>>
  BY DEF SI!OAuth, SI!OpenLink, SI!guardVars, SI!serverVars, SI!worldVars
<1>2. Accounts' /\ Filled'
  BY <1>1, EmptyFormKind DEF SignInInv, Accounts, Filled, SI!Stored, SI!Sessions
<1>3. Guarded'
  BY <1>1 DEF SignInInv, Guarded
<1>4. Arriving' /\ Owned'
  BY <1>1 DEF SignInInv, Arriving, Owned, SI!Stored
<1> QED BY <1>2, <1>3, <1>4 DEF SignInInv

LEMMA ReadStep ==
    ASSUME SignInInv, SI!ReadSession
    PROVE  SignInInv'
<1>1. /\ page = "callback" /\ arrival.at = "read"
      /\ UNCHANGED <<page, stored, checks, form, job, pending, guard, mount, recheck, dead, member, codes,
                     chosenFor, crossed>>
  BY DEF SI!ReadSession, SI!guardVars, SI!serverVars, SI!worldVars
<1>2. Accounts' /\ Filled' /\ Guarded'
  BY <1>1 DEF SignInInv, Accounts, Filled, Guarded
<1>3. CASE stored = None
  <2>1. arrival' = [arrival EXCEPT !.at = "error"]
    BY <1>3 DEF SI!ReadSession
  <2>2. Arriving' /\ Owned'
    BY <1>1, <2>1 DEF SignInInv, Arriving, Owned
  <2> QED BY <1>2, <2>2 DEF SignInInv
<1>4. CASE stored # None
  <2>1. arrival' = [at |-> "onboard", as |-> stored] /\ stored \in SI!Sessions
    BY <1>4 DEF SI!ReadSession, SignInInv, Accounts, SI!Stored
  <2>2. Arriving'
    BY <1>1, <2>1 DEF SignInInv, Arriving, SI!Stored
  <2>3. Owned'
    BY <1>1, <2>1 DEF SignInInv, Owned
  <2> QED BY <1>2, <2>2, <2>3 DEF SignInInv
<1> QED BY <1>3, <1>4

\* The pending password is applied only for the person it is kept for.
LEMMA SyncStep ==
    ASSUME SignInInv, NEW prompt \in BOOLEAN, SI!Synced(prompt)
    PROVE  SignInInv'
<1>1. /\ page = "callback" /\ arrival.at = "onboard" /\ pending' = None
      /\ member' = [member EXCEPT ![arrival.as.user] = IF @ = "inactive" THEN @ ELSE "ok"]
      /\ UNCHANGED <<stored, checks, form, job, dead, codes, chosenFor, crossed>>
  BY DEF SI!Synced, SI!Provision, SI!worldVars
<1>2. arrival.as \in SI!Sessions /\ arrival.as.user \in Users
  BY <1>1 DEF SignInInv, Arriving, SI!Sessions
<1>3. Accounts' /\ Filled'
  BY <1>1 DEF SignInInv, Accounts, Filled
<1>4. CASE /\ SI!Consume(arrival.as) # None
           /\ arrival' = [at |-> "apply", as |-> [user |-> pending, fresh |-> TRUE]]
           /\ UNCHANGED <<page, SI!guardVars>>
  <2>1. pending = arrival.as.user
    BY <1>4 DEF SI!Consume
  <2>2. arrival'.as \in SI!Sessions /\ arrival'.as.user = arrival.as.user /\ arrival'.at = "apply"
        /\ arrival' = [at |-> "apply", as |-> arrival'.as]
    BY <1>2, <1>4, <2>1 DEF SI!Sessions
  <2>3. Arriving'
    BY <1>1, <1>4, <2>2 DEF SignInInv, Arriving, SI!Stored
  <2>4. Guarded' /\ Owned'
    BY <1>1, <1>4, <2>2 DEF SignInInv, Guarded, Owned, SI!guardVars
  <2> QED BY <1>3, <2>3, <2>4 DEF SignInInv
<1>5. CASE arrival' = [arrival EXCEPT !.at = "prompt"] /\ UNCHANGED <<page, SI!guardVars>>
  <2>1. Arriving'
    BY <1>1, <1>2, <1>5 DEF SignInInv, Arriving
  <2>2. arrival'.as = arrival.as
    BY <1>5 DEF SignInInv, Arriving
  <2>3. Guarded' /\ Owned'
    BY <1>1, <1>5, <2>2 DEF SignInInv, Guarded, Owned, SI!guardVars
  <2> QED BY <1>3, <2>1, <2>3 DEF SignInInv
<1>6. CASE arrival' = SI!NoArrival /\ SI!OpenApp
  <2>1. Guarded' /\ page' = "app"
    BY <1>6, OpenGuarded DEF SignInInv
  <2>2. Arriving' /\ Owned'
    BY <1>1, <1>6, <2>1, NoArrivalKind DEF SignInInv, Arriving, Owned
  <2> QED BY <1>3, <2>1, <2>2 DEF SignInInv
<1> QED BY <1>4, <1>5, <1>6 DEF SI!Synced

LEMMA ApplyStep ==
    ASSUME SignInInv, SI!Applied
    PROVE  SignInInv'
<1>1. /\ page = "callback" /\ arrival.at \in {"apply", "prompt"} /\ stored # None
      /\ chosenFor' = [chosenFor EXCEPT ![stored.user] = arrival.as.user]
      /\ arrival' = SI!NoArrival /\ SI!OpenApp
      /\ UNCHANGED <<stored, checks, form, job, pending, dead, member, codes, crossed>>
  BY DEF SI!Applied, SI!GivePassword, SI!worldVars
<1>2. arrival.as.user \in Users
  BY <1>1 DEF SignInInv, Arriving, SI!Sessions
<1>3. Accounts' /\ Filled'
  BY <1>1, <1>2 DEF SignInInv, Accounts, Filled
<1>4. Guarded' /\ page' = "app"
  BY <1>1, OpenGuarded DEF SignInInv
<1>5. Arriving'
  BY <1>1, <1>4, NoArrivalKind DEF Arriving
<1>6. Owned'
  <2>1. ~crossed => stored.user = arrival.as.user /\ \A u \in Users : chosenFor[u] \in {None, u}
    BY <1>1 DEF SignInInv, Owned
  <2>2. ~crossed => \A u \in Users : chosenFor'[u] \in {None, u}
    BY <1>1, <2>1 DEF SignInInv, Accounts
  <2> QED BY <1>1, <1>4, <2>2 DEF SignInInv, Owned
<1> QED BY <1>3, <1>4, <1>5, <1>6 DEF SignInInv

LEMMA ArrivalEndsStep ==
    ASSUME SignInInv, SI!ArrivalFails \/ SI!ReturnToLogin
    PROVE  SignInInv'
<1>1. CASE SI!ArrivalFails
  <2>1. /\ arrival' = [arrival EXCEPT !.at = "error"]
        /\ UNCHANGED <<page, stored, checks, form, job, pending, guard, mount, recheck, dead, member,
                       codes, chosenFor, crossed>>
    BY <1>1 DEF SI!ArrivalFails, SI!guardVars, SI!serverVars, SI!worldVars
  <2>2. Accounts' /\ Filled' /\ Guarded'
    BY <2>1 DEF SignInInv, Accounts, Filled, Guarded
  <2>3. Arriving' /\ Owned'
    BY <2>1 DEF SignInInv, Arriving, Owned
  <2> QED BY <2>2, <2>3 DEF SignInInv
<1>2. CASE SI!ReturnToLogin
  <2>1. /\ page' = "login" /\ arrival' = SI!NoArrival /\ form' = SI!EmptyForm
        /\ checks' = {stored} \ {None}
        /\ UNCHANGED <<stored, job, pending, guard, mount, recheck, dead, member, codes, chosenFor, crossed>>
    BY <1>2 DEF SI!ReturnToLogin, SI!guardVars, SI!serverVars, SI!worldVars
  <2>2. Accounts' /\ Filled'
    BY <2>1, EmptyFormKind DEF SignInInv, Accounts, Filled, SI!Stored
  <2>3. Guarded'
    BY <2>1 DEF SignInInv, Guarded
  <2>4. Arriving' /\ Owned'
    BY <2>1, NoArrivalKind DEF SignInInv, Arriving, Owned
  <2> QED BY <2>2, <2>3, <2>4 DEF SignInInv
<1> QED BY <1>1, <1>2

(********************************* AuthGuard *******************************)

\* A step of the guard alone.
LEMMA GuardStep ==
    ASSUME SignInInv, Guarded', page' = page,
           UNCHANGED <<stored, checks, form, job, pending, arrival, dead, member, codes, chosenFor, crossed>>
    PROVE  SignInInv'
BY DEF SignInInv, Accounts, Filled, Arriving, Owned

LEMMA MountStep ==
    ASSUME SignInInv, NEW i \in Slots, SI!SendMount(i) \/ SI!MountAnswered(i)
    PROVE  SignInInv'
<1>1. page = "app" /\ mount[i] # None /\ UNCHANGED <<SI!serverVars, crossed>>
  BY DEF SI!SendMount, SI!MountAnswered, SI!worldVars
<1>2. CASE SI!FreshLogin(None)
  BY <1>1, <1>2, FreshSignIn
<1>3. CASE SI!SendMount(i) /\ ~SI!FreshLogin(None)
  <2>1. /\ stored # None /\ mount' = [mount EXCEPT ![i] = [sent |-> TRUE, as |-> stored]]
        /\ UNCHANGED <<page, stored, checks, form, job, pending, arrival, guard, recheck>>
    BY <1>3 DEF SI!SendMount, SI!formVars
  <2>2. [sent |-> TRUE, as |-> stored] \in Sent
    BY <2>1 DEF Sent, SignInInv, Accounts, SI!Stored
  <2>3. mount' \in [Slots -> {None} \cup Unsent \cup Sent] /\ mount'[i] # None
    BY <2>1, <2>2, Nothing DEF SignInInv, Guarded
  <2>4. Guarded'
    BY <2>1, <2>3 DEF SignInInv, Guarded
  <2> QED BY <1>1, <2>1, <2>4, GuardStep DEF SI!serverVars
<1>4. CASE SI!MountAnswered(i) /\ ~SI!FreshLogin(None)
  <2>1. /\ mount' = [mount EXCEPT ![i] = None]
        /\ \/ guard' = [guard EXCEPT !.checking = FALSE, !.unreachable = FALSE, !.timer = FALSE]
           \/ guard' = [guard EXCEPT !.checking = FALSE, !.denied = TRUE]
           \/ guard' = [guard EXCEPT !.checking = FALSE, !.unreachable = TRUE,
                                     !.timer = @ \/ ~guard.unreachable]
        /\ UNCHANGED <<page, stored, checks, form, job, pending, arrival, recheck>>
    BY <1>4 DEF SI!MountAnswered, SI!formVars
  <2>2. mount' \in [Slots -> {None} \cup Unsent \cup Sent]
    BY <2>1 DEF SignInInv, Guarded
  <2>3. /\ guard' \in [checking : BOOLEAN, denied : BOOLEAN, unreachable : BOOLEAN, timer : BOOLEAN]
        /\ ~guard'.checking /\ (guard'.timer => guard'.unreachable)
    BY <2>1 DEF SignInInv, Guarded
  <2>4. Guarded'
    BY <2>1, <2>2, <2>3 DEF SignInInv, Guarded
  <2> QED BY <1>1, <2>1, <2>4, GuardStep DEF SI!serverVars
<1> QED BY <1>2, <1>3, <1>4

LEMMA RetryStep ==
    ASSUME SignInInv, NEW i \in Slots, NEW byTimer \in BOOLEAN, SI!Retry(i, byTimer)
    PROVE  SignInInv'
<1>1. /\ guard' = [guard EXCEPT !.checking = TRUE, !.timer = @ /\ ~byTimer]
      /\ mount' = [mount EXCEPT ![i] = [sent |-> FALSE, as |-> None]]
      /\ UNCHANGED <<page, stored, checks, form, job, pending, arrival, recheck, dead, member, codes,
                     chosenFor, crossed>>
  BY DEF SI!Retry, SI!formVars, SI!serverVars, SI!worldVars
<1>2. [sent |-> FALSE, as |-> None] \in Unsent
  BY DEF Unsent
<1>3. mount' \in [Slots -> {None} \cup Unsent \cup Sent] /\ mount'[i] # None
  BY <1>1, <1>2, Nothing DEF SignInInv, Guarded
<1>4. /\ guard' \in [checking : BOOLEAN, denied : BOOLEAN, unreachable : BOOLEAN, timer : BOOLEAN]
      /\ (guard'.timer => guard'.unreachable)
  BY <1>1 DEF SignInInv, Guarded
<1>5. Guarded'
  BY <1>1, <1>3, <1>4 DEF SignInInv, Guarded
<1> QED BY <1>1, <1>5, GuardStep

LEMMA RecheckStep ==
    ASSUME SignInInv, SI!Trigger \/ SI!TrailingCheck \/ SI!WindowEnds
    PROVE  SignInInv'
<1>1. /\ recheck' \in {recheck, [sent |-> stored]}
      /\ UNCHANGED <<page, stored, checks, form, job, pending, arrival, guard, mount, dead, member, codes,
                     chosenFor, crossed>>
  BY DEF SI!Trigger, SI!TrailingCheck, SI!WindowEnds, SI!RecheckAccess, SI!formVars, SI!serverVars,
     SI!worldVars
<1>2. Guarded'
  BY <1>1 DEF SignInInv, Guarded, Accounts
<1> QED BY <1>1, <1>2, GuardStep

LEMMA RecheckAnswerStep ==
    ASSUME SignInInv, SI!RecheckAnswered \/ SI!SignOut
    PROVE  SignInInv'
<1>1. UNCHANGED <<SI!serverVars, crossed>>
  BY DEF SI!RecheckAnswered, SI!SignOut, SI!worldVars
<1>2. CASE SI!FreshLogin(None)
  BY <1>1, <1>2, FreshSignIn
<1>3. CASE ~SI!FreshLogin(None)
  <2>1. /\ recheck' = None /\ guard' \in {guard, [guard EXCEPT !.denied = TRUE]}
        /\ UNCHANGED <<page, stored, checks, form, job, pending, arrival, mount>>
    BY <1>3 DEF SI!RecheckAnswered, SI!SignOut, SI!formVars
  <2>2. /\ guard' \in [checking : BOOLEAN, denied : BOOLEAN, unreachable : BOOLEAN, timer : BOOLEAN]
        /\ guard'.checking = guard.checking /\ (guard'.timer => guard'.unreachable)
    BY <2>1 DEF SignInInv, Guarded
  <2>3. Guarded'
    BY <2>1, <2>2 DEF SignInInv, Guarded
  <2> QED BY <1>1, <2>1, <2>3, GuardStep DEF SI!serverVars
<1> QED BY <1>2, <1>3

(********************************* elsewhere *******************************)

LEMMA ElsewhereStep ==
    ASSUME SignInInv, NEW u \in Users, NEW m \in {"ok", "inactive", "removed"}, NEW s \in SI!Stored,
           SI!Expire \/ SI!SetMember(u, m) \/ SI!OtherTab(s)
    PROVE  SignInInv'
<1>1. UNCHANGED <<page, checks, form, job, pending, arrival, guard, mount, recheck, codes, chosenFor>>
  BY DEF SI!Expire, SI!SetMember, SI!OtherTab, SI!formVars, SI!guardVars, SI!serverVars
<1>2. Accounts'
  <2>1. CASE SI!Expire
    BY <1>1, <2>1 DEF SI!Expire, SignInInv, Accounts, SI!Stored
  <2>2. CASE SI!SetMember(u, m)
    BY <1>1, <2>2 DEF SI!SetMember, SignInInv, Accounts
  <2>3. CASE SI!OtherTab(s)
    BY <1>1, <2>3 DEF SI!OtherTab, SI!serverVars, SignInInv, Accounts
  <2> QED BY <2>1, <2>2, <2>3
<1>3. Filled' /\ Guarded' /\ Arriving'
  BY <1>1 DEF SignInInv, Filled, Guarded, Arriving
<1>4. crossed' \/ UNCHANGED <<stored, crossed>>
  BY DEF SI!Expire, SI!SetMember, SI!OtherTab
<1>5. Owned'
  BY <1>1, <1>4 DEF SignInInv, Owned
<1> QED BY <1>2, <1>3, <1>5 DEF SignInInv

LEMMA SignInStep ==
    ASSUME SignInInv, SI!Next
    PROVE  SignInInv'
<1>1. CASE \E m \in SI!Modes : SI!PickTab(m)
  <2>1. \E u \in Users : TRUE
    BY DEF SignInInv, Filled
  <2> QED BY <1>1, <2>1, FormStep
<1>2. CASE SI!DifferentEmail \/ SI!JobFails \/ SI!SignInRefused \/ SI!CodeRefused
  <2>1. form.email \in Users /\ form.mode \in SI!Modes
    BY DEF SignInInv, Filled
  <2> QED BY <1>2, <2>1, FormStep
<1>3. CASE \E u \in Users : SI!Submit(u)
  <2>1. form.mode \in SI!Modes
    BY DEF SignInInv, Filled
  <2> QED BY <1>3, <2>1, FormStep
<1>4. CASE \E u \in Users : SI!OAuth(u)
  BY <1>4, LeaveStep
<1>5. CASE SI!Expire \/ (\E u \in Users, m \in {"ok", "inactive", "removed"} : SI!SetMember(u, m))
           \/ \E s \in SI!Stored : SI!OtherTab(s)
  <2>1. form.email \in Users /\ stored \in SI!Stored /\ "ok" \in {"ok", "inactive", "removed"}
    BY DEF SignInInv, Filled, Accounts
  <2> QED BY <1>5, <2>1, ElsewhereStep
<1>6. CASE \/ SI!SignedIn \/ SI!CodeSent \/ SI!CodeVerified \/ SI!PasswordUpdated \/ SI!Onboarded
           \/ \E s \in SI!Sessions : SI!CheckAnswered(s)
  BY <1>6, AnswerStep, CheckStep
<1>7. CASE \/ \E u \in Users, b \in BOOLEAN : SI!OpenLink(u, b)
           \/ SI!ReadSession \/ SI!Applied \/ SI!ArrivalFails \/ SI!ReturnToLogin
           \/ \E b \in BOOLEAN : SI!Synced(b)
  BY <1>7, LeaveStep, ReadStep, ApplyStep, ArrivalEndsStep, SyncStep
<1>8. CASE \/ \E i \in Slots : SI!SendMount(i) \/ SI!MountAnswered(i)
           \/ \E i \in Slots, b \in BOOLEAN : SI!Retry(i, b)
           \/ SI!Trigger \/ SI!TrailingCheck \/ SI!WindowEnds \/ SI!RecheckAnswered \/ SI!SignOut
  BY <1>8, MountStep, RetryStep, RecheckStep, RecheckAnswerStep
<1> QED BY <1>1, <1>2, <1>3, <1>4, <1>5, <1>6, <1>7, <1>8 DEF SI!Next

LEMMA CountStep ==
    ASSUME Counted, SI!Next
    PROVE  Counted'
<1>1. ASSUME events' \in {events, events + 1}, steps' \in {steps, steps + 1}
      PROVE  Counted'
  BY <1>1 DEF Counted
<1>2. CASE \/ \E m \in SI!Modes : SI!PickTab(m)
           \/ \E u \in Users : SI!Submit(u) \/ SI!OAuth(u)
           \/ SI!DifferentEmail \/ SI!JobFails \/ SI!SignInRefused \/ SI!CodeSent \/ SI!CodeRefused
  BY <1>1, <1>2 DEF SI!worldVars, SI!Step, SI!PickTab, SI!Submit, SI!OAuth, SI!DifferentEmail, SI!JobFails,
     SI!SignInRefused, SI!CodeSent, SI!CodeRefused
<1>3. CASE SI!SignedIn \/ SI!CodeVerified \/ SI!PasswordUpdated \/ SI!Onboarded
  BY <1>1, <1>3 DEF SI!worldVars, SI!SignedIn, SI!CodeVerified, SI!PasswordUpdated, SI!Onboarded
<1>4. CASE \E s \in SI!Sessions : SI!CheckAnswered(s)
  BY <1>1, <1>4 DEF SI!worldVars, SI!CheckAnswered
<1>5. CASE \/ \E u \in Users, b \in BOOLEAN : SI!OpenLink(u, b)
           \/ SI!ReadSession \/ SI!Applied \/ SI!ArrivalFails \/ SI!ReturnToLogin
           \/ \E b \in BOOLEAN : SI!Synced(b)
  BY <1>1, <1>5 DEF SI!worldVars, SI!Step, SI!OpenLink, SI!ReadSession, SI!Applied, SI!ArrivalFails,
     SI!ReturnToLogin, SI!Synced
<1>6. CASE \E i \in Slots : SI!SendMount(i) \/ SI!MountAnswered(i)
  <2>1. UNCHANGED <<events, steps>>
    BY <1>6 DEF SI!worldVars, SI!SendMount, SI!MountAnswered
  <2> QED BY <1>1, <2>1
<1>7. CASE \E i \in Slots, b \in BOOLEAN : SI!Retry(i, b)
  <2>1. PICK i \in Slots, b \in BOOLEAN : SI!Retry(i, b)
    BY <1>7
  <2>2. events' = events /\ (SI!Step \/ UNCHANGED steps)
    BY <2>1 DEF SI!worldVars, SI!Retry
  <2> QED BY <1>1, <2>2 DEF SI!Step
<1>8. CASE SI!Trigger \/ SI!TrailingCheck \/ SI!WindowEnds \/ SI!SignOut
  BY <1>1, <1>8 DEF SI!worldVars, SI!Step, SI!Trigger, SI!TrailingCheck, SI!WindowEnds, SI!SignOut
<1>9. CASE SI!RecheckAnswered
  <2>1. UNCHANGED <<events, steps>>
    BY <1>9 DEF SI!worldVars, SI!RecheckAnswered
  <2> QED BY <1>1, <2>1
<1>10. CASE \/ SI!Expire
            \/ \E u \in Users, m \in {"ok", "inactive", "removed"} : SI!SetMember(u, m)
            \/ \E s \in SI!Stored : SI!OtherTab(s)
  BY <1>1, <1>10 DEF SI!Event, SI!Expire, SI!SetMember, SI!OtherTab
<1> QED BY <1>2, <1>3, <1>4, <1>5, <1>6, <1>7, <1>8, <1>9, <1>10 DEF SI!Next

(********************************** the shell ******************************)

LEMMA ServedKinds ==
    /\ \A route : WS!FlowOf(route) \in WS!Flows \cup {None}
    /\ \A f : WS!Dashboard(f) \in WS!Routes
BY DEF WS!FlowOf, WS!Dashboard, WS!Flows, WS!Routes

\* What a page's flow does to the remembered choice.
LEMMA Remembered ==
    ASSUME ShellInv, NEW p, NEW route, NEW saved, NEW before, saved \in WS!Flows \cup {None},
           before \in WS!Flows \cup {None}, before # None => saved = before,
           WS!Remember(p, route, saved), WS!Visit(p, route, before)
    PROVE  /\ savedFlow' \in WS!Flows \cup {None} /\ chosen' \in WS!Flows \cup {None}
           /\ storage' \in WS!Flows \cup {None} /\ (chosen' # None => savedFlow' = chosen')
<1>1. storage \in WS!Flows \cup {None}
  BY DEF ShellInv, WS!TypeOK
<1> QED BY <1>1, ServedKinds DEF WS!Remember, WS!Visit

LEMMA ShellStep ==
    ASSUME ShellInv, WS!Next
    PROVE  ShellInv'
<1>1. /\ profile \in WS!Profiles /\ path \in WS!Routes /\ going \in WS!Routes \cup {None}
      /\ savedFlow \in WS!Flows \cup {None} /\ chosen \in WS!Flows \cup {None}
      /\ storage \in WS!Flows \cup {None} /\ (chosen # None => savedFlow = chosen)
      /\ bar \in {"idle", "moving", "finishing"} /\ request \in {"closed", "open", "sent"}
  BY DEF ShellInv, WS!TypeOK
<1>2. ASSUME NEW route \in WS!Routes, WS!Click(route)
      PROVE  ShellInv'
  BY <1>1, <1>2 DEF WS!Click, WS!StartNavigation, ShellInv, WS!TypeOK
<1>3. ASSUME NEW f \in WS!Flows, WS!SwitchFlow(f)
      PROVE  ShellInv'
  <2>1. WS!Dashboard(f) \in WS!Routes
    BY ServedKinds
  <2> QED BY <1>1, <1>3, <2>1 DEF WS!SwitchFlow, WS!StartNavigation, ShellInv, WS!TypeOK
<1>4. ASSUME NEW f \in WS!Flows, WS!OtherTab(f)
      PROVE  ShellInv'
  BY <1>1, <1>4 DEF WS!OtherTab, ShellInv, WS!TypeOK
<1>5. CASE WS!SubmitRequest \/ WS!GoesNowhere \/ WS!BarTimer
  BY <1>1, <1>5 DEF WS!SubmitRequest, WS!GoesNowhere, WS!BarTimer, ShellInv, WS!TypeOK
<1>6. CASE WS!Arrive
  <2>1. /\ savedFlow' \in WS!Flows \cup {None} /\ chosen' \in WS!Flows \cup {None}
        /\ storage' \in WS!Flows \cup {None} /\ (chosen' # None => savedFlow' = chosen')
    BY <1>1, <1>6, Remembered DEF WS!Arrive
  <2> QED BY <1>1, <1>6, <2>1 DEF WS!Arrive, ShellInv, WS!TypeOK
<1>7. CASE WS!Reload
  <2>1. /\ savedFlow' \in WS!Flows \cup {None} /\ chosen' \in WS!Flows \cup {None}
        /\ storage' \in WS!Flows \cup {None} /\ (chosen' # None => savedFlow' = chosen')
    BY <1>1, <1>7, Remembered DEF WS!Reload
  <2> QED BY <1>1, <1>7, <2>1 DEF WS!Reload, ShellInv, WS!TypeOK
<1>8. ASSUME NEW p \in WS!Profiles, WS!RequestAnswered(p)
      PROVE  ShellInv'
  <2>1. CASE UNCHANGED <<profile, savedFlow, storage, chosen>>
    BY <1>1, <1>8, <2>1 DEF WS!RequestAnswered, ShellInv, WS!TypeOK
  <2>2. CASE WS!Remember(p, path, savedFlow) /\ WS!Visit(p, path, chosen)
    <3>1. /\ savedFlow' \in WS!Flows \cup {None} /\ chosen' \in WS!Flows \cup {None}
          /\ storage' \in WS!Flows \cup {None} /\ (chosen' # None => savedFlow' = chosen')
      BY <1>1, <2>2, Remembered
    <3> QED BY <1>1, <1>8, <3>1 DEF WS!RequestAnswered, ShellInv, WS!TypeOK
  <2> QED BY <1>8, <2>1, <2>2 DEF WS!RequestAnswered
<1>9. ASSUME NEW p \in WS!Profiles, WS!ProfileChanges(p)
      PROVE  ShellInv'
  <2>1. /\ savedFlow' \in WS!Flows \cup {None} /\ chosen' \in WS!Flows \cup {None}
        /\ storage' \in WS!Flows \cup {None} /\ (chosen' # None => savedFlow' = chosen')
    BY <1>1, <1>9, Remembered DEF WS!ProfileChanges
  <2> QED BY <1>1, <1>9, <2>1 DEF WS!ProfileChanges, ShellInv, WS!TypeOK
<1> QED BY <1>2, <1>3, <1>4, <1>5, <1>6, <1>7, <1>8, <1>9 DEF WS!Next

\* A person held to one flow is held to the one that may be entered.
LEMMA LockedToEntered ==
    ASSUME NEW p \in WS!Profiles, NEW f \in WS!Flows, WS!CanAccess(p, f), ~WS!CanSwitchFlow(p)
    PROVE  WS!LockedFlow(p) = f
<1>1. \A g \in WS!Flows : WS!CanAccess(p, g) => g = f
  BY DEF WS!Profiles, WS!CanAccess, WS!CanSwitchFlow, WS!Flows
<1>2. (CHOOSE g \in WS!Flows : WS!CanAccess(p, g)) \in WS!Flows
      /\ WS!CanAccess(p, CHOOSE g \in WS!Flows : WS!CanAccess(p, g))
  OBVIOUS
<1> QED BY <1>1, <1>2 DEF WS!LockedFlow

LEMMA FlowShown ==
    ASSUME ShellInv
    PROVE  WS!MenuFitsPage /\ WS!SharedPageKeepsFlow
<1>1. /\ profile \in WS!Profiles /\ (chosen # None => savedFlow = chosen)
  BY DEF ShellInv, WS!TypeOK
<1>2. ASSUME WS!FlowOf(path) # None, WS!Allowed(profile, path)
      PROVE  WS!ActiveFlow = WS!FlowOf(path)
  <2>1. WS!FlowOf(path) \in WS!Flows /\ WS!CanAccess(profile, WS!FlowOf(path))
    BY <1>2, ServedKinds DEF WS!Allowed
  <2>2. CASE WS!CanSwitchFlow(profile)
    BY <1>2, <2>2 DEF WS!ActiveFlow, WS!ResolveActiveFlow, WS!LockedFlow
  <2>3. CASE ~WS!CanSwitchFlow(profile)
    <3>1. WS!LockedFlow(profile) = WS!FlowOf(path)
      BY <1>1, <2>1, <2>3, LockedToEntered
    <3> QED BY <1>2, <3>1 DEF WS!ActiveFlow, WS!ResolveActiveFlow
  <2> QED BY <2>2, <2>3
<1>3. ASSUME WS!FlowOf(path) = None, WS!CanSwitchFlow(profile), chosen # None
      PROVE  WS!ActiveFlow = chosen
  BY <1>1, <1>3 DEF WS!ActiveFlow, WS!ResolveActiveFlow, WS!LockedFlow
<1> QED BY <1>2, <1>3 DEF WS!MenuFitsPage, WS!SharedPageKeepsFlow

\* The menu's table against the roles the API's services serve.
LEMMA TablesAgree ==
    ASSUME NEW role \in WS!Roles, NEW route \in WS!Routes, WS!Capable(role, WS!Required(route))
    PROVE  WS!Served(role, route)
<1>1. CASE route = "/wallet"
  BY <1>1 DEF WS!Required, WS!Capable, WS!Served, WS!Bookers, WS!FinanceViewers
<1>2. CASE route = "/finances/remittances"
  BY <1>2 DEF WS!Required, WS!Capable, WS!Served, WS!FinanceViewers
<1>3. CASE route = "/ops"
  BY <1>3 DEF WS!Required, WS!Capable, WS!Served, WS!Operators
<1>4. CASE route = "/team"
  BY <1>4 DEF WS!Required, WS!Capable, WS!Served, WS!Admins
<1> QED BY <1>1, <1>2, <1>3, <1>4 DEF WS!Served

(********************************* both at once ****************************)

LEMMA InitInv == Init => Inv
<1> SUFFICES ASSUME Init PROVE Inv
  OBVIOUS
<1>1. CASE part = "signin" /\ SI!Init
  <2>1. \E n \in Users : member = [u \in Users |-> IF u = n THEN "new" ELSE "ok"]
    BY <1>1 DEF SI!Init
  <2>2. stored \in SI!Stored
    <3>1. stored = None \/ \E u \in Users : stored = [user |-> u, fresh |-> FALSE]
      BY <1>1 DEF SI!Init
    <3>2. \A u \in Users : [user |-> u, fresh |-> FALSE] \in SI!Sessions
      BY DEF SI!Sessions
    <3> QED BY <3>1, <3>2 DEF SI!Stored
  <2>3. Accounts
    BY <1>1, <2>1, <2>2 DEF SI!Init, Accounts, SI!Stored
  <2>4. Filled
    <3>1. (CHOOSE u \in Users : TRUE) \in Users
      BY <2>1
    <3> QED BY <1>1, <3>1 DEF SI!Init, Filled, SI!EmptyForm, SI!Modes
  <2>5. Guarded
    BY <1>1, CheckingKind, NoMountKind DEF SI!Init, Guarded
  <2>6. Arriving /\ Owned
    BY <1>1, NoArrivalKind DEF SI!Init, Arriving, Owned
  <2> QED BY <1>1, <2>3, <2>4, <2>5, <2>6 DEF SI!Init, Inv, SignInInv, Counted
<1>2. CASE part = "shell" /\ WS!Init
  BY <1>2, ServedKinds DEF WS!Init, Inv, ShellInv, WS!TypeOK
<1> QED BY <1>1, <1>2 DEF Init

LEMMA StepInv == Inv /\ [Next]_vars => Inv'
<1> SUFFICES ASSUME Inv, [Next]_vars PROVE Inv'
  OBVIOUS
<1>1. CASE part = "signin" /\ SI!Next /\ UNCHANGED <<part, shellVars>>
  BY <1>1, SignInStep, CountStep DEF Inv
<1>2. CASE part = "shell" /\ WS!Next /\ UNCHANGED <<part, signInVars>>
  BY <1>2, ShellStep DEF Inv
<1>3. CASE UNCHANGED vars
  <2>1. SignInInv /\ Counted => SignInInv' /\ Counted'
    BY <1>3 DEF vars, signInVars, Counted, SignInInv, Accounts, Filled, Guarded, Arriving, Owned
  <2>2. ShellInv => ShellInv'
    BY <1>3 DEF vars, shellVars, ShellInv, WS!TypeOK
  <2> QED BY <1>3, <2>1, <2>2 DEF Inv, vars
<1> QED BY <1>1, <1>2, <1>3 DEF Next

LEMMA Always == Spec => []Inv
BY InitInv, StepInv, PTL DEF Spec

(****************************** what they promise **************************)

\* The login form, the callback page, AuthGuard's flags and the remembered flow keep their
\* types; while AuthGuard says it is checking, one of its checks is under way.
THEOREM TypeCorrect == Spec => []TypeOK
<1>1. Inv => TypeOK
  <2> SUFFICES ASSUME Inv PROVE TypeOK
    OBVIOUS
  <2>1. CASE part = "signin" /\ SignInInv
    <3>1. recheck = None \/ recheck.sent \in SI!Stored
      BY <2>1 DEF SignInInv, Guarded
    <3> QED BY <2>1, <3>1 DEF TypeOK, SI!TypeOK, SignInInv, Accounts, Filled, Guarded
  <2>2. CASE part = "shell" /\ ShellInv
    BY <2>2 DEF TypeOK, ShellInv
  <2> QED BY <2>1, <2>2 DEF Inv
<1> QED BY <1>1, Always, PTL

\* handleVerifyOtp and the callback's syncUserWithBackend call updateUser with whatever session
\* is stored: a password chosen for one address is never given to another account, whichever of
\* the form, the code and the mailed link ends the change, unless another tab signs in meanwhile.
THEOREM PasswordKept == Spec => []PasswordForItsOwner
<1>1. Inv => PasswordForItsOwner
  BY DEF Inv, SignInInv, Owned, PasswordForItsOwner, SI!PasswordForItsOwner
<1> QED BY <1>1, Always, PTL

\* resolveActiveFlow and the menu's table: the menus show the flow of the page, a page both
\* flows share keeps the flow last chosen, and each entry leads to a list the API serves.
THEOREM MenusKept == Spec => []MenusAgree
<1>1. Inv => MenusAgree
  <2> SUFFICES ASSUME Inv, part = "shell" PROVE WS!MenuFitsPage /\ WS!MenuMatchesApi /\ WS!SharedPageKeepsFlow
    BY DEF MenusAgree
  <2>1. ShellInv
    BY DEF Inv
  <2>2. profile.role \in WS!Roles
    BY <2>1 DEF ShellInv, WS!TypeOK, WS!Profiles
  <2> QED BY <2>1, <2>2, FlowShown, TablesAgree DEF WS!MenuMatchesApi
<1> QED BY <1>1, Always, PTL

\* isStaleSession: the tab drops a stored session only when the person signs out or the server
\* refused a session it was asked about; no failure of the server or the network does.
THEOREM OutageSafe == Spec => OutageKeepsSession
<1>1. ASSUME Inv, [Next]_vars, NEW s \in SI!Sessions, SI!Removed(s), events' = events
      PROVE  \/ page = "app" /\ steps' # steps
             \/ failures' = failures /\ \E t \in SI!Asked : t # None /\ SI!Profile(t) \in {401, 403}
  <2>1. stored = s /\ stored' = None /\ s # None
    BY <1>1, Nothing DEF SI!Removed
  <2>2. ~UNCHANGED stored
    BY <2>1
  <2>3. SignInInv /\ SI!Next /\ events \in Nat /\ steps \in Nat
    BY <1>1, <2>2 DEF Next, Inv, Counted, vars, signInVars
  <2>4. \A u \in Users : [user |-> u, fresh |-> TRUE] # None
    <3>1. \A u \in Users : [user |-> u, fresh |-> TRUE] \in SI!Sessions
      BY DEF SI!Sessions
    <3> QED BY <3>1, Nothing
  <2>5. CASE \E x \in SI!Sessions : SI!CheckAnswered(x)
    <3>1. PICK x \in SI!Sessions : SI!CheckAnswered(x)
      BY <2>5
    <3>2. PICK status \in {SI!Profile(x), 503} :
              /\ IF status = 503 THEN SI!Fail ELSE SI!Answered
              /\ stored' = IF status \in SI!STALE_SESSION_STATUSES THEN None ELSE stored
      BY <3>1 DEF SI!CheckAnswered
    <3>3. status \in {401, 403}
      BY <2>2, <3>2 DEF SI!STALE_SESSION_STATUSES
    <3>4. SI!Profile(x) \in {401, 403} /\ failures' = failures
      BY <3>2, <3>3 DEF SI!Answered
    <3>5. x \in SI!Asked /\ x # None
      BY <3>1, Nothing DEF SI!CheckAnswered, SI!Asked
    <3> QED BY <3>4, <3>5
  <2>6. CASE \E i \in Slots : SI!SendMount(i)
    <3>1. PICK i \in Slots : SI!SendMount(i)
      BY <2>6
    <3> QED BY <2>1, <2>2, <3>1 DEF SI!SendMount
  <2>7. CASE \E i \in Slots : SI!MountAnswered(i)
    <3>1. PICK i \in Slots : SI!MountAnswered(i)
      BY <2>7
    <3>2. /\ mount[i] # None /\ mount[i].sent /\ SI!Profile(mount[i].as) = 401 /\ failures' = failures
      BY <2>2, <3>1 DEF SI!MountAnswered, SI!Answered
    <3>3. mount[i] \in Sent
      BY <2>3, <3>2 DEF SignInInv, Guarded, Unsent
    <3>4. mount[i].as \in SI!Sessions /\ mount[i].as # None
      BY <3>3, Nothing DEF Sent
    <3>5. mount[i].as \in SI!Asked
      BY <3>2 DEF SI!Asked
    <3> QED BY <3>2, <3>4, <3>5
  <2>8. CASE SI!RecheckAnswered
    <3>1. /\ recheck # None /\ recheck.sent # None /\ SI!Profile(recheck.sent) = 401 /\ failures' = failures
      BY <2>2, <2>8 DEF SI!RecheckAnswered, SI!Answered
    <3>2. recheck.sent \in SI!Asked
      BY <3>1 DEF SI!Asked
    <3> QED BY <3>1, <3>2
  <2>9. CASE SI!SignOut
    <3>1. page = "app" /\ steps' = steps + 1
      BY <2>9 DEF SI!SignOut, SI!Step
    <3> QED BY <2>3, <3>1
  <2>10. CASE (\E u \in Users : SI!OAuth(u)) \/ \E u \in Users, b \in BOOLEAN : SI!OpenLink(u, b)
    BY <2>1, <2>4, <2>10 DEF SI!OAuth, SI!OpenLink
  <2>11. CASE SI!SignedIn \/ SI!CodeVerified
    <3>1. job # None /\ stored' = [user |-> job.email, fresh |-> TRUE]
      BY <2>11 DEF SI!SignedIn, SI!CodeVerified
    <3>2. job.email \in Users
      BY <2>3, <3>1 DEF SignInInv, Filled, SI!Jobs
    <3> QED BY <2>1, <2>4, <3>1, <3>2
  <2>12. CASE SI!Expire \/ \E x \in SI!Stored : SI!OtherTab(x)
    <3>1. UNCHANGED stored \/ crossed' # crossed \/ events' # events
      <4>1. CASE SI!Expire
        BY <4>1 DEF SI!Expire
      <4>2. CASE \E x \in SI!Stored : SI!OtherTab(x)
        <5>1. events' = events + 1
          BY <4>2 DEF SI!OtherTab, SI!Event
        <5> QED BY <2>3, <5>1
      <4> QED BY <2>12, <4>1, <4>2
    <3> QED BY <1>1, <2>2, <3>1 DEF SI!Removed
  <2>13. CASE \/ \E m \in SI!Modes : SI!PickTab(m)
              \/ \E u \in Users : SI!Submit(u)
              \/ SI!DifferentEmail \/ SI!JobFails \/ SI!SignInRefused \/ SI!CodeSent \/ SI!CodeRefused
              \/ SI!PasswordUpdated \/ SI!Onboarded
    BY <2>2, <2>13 DEF SI!PickTab, SI!Submit, SI!DifferentEmail, SI!JobFails, SI!SignInRefused, SI!CodeSent,
       SI!CodeRefused, SI!PasswordUpdated, SI!Onboarded
  <2>14. CASE \/ SI!ReadSession \/ SI!Applied \/ SI!ArrivalFails \/ SI!ReturnToLogin
              \/ \E b \in BOOLEAN : SI!Synced(b)
    BY <2>2, <2>14 DEF SI!ReadSession, SI!Applied, SI!ArrivalFails, SI!ReturnToLogin, SI!Synced
  <2>15. CASE \/ \E i \in Slots, b \in BOOLEAN : SI!Retry(i, b)
              \/ SI!Trigger \/ SI!TrailingCheck \/ SI!WindowEnds
              \/ \E u \in Users, m \in {"ok", "inactive", "removed"} : SI!SetMember(u, m)
    BY <2>2, <2>15 DEF SI!Retry, SI!Trigger, SI!TrailingCheck, SI!WindowEnds, SI!SetMember
  <2> QED BY <2>3, <2>5, <2>6, <2>7, <2>8, <2>9, <2>10, <2>11, <2>12, <2>13, <2>14, <2>15 DEF SI!Next
<1>2. Inv /\ [Next]_vars =>
         [\A s \in SI!Sessions :
            SI!Removed(s) /\ events' = events =>
               \/ page = "app" /\ steps' # steps
               \/ failures' = failures /\ \E t \in SI!Asked : t # None /\ SI!Profile(t) \in {401, 403}]_SI!vars
  BY <1>1
<1> QED BY <1>2, Always, PTL DEF Spec, OutageKeepsSession, SI!OutageKeepsSession

-----------------------------------------------------------------------------
(* The rate calculator: the prices on the page are those of the last            *)
(* calculation, and a wizard filled in from them asks for the same price.      *)

CONSTANTS Cargo, Typable, Options, Calls, MaxTypings, MaxCalcs
VARIABLES rendered, touched, typings, calls, calcs, quote, failed, selected, wizard
RT == INSTANCE RateCalculator

RtMeasures == {"untyped", "own", "plain", "documents", "electronics"}
RtBoxes == [measure : RtMeasures, count : {1, 2}]
RtForms ==
    [route : {0, 1, 2}, category : RT!Categories \cup {None}, blind : BOOLEAN, estimate : {0, 1, 2}, door : BOOLEAN, risk : BOOLEAN,
     boxes : Seq(RtBoxes), value : {0, 1, 2}, cod : BOOLEAN, amount : {0, 1, 2}]
RtRequests ==
    [route : {0, 1, 2}, boxes : Seq(RtBoxes), blind : BOOLEAN, estimate : {0, 1, 2}, door : BOOLEAN, risk : BOOLEAN,
     value : {0, 1, 2}, cod : BOOLEAN, amount : {0, 1, 2}]
RtCalculations == [n : Nat, request : RtRequests]
RtCallRecords == [at : {"idle", "going", "quoted"}, of : RtCalculations \cup {None}, offers : (SUBSET Options) \cup {None}]
RtConstants ==
    /\ MaxTypings \in Nat /\ MaxCalcs \in Nat /\ Cargo \in BOOLEAN
    /\ None \notin RtMeasures /\ None \notin {1, 2} /\ None \notin RtCalculations

\* A form as the page can hold it.
RtForm(f) == f \in RtForms /\ Len(f.boxes) \in 1 .. 2 /\ (~Cargo => ~f.door /\ ~f.blind /\ ~f.risk)
RtTyped ==
    /\ RtForm(form) /\ RtForm(rendered) /\ touched \in BOOLEAN /\ (~touched => rendered = form)
    /\ typings \in 0 .. MaxTypings
\* The last calculation asked for, of the form as it is unless that was touched since.
RtLast(of) == of \in RtCalculations /\ of.n = calcs /\ (~touched => of.request = RT!Request(form))
\* One calculation is on its way at most, and no prices are shown while it is.
RtCalls ==
    /\ calls \in [Calls -> RtCallRecords]
    /\ \A k \in Calls : calls[k].at # "idle" =>
        quote = None /\ RtLast(calls[k].of) /\ (\A j \in Calls : calls[j].at # "idle" => j = k)
    /\ \A k \in Calls : calls[k].at = "quoted" => calls[k].offers \in SUBSET Options
RtPage ==
    /\ calcs \in 0 .. MaxCalcs /\ failed \in BOOLEAN /\ selected \in Options \cup {None}
    /\ quote # None => quote.offers \in SUBSET Options /\ RtLast(quote.of)
RtWizard == RT!ActedAsShown
RtInv == RtTyped /\ RtCalls /\ RtPage /\ RtWizard

-----------------------------------------------------------------------------
(* The form.                                                                    *)

LEMMA RtRequested == ASSUME RtConstants, NEW f, RtForm(f) PROVE RT!Request(f) \in RtRequests
<1>1. /\ f.route \in {0, 1, 2} /\ f.estimate \in {0, 1, 2} /\ f.value \in {0, 1, 2} /\ f.amount \in {0, 1, 2}
      /\ f.blind \in BOOLEAN /\ f.door \in BOOLEAN /\ f.risk \in BOOLEAN /\ f.cod \in BOOLEAN /\ f.boxes \in Seq(RtBoxes) /\ Cargo \in BOOLEAN
  BY DEF RtForm, RtForms, RtConstants
<1>2. (IF f.blind THEN <<>> ELSE f.boxes) \in Seq(RtBoxes)
  BY <1>1
<1>3. (IF f.blind THEN f.estimate ELSE 0) \in {0, 1, 2} /\ (IF f.cod THEN f.amount ELSE 0) \in {0, 1, 2}
      /\ (Cargo /\ f.blind) \in BOOLEAN /\ (Cargo /\ f.door) \in BOOLEAN /\ (Cargo /\ f.risk) \in BOOLEAN
  BY <1>1
<1> QED BY <1>1, <1>2, <1>3 DEF RT!Request, RT!QuoteRequest, RtRequests

\* The defaults of a category replace what is not a person's own, and nothing else of the form.
LEMMA RtMeasured ==
    ASSUME RtConstants, NEW f, RtForm(f)
    PROVE  /\ RtForm(RT!Measured(f)) /\ DOMAIN RT!Measured(f).boxes = DOMAIN f.boxes
           /\ \A i \in DOMAIN f.boxes : f.boxes[i].measure = "own" => RT!Measured(f).boxes[i] = f.boxes[i]
<1>1. CASE f.blind \/ f.category \notin RT!CategoryDefaults
  BY <1>1 DEF RT!Measured
<1>2. CASE ~(f.blind \/ f.category \notin RT!CategoryDefaults)
  <2> DEFINE new(b) == IF RT!Replaceable(b.measure) THEN [measure |-> f.category, count |-> b.count] ELSE b
             bs == [i \in DOMAIN f.boxes |-> new(f.boxes[i])]
  <2>1. f \in RtForms /\ f.boxes \in Seq(RtBoxes) /\ f.category \in {"documents", "electronics"}
    BY <1>2 DEF RtForm, RtForms, RT!CategoryDefaults
  <2>2. \A b \in RtBoxes : new(b) \in RtBoxes
    BY <2>1 DEF RtBoxes, RtMeasures
  <2>3. RT!Measured(f) = [f EXCEPT !.boxes = bs]
    BY <1>2 DEF RT!Measured, RT!Box
  <2>4. \A i \in DOMAIN f.boxes : f.boxes[i].measure = "own" => bs[i] = f.boxes[i]
    BY DEF RT!Replaceable, RT!LooksDefault, RT!Untyped, RT!CategoryDefaults
  <2> HIDE DEF new
  <2>5. bs \in Seq(RtBoxes) /\ DOMAIN bs = DOMAIN f.boxes
    BY <2>1, <2>2
  <2>6. Len(bs) = Len(f.boxes)
    BY <2>1, <2>5
  <2> HIDE DEF bs
  <2>7. [f EXCEPT !.boxes = bs] \in RtForms /\ [f EXCEPT !.boxes = bs].boxes = bs /\ [f EXCEPT !.boxes = bs].door = f.door
        /\ [f EXCEPT !.boxes = bs].blind = f.blind /\ [f EXCEPT !.boxes = bs].risk = f.risk
    BY <2>1, <2>5 DEF RtForms
  <2> QED BY <2>3, <2>4, <2>5, <2>6, <2>7 DEF RtForm
<1> QED BY <1>1, <1>2

\* Typing in the page leaves a form as it can hold it.
LEMMA RtTypedIn ==
    ASSUME RtConstants, RtInv, NEW f, NEW w, RT!TypedIn(f, w), RtForm(f)
    PROVE  RtInv'
<1>1. wizard = None /\ typings' \in 0 .. MaxTypings /\ form' = f /\ (rendered' = rendered \/ rendered' = f) /\ touched' = TRUE
      /\ UNCHANGED <<calls, calcs, quote, failed, selected, wizard>>
  BY DEF RT!TypedIn, RT!quoteVars, RtInv, RtTyped, RtConstants
<1>2. RtTyped'
  BY <1>1 DEF RtInv, RtTyped, RtForm
<1>3. \A of : RtLast(of) => RtLast(of)'
  BY <1>1 DEF RtLast
<1>4. RtCalls' /\ RtPage'
  BY <1>1, <1>3 DEF RtInv, RtCalls, RtPage
<1>5. RtWizard'
  BY <1>1 DEF RtWizard, RT!ActedAsShown
<1> QED BY <1>2, <1>4, <1>5 DEF RtInv

\* What the page lets a person type, and what becomes of the boxes when the category or the blind pickup changes.
LEMMA RtTypes ==
    ASSUME RtConstants, RtInv, RT!Type
    PROVE  \E f, w : /\ RT!TypedIn(f, w) /\ RtForm(f)
                     /\ f.category # form.category \/ f.blind # form.blind =>
                            \A i \in DOMAIN form.boxes : form.boxes[i].measure = "own" => f.boxes[i] = form.boxes[i]
<1> DEFINE Kept(f) == f.category # form.category \/ f.blind # form.blind =>
                            \A i \in DOMAIN form.boxes : form.boxes[i].measure = "own" => f.boxes[i] = form.boxes[i]
           Same(f) == f.category = form.category /\ f.blind = form.blind
<1>0. form \in RtForms /\ Len(form.boxes) \in 1 .. 2 /\ (~Cargo => ~form.door /\ ~form.blind /\ ~form.risk)
      /\ form.boxes \in Seq(RtBoxes) /\ form.blind \in BOOLEAN /\ form.risk \in BOOLEAN /\ form.cod \in BOOLEAN
  BY DEF RtInv, RtTyped, RtForm, RtForms
<1>1. CASE \E n \in 0 .. 2 : RT!TypePincodes(n) \/ RT!TypeEstimate(n) \/ RT!TypeValue(n) \/ RT!TypeCodAmount(n)
  <2>1. PICK n \in 0 .. 2 : RT!TypePincodes(n) \/ RT!TypeEstimate(n) \/ RT!TypeValue(n) \/ RT!TypeCodAmount(n)
    BY <1>1
  <2>2. /\ RtForm([form EXCEPT !.route = n]) /\ Same([form EXCEPT !.route = n])
        /\ RtForm([form EXCEPT !.estimate = n]) /\ Same([form EXCEPT !.estimate = n])
        /\ RtForm([form EXCEPT !.value = n]) /\ Same([form EXCEPT !.value = n])
        /\ RtForm([form EXCEPT !.amount = n]) /\ Same([form EXCEPT !.amount = n])
    BY <1>0 DEF RtForm, RtForms
  <2> QED BY <2>1, <2>2 DEF RT!TypePincodes, RT!TypeEstimate, RT!TypeValue, RT!TypeCodAmount
<1>2. CASE \E c \in RT!Categories : RT!ChooseCategory(c)
  <2>1. PICK c \in RT!Categories : RT!ChooseCategory(c)
    BY <1>2
  <2> DEFINE g == [form EXCEPT !.category = c]
  <2>2. RtForm(g) /\ g.boxes = form.boxes
    BY <1>0 DEF RtForm, RtForms
  <2> HIDE DEF g
  <2>3. RtForm(RT!Measured(g)) /\ \A i \in DOMAIN form.boxes : form.boxes[i].measure = "own" => RT!Measured(g).boxes[i] = form.boxes[i]
    BY <2>2, RtMeasured
  <2>4. RT!TypedIn(RT!Measured(g), TRUE)
    BY <2>1 DEF RT!ChooseCategory, g
  <2> QED BY <2>3, <2>4
<1>3. CASE RT!TickBlind
  <2> DEFINE g == [form EXCEPT !.blind = ~form.blind]
  <2>1. Cargo /\ RT!TypedIn(RT!Measured(g), TRUE)
    BY <1>3 DEF RT!TickBlind
  <2>2. RtForm(g) /\ g.boxes = form.boxes
    BY <1>0, <2>1 DEF RtForm, RtForms
  <2> HIDE DEF g
  <2>3. RtForm(RT!Measured(g)) /\ \A i \in DOMAIN form.boxes : form.boxes[i].measure = "own" => RT!Measured(g).boxes[i] = form.boxes[i]
    BY <2>2, RtMeasured
  <2> QED BY <2>1, <2>3
<1>4. CASE \E d \in BOOLEAN : RT!ChooseDoor(d)
  <2>1. PICK d \in BOOLEAN : RT!ChooseDoor(d)
    BY <1>4
  <2>2. RtForm([form EXCEPT !.door = d]) /\ Same([form EXCEPT !.door = d])
    BY <1>0, <2>1 DEF RtForm, RtForms, RT!ChooseDoor
  <2> QED BY <2>1, <2>2 DEF RT!ChooseDoor
<1>5. CASE RT!TickRisk
  <2>1. RtForm([form EXCEPT !.risk = ~form.risk]) /\ Same([form EXCEPT !.risk = ~form.risk])
    BY <1>0, <1>5 DEF RtForm, RtForms, RT!TickRisk
  <2> QED BY <1>5, <2>1 DEF RT!TickRisk
<1>6. CASE RT!TickCod
  <2>1. RtForm([form EXCEPT !.cod = ~form.cod]) /\ Same([form EXCEPT !.cod = ~form.cod])
    BY <1>0 DEF RtForm, RtForms
  <2> QED BY <1>6, <2>1 DEF RT!TickCod
<1>7. ASSUME NEW bs \in Seq(RtBoxes), Len(bs) \in 1 .. 2 PROVE RtForm([form EXCEPT !.boxes = bs]) /\ Same([form EXCEPT !.boxes = bs])
  BY <1>0, <1>7 DEF RtForm, RtForms
<1>8. CASE RT!AddBox
  <2> DEFINE b == RT!Box(IF form.category \in RT!CategoryDefaults THEN form.category ELSE RT!Plain, 1)
  <2>1. b \in RtBoxes
    BY DEF RT!Box, RT!CategoryDefaults, RT!Plain, RtBoxes, RtMeasures
  <2>2. Len(form.boxes) < 2 /\ RT!TypedIn([form EXCEPT !.boxes = Append(form.boxes, b)], TRUE)
    BY <1>8 DEF RT!AddBox
  <2> HIDE DEF b
  <2>3. Append(form.boxes, b) \in Seq(RtBoxes) /\ Len(Append(form.boxes, b)) \in 1 .. 2
    BY <1>0, <2>1, <2>2
  <2> QED BY <1>7, <2>2, <2>3
<1>9. CASE \E i \in DOMAIN form.boxes : RT!RemoveBox(i)
  <2>1. PICK i \in DOMAIN form.boxes : RT!RemoveBox(i)
    BY <1>9
  <2> DEFINE s == SubSeq(form.boxes, 1, i - 1)
             t == SubSeq(form.boxes, i + 1, Len(form.boxes))
  <2>2. Len(form.boxes) > 1 /\ RT!TypedIn([form EXCEPT !.boxes = s \o t], TRUE)
    BY <2>1 DEF RT!RemoveBox, RT!RemoveAt
  <2>3. s \in Seq(RtBoxes) /\ Len(s) = i - 1 /\ t \in Seq(RtBoxes) /\ Len(t) = Len(form.boxes) - i /\ i \in Nat
    BY <1>0
  <2> HIDE DEF s, t
  <2>4. s \o t \in Seq(RtBoxes) /\ Len(s \o t) = Len(s) + Len(t)
    BY <2>3
  <2> DEFINE u == s \o t
             n == Len(form.boxes)
  <2>6. Len(u) = i - 1 + (n - i) /\ i \in Nat /\ n \in 1 .. 2 /\ n > 1
    BY <1>0, <2>2, <2>3, <2>4
  <2> HIDE DEF u, n
  <2>7. Len(u) \in 1 .. 2
    BY <2>6
  <2>5. Len(s \o t) \in 1 .. 2
    BY <2>7 DEF u
  <2> QED BY <1>7, <2>2, <2>4, <2>5
<1>10. ASSUME NEW i \in DOMAIN form.boxes, NEW b \in RtBoxes
       PROVE  RtForm([form EXCEPT !.boxes = [form.boxes EXCEPT ![i] = b]]) /\ Same([form EXCEPT !.boxes = [form.boxes EXCEPT ![i] = b]])
  <2>1. [form.boxes EXCEPT ![i] = b] \in Seq(RtBoxes) /\ Len([form.boxes EXCEPT ![i] = b]) \in 1 .. 2
    BY <1>0
  <2> QED BY <1>7, <2>1
<1>11. CASE \E i \in DOMAIN form.boxes : RT!TypeBoxCount(i)
  <2>1. PICK i \in DOMAIN form.boxes : RT!TypeBoxCount(i)
    BY <1>11
  <2>2. form.boxes[i] \in RtBoxes
    BY <1>0
  <2>3. [form.boxes[i] EXCEPT !.count = 2] \in RtBoxes
    BY <2>2 DEF RtBoxes
  <2>4. RT!TypedIn([form EXCEPT !.boxes = [form.boxes EXCEPT ![i] = [form.boxes[i] EXCEPT !.count = 2]]], FALSE)
    BY <2>1 DEF RT!TypeBoxCount
  <2> QED BY <1>10, <2>3, <2>4
<1>12. CASE \E i \in DOMAIN form.boxes, m \in {RT!Untyped, RT!Own} \cup RT!CategoryDefaults : RT!TypeDimensions(i, m)
  <2>1. PICK i \in DOMAIN form.boxes, m \in {RT!Untyped, RT!Own} \cup RT!CategoryDefaults : RT!TypeDimensions(i, m)
    BY <1>12
  <2>2. form.boxes[i] \in RtBoxes /\ m \in RtMeasures
    BY <1>0 DEF RT!Untyped, RT!Own, RT!CategoryDefaults, RtMeasures
  <2>3. [form.boxes[i] EXCEPT !.measure = m] \in RtBoxes
    BY <2>2 DEF RtBoxes
  <2>4. RT!TypedIn([form EXCEPT !.boxes = [form.boxes EXCEPT ![i] = [form.boxes[i] EXCEPT !.measure = m]]], FALSE)
    BY <2>1 DEF RT!TypeDimensions
  <2> QED BY <1>10, <2>3, <2>4
<1> QED BY <1>1, <1>2, <1>3, <1>4, <1>5, <1>6, <1>8, <1>9, <1>11, <1>12 DEF RT!Type

-----------------------------------------------------------------------------
(* The calculations and the link.                                              *)

LEMMA RtInit == RtConstants /\ RT!Init => RtInv
<1> SUFFICES ASSUME RtConstants, RT!Init PROVE RtInv
  OBVIOUS
<1>1. RtForm(RT!DefaultValues)
  <2>1. RT!Box(RT!Untyped, 1) \in RtBoxes
    BY DEF RT!Box, RT!Untyped, RtBoxes, RtMeasures
  <2>2. <<RT!Box(RT!Untyped, 1)>> \in Seq(RtBoxes) /\ Len(<<RT!Box(RT!Untyped, 1)>>) = 1
    BY <2>1
  <2> QED BY <2>2 DEF RtForm, RtForms, RT!DefaultValues
<1>2. RT!NoCall \in RtCallRecords /\ RT!NoCall.at = "idle"
  BY DEF RT!NoCall, RtCallRecords
<1>6. 0 \in 0 .. MaxTypings /\ 0 \in 0 .. MaxCalcs
  BY DEF RtConstants
<1>3. RtTyped
  BY <1>1, <1>6 DEF RT!Init, RtTyped
<1>4. RtCalls
  BY <1>2 DEF RT!Init, RtCalls
<1>5. RtPage /\ RtWizard
  BY <1>6 DEF RT!Init, RtPage, RtWizard, RT!ActedAsShown
<1> QED BY <1>3, <1>4, <1>5 DEF RtInv

\* A calculation starts: none is on its way, and the form is the one it is of.
LEMMA RtSubmits ==
    ASSUME RtConstants, RtInv, NEW f, RT!OnSubmit(f), RtForm(f), ~RT!IsCalculating
    PROVE  RtInv'
<1> DEFINE of == [n |-> calcs + 1, request |-> RT!Request(f)]
           sentoff == [RT!NoCall EXCEPT !.at = "going", !.of = of]
<1>1. PICK k \in Calls : calls' = [calls EXCEPT ![k] = sentoff]
  BY DEF RT!OnSubmit
<1>2. calcs' = calcs + 1 /\ calcs < MaxCalcs /\ form' = f /\ rendered' = f /\ touched' = FALSE /\ quote' = None /\ failed' = FALSE
      /\ UNCHANGED <<typings, selected, wizard>>
  BY DEF RT!OnSubmit
<1>3. calcs' \in 0 .. MaxCalcs /\ calcs + 1 \in Nat
  BY <1>2 DEF RtInv, RtPage, RtConstants
<1>4. of \in RtCalculations /\ of.n = calcs' /\ of.request = RT!Request(form)'
  <2>1. RT!Request(form)' = RT!Request(f)
    BY <1>2 DEF RT!Request, RT!QuoteRequest
  <2> QED BY <1>2, <1>3, <2>1, RtRequested DEF RtCalculations
<1> HIDE DEF of
<1>5. sentoff \in RtCallRecords /\ sentoff.at = "going" /\ sentoff.of = of
  BY <1>4 DEF RtCallRecords, RT!NoCall
<1> HIDE DEF sentoff
<1>6. calls' \in [Calls -> RtCallRecords] /\ \A j \in Calls : calls'[j] = IF j = k THEN sentoff ELSE calls[j]
  BY <1>1, <1>5 DEF RtInv, RtCalls
<1>7. RtTyped'
  BY <1>2 DEF RtInv, RtTyped, RtForm
<1>8. \A o : o = of => RtLast(o)'
  BY <1>4 DEF RtLast
<1>9. RtCalls'
  <2>1. \A j \in Calls : calls'[j].at # "idle" => j = k
    BY <1>6 DEF RT!IsCalculating
  <2>2. quote' = None /\ \A j \in Calls : j = k => \A o : o = calls'[j].of => RtLast(o)'
    BY <1>2, <1>5, <1>6, <1>8
  <2>3. \A j \in Calls : calls'[j].at # "quoted"
    BY <1>5, <1>6, <2>1
  <2> QED BY <1>6, <2>1, <2>2, <2>3 DEF RtCalls
<1>10. RtPage'
  BY <1>2, <1>3 DEF RtInv, RtPage
<1>11. RtWizard'
  BY <1>2 DEF RtInv, RtWizard, RT!ActedAsShown
<1> QED BY <1>7, <1>9, <1>10, <1>11 DEF RtInv

LEMMA RtCalculates ==
    ASSUME RtConstants, RtInv, RT!Calculate \/ RT!ToggleDelivery
    PROVE  RtInv'
<1>1. ~RT!IsCalculating
  BY DEF RT!Calculate, RT!ToggleDelivery, RT!NotCalculating, RT!MayCalculate
<1>2. CASE RT!Calculate
  BY <1>1, <1>2, RtSubmits DEF RT!Calculate, RtInv, RtTyped
<1>3. CASE RT!ToggleDelivery
  <2> DEFINE g == [form EXCEPT !.door = ~form.door]
  <2>1. RT!OnSubmit(g) /\ Cargo
    BY <1>3 DEF RT!ToggleDelivery
  <2>2. RtForm(g)
    BY <2>1 DEF RtInv, RtTyped, RtForm, RtForms
  <2> HIDE DEF g
  <2> QED BY <1>1, <2>1, <2>2, RtSubmits
<1> QED BY <1>2, <1>3

LEMMA RtAnswers ==
    ASSUME RtConstants, RtInv, NEW k \in Calls,
           (\E offers \in SUBSET Options : RT!Quoted(k, offers)) \/ RT!QuoteAnswered(k) \/ RT!CalculationFailed(k)
    PROVE  RtInv'
<1>1. calls[k].at # "idle" /\ UNCHANGED <<form, touched, typings, calcs, wizard>> /\ (rendered' = rendered \/ rendered' = form)
  BY DEF RT!Quoted, RT!QuoteAnswered, RT!CalculationFailed, RT!formVars
<1>2. quote = None /\ RtLast(calls[k].of) /\ (\A j \in Calls : calls[j].at # "idle" => j = k) /\ calls[k] \in RtCallRecords
  BY <1>1 DEF RtInv, RtCalls
<1>3. \A of : RtLast(of) => RtLast(of)'
  BY <1>1 DEF RtLast, RT!Request, RT!QuoteRequest
<1>4. RtTyped'
  BY <1>1 DEF RtInv, RtTyped, RtForm
<1>5. RtWizard'
  BY <1>1 DEF RtInv, RtWizard, RT!ActedAsShown
<1>6. RT!NoCall \in RtCallRecords /\ RT!NoCall.at = "idle"
  BY DEF RT!NoCall, RtCallRecords
<1>7. CASE \E offers \in SUBSET Options : RT!Quoted(k, offers)
  <2>1. PICK offers \in SUBSET Options : RT!Quoted(k, offers)
    BY <1>7
  <2> DEFINE c == [calls[k] EXCEPT !.at = "quoted", !.offers = offers]
  <2>2. c \in RtCallRecords /\ c.at = "quoted" /\ c.of = calls[k].of /\ c.offers = offers
    BY <1>2 DEF RtCallRecords
  <2>3. calls' = [calls EXCEPT ![k] = c]
    <3>1. calls' = [calls EXCEPT ![k].at = "quoted", ![k].offers = offers]
      BY <2>1 DEF RT!Quoted
    <3> QED BY <3>1 DEF RtInv, RtCalls
  <2> HIDE DEF c
  <2>4. calls' \in [Calls -> RtCallRecords] /\ \A j \in Calls : calls'[j] = IF j = k THEN c ELSE calls[j]
    BY <2>2, <2>3 DEF RtInv, RtCalls
  <2>5. UNCHANGED <<calcs, quote, failed, selected>>
    BY <2>1 DEF RT!Quoted
  <2>6. RtCalls'
    BY <1>2, <1>3, <2>2, <2>4, <2>5 DEF RtCalls
  <2>7. RtPage'
    BY <1>2, <2>5 DEF RtInv, RtPage
  <2> QED BY <1>4, <1>5, <2>6, <2>7 DEF RtInv
<1>8. ASSUME calls' = [calls EXCEPT ![k] = RT!NoCall] PROVE RtCalls'
  <2>1. calls' \in [Calls -> RtCallRecords] /\ \A j \in Calls : calls'[j].at = "idle"
    BY <1>2, <1>6, <1>8 DEF RtInv, RtCalls
  <2> QED BY <2>1 DEF RtCalls
<1>9. CASE RT!QuoteAnswered(k)
  <2>1. calls[k].at = "quoted" /\ calls' = [calls EXCEPT ![k] = RT!NoCall] /\ quote' = [of |-> calls[k].of, offers |-> calls[k].offers]
        /\ selected' \in RT!SelectionFor(calls[k].offers) /\ UNCHANGED <<calcs, failed>>
    BY <1>9 DEF RT!QuoteAnswered
  <2>2. quote'.of = calls[k].of /\ quote'.offers = calls[k].offers /\ calls[k].offers \in SUBSET Options
    BY <2>1 DEF RtInv, RtCalls
  <2>3. selected' \in Options \cup {None}
    BY <2>1, <2>2 DEF RT!SelectionFor, RT!DefaultSelection, RT!FirstOffered
  <2>4. RtPage'
    BY <1>2, <1>3, <2>1, <2>2, <2>3 DEF RtInv, RtPage
  <2> QED BY <1>4, <1>5, <1>8, <2>1, <2>4 DEF RtInv
<1>10. CASE RT!CalculationFailed(k)
  <2>1. calls' = [calls EXCEPT ![k] = RT!NoCall] /\ failed' = TRUE /\ UNCHANGED <<calcs, quote, selected>>
    BY <1>10 DEF RT!CalculationFailed
  <2>2. RtPage'
    BY <1>2, <2>1 DEF RtInv, RtPage
  <2> QED BY <1>4, <1>5, <1>8, <2>1, <2>2 DEF RtInv
<1> QED BY <1>7, <1>9, <1>10

\* The wizard a link opens from a form asks for the price of that form, but for what it cannot be told.
LEMMA RtHanded ==
    ASSUME RtConstants, NEW f, RtForm(f), NEW matched \in BOOLEAN, RT!HandedWhole(RT!Request(f)), NEW w,
           w = RT!ApplyRateHandoff(RT!BuildRateHandoff(f), matched)
    PROVE  LET opened == RT!WizardRequest(w)
           IN  opened = [RT!Request(f) EXCEPT !.route = opened.route] /\ (opened.route = RT!Request(f).route \/ w.missing)
<1> DEFINE q == RT!Request(f)
           h == RT!BuildRateHandoff(f)
<1>1. /\ f.route \in {0, 1, 2} /\ f.estimate \in {0, 1, 2} /\ f.value \in {0, 1, 2} /\ f.amount \in {0, 1, 2}
      /\ f.blind \in BOOLEAN /\ f.door \in BOOLEAN /\ f.risk \in BOOLEAN /\ f.cod \in BOOLEAN /\ f.boxes \in Seq(RtBoxes)
      /\ Len(f.boxes) \in 1 .. 2 /\ Cargo \in BOOLEAN /\ (~Cargo => ~f.door /\ ~f.blind /\ ~f.risk)
  BY DEF RtForm, RtForms, RtConstants
<1>2. q = [route |-> f.route, boxes |-> IF f.blind THEN <<>> ELSE f.boxes, blind |-> Cargo /\ f.blind,
           estimate |-> IF f.blind THEN f.estimate ELSE 0, door |-> Cargo /\ f.door, risk |-> Cargo /\ f.risk,
           value |-> f.value, cod |-> f.cod, amount |-> IF f.cod THEN f.amount ELSE 0]
  BY DEF RT!Request, RT!QuoteRequest
<1>3. q.blind = (Cargo /\ f.blind) /\ q.risk = (Cargo /\ f.risk) /\ q.boxes = (IF f.blind THEN <<>> ELSE f.boxes)
  BY <1>2
<1>4. ~f.blind /\ ~f.risk /\ Len(f.boxes) = 1
  BY <1>1, <1>3 DEF RT!HandedWhole
<1>5. q = [route |-> f.route, boxes |-> f.boxes, blind |-> FALSE, estimate |-> 0, door |-> f.door, risk |-> FALSE,
           value |-> f.value, cod |-> f.cod, amount |-> IF f.cod THEN f.amount ELSE 0]
  BY <1>1, <1>2, <1>4
<1>6. f.boxes[1] \in RtBoxes /\ f.boxes = <<f.boxes[1]>>
  BY <1>1, <1>4
<1>7. h = [route |-> RT!Entered(f.route), category |-> f.category, measure |-> RT!EnteredMeasure(f.boxes[1].measure),
           count |-> RT!Entered(f.boxes[1].count), cod |-> f.cod, amount |-> IF f.cod THEN RT!Entered(f.amount) ELSE None,
           value |-> RT!Entered(f.value), door |-> f.door]
  BY <1>4 DEF RT!BuildRateHandoff
<1>8. \A n \in {0, 1, 2} : RT!OrElse(RT!Entered(n), 0) = n /\ (n # 0 => RT!Entered(n) # None)
  BY DEF RT!OrElse, RT!Entered, RtConstants
<1>9. RT!OrElse(None, 0) = 0
  BY DEF RT!OrElse
<1>10. f.boxes[1].measure \in RtMeasures /\ f.boxes[1].count \in {1, 2}
       /\ f.boxes[1] = [measure |-> f.boxes[1].measure, count |-> f.boxes[1].count]
  BY <1>6 DEF RtBoxes
<1>11. RT!OrElse(RT!EnteredMeasure(f.boxes[1].measure), RT!Untyped) = f.boxes[1].measure
       /\ RT!OrElse(RT!Entered(f.boxes[1].count), 1) = f.boxes[1].count
  BY <1>10 DEF RT!OrElse, RT!Entered, RT!EnteredMeasure, RtConstants
<1>12. h.route = RT!Entered(f.route) /\ h.measure = RT!EnteredMeasure(f.boxes[1].measure) /\ h.count = RT!Entered(f.boxes[1].count)
       /\ h.cod = f.cod /\ h.amount = (IF f.cod THEN RT!Entered(f.amount) ELSE None) /\ h.value = RT!Entered(f.value) /\ h.door = f.door
  BY <1>7
<1> HIDE DEF h, q
<1>13. /\ w.route = (IF matched THEN f.route ELSE 0) /\ w.missing = (~matched /\ h.route # None)
       /\ w.boxes = <<RT!Box(RT!OrElse(h.measure, RT!Untyped), RT!OrElse(h.count, 1))>> /\ w.cod = f.cod
       /\ w.amount = RT!OrElse(h.amount, 0) /\ w.value = RT!OrElse(h.value, 0) /\ w.door = f.door
  BY <1>1, <1>8, <1>12 DEF RT!ApplyRateHandoff, h
<1>14. w.boxes = f.boxes
  BY <1>6, <1>10, <1>11, <1>12, <1>13 DEF RT!Box
<1>15. w.value = f.value /\ w.amount = (IF f.cod THEN f.amount ELSE 0)
  BY <1>1, <1>8, <1>9, <1>12, <1>13
<1>16. RT!WizardRequest(w) = [route |-> w.route, boxes |-> f.boxes, blind |-> FALSE, estimate |-> 0, door |-> f.door, risk |-> FALSE,
                              value |-> f.value, cod |-> f.cod, amount |-> IF f.cod THEN f.amount ELSE 0]
  BY <1>13, <1>14, <1>15 DEF RT!WizardRequest, RT!QuoteRequest
<1>17. RT!WizardRequest(w) = [q EXCEPT !.route = w.route] /\ RT!WizardRequest(w).route = w.route /\ q.route = f.route
  <2>1. q.route = f.route /\ RT!WizardRequest(w).route = w.route
    BY <1>5, <1>16
  <2> DEFINE opened == RT!WizardRequest(w)
             no == FALSE
  <2>2. opened = [route |-> w.route, boxes |-> f.boxes, blind |-> no, estimate |-> 0, door |-> f.door, risk |-> no,
                  value |-> f.value, cod |-> f.cod, amount |-> IF f.cod THEN f.amount ELSE 0]
    BY <1>16
  <2>3. q = [route |-> f.route, boxes |-> f.boxes, blind |-> no, estimate |-> 0, door |-> f.door, risk |-> no,
             value |-> f.value, cod |-> f.cod, amount |-> IF f.cod THEN f.amount ELSE 0]
    BY <1>5
  <2> HIDE DEF opened, no
  <2>4. opened = [q EXCEPT !.route = w.route]
    BY <2>2, <2>3
  <2> QED BY <2>1, <2>4 DEF opened
<1>18. w.route = f.route \/ w.missing
  BY <1>1, <1>8, <1>12, <1>13
<1> QED BY <1>17, <1>18 DEF q

LEMMA RtBooks ==
    ASSUME RtConstants, RtInv, NEW read \in BOOLEAN, NEW matched \in BOOLEAN, RT!BookThisShipment(read, matched)
    PROVE  RtInv'
<1>1. UNCHANGED <<form, rendered, touched, typings, calls, calcs, quote, failed, selected>>
      /\ wizard' = (IF read THEN RT!ApplyRateHandoff(RT!BuildRateHandoff(rendered), matched) ELSE RT!NotFilled)
      /\ quote # None
  BY DEF RT!BookThisShipment, RT!formVars, RT!quoteVars, RT!BookingHandoff, RT!SelectedQuote
<1>2. RtTyped' /\ RtCalls' /\ RtPage'
  <2>1. \A of : RtLast(of) => RtLast(of)'
    BY <1>1 DEF RtLast, RT!Request, RT!QuoteRequest
  <2> QED BY <1>1, <2>1 DEF RtInv, RtTyped, RtForm, RtCalls, RtPage
<1>3. RtWizard'
  <2>1. CASE ~read
    <3>1. ~wizard'.filled
      BY <1>1, <2>1 DEF RT!NotFilled, RT!ApplyRateHandoff
    <3> QED BY <3>1 DEF RtWizard, RT!ActedAsShown
  <2>2. CASE read
    <3>1. wizard' = RT!ApplyRateHandoff(RT!BuildRateHandoff(rendered), matched)
      BY <1>1, <2>2
    <3>2. wizard'.shown = quote.of /\ wizard'.untouched = ~touched
      BY <3>1 DEF RT!ApplyRateHandoff
    <3>3. ~touched => rendered = form /\ quote.of.request = RT!Request(rendered)
      BY <1>1 DEF RtInv, RtTyped, RtPage, RtLast
    <3>4. ASSUME ~touched, RT!HandedWhole(wizard'.shown.request)
          PROVE  RT!WizardRequest(wizard') = [wizard'.shown.request EXCEPT !.route = RT!WizardRequest(wizard').route]
                 /\ (RT!WizardRequest(wizard').route = wizard'.shown.request.route \/ wizard'.missing)
      <4>1. wizard'.shown.request = RT!Request(rendered)
        BY <3>2, <3>3, <3>4
      <4>2. RtForm(rendered)
        BY DEF RtInv, RtTyped
      <4> QED BY <3>1, <3>4, <4>1, <4>2, RtHanded
    <3> QED BY <3>2, <3>4 DEF RtWizard, RT!ActedAsShown, RtInv, RtTyped
  <2> QED BY <2>1, <2>2
<1> QED BY <1>2, <1>3 DEF RtInv

LEMMA RtSelects == ASSUME RtConstants, RtInv, NEW o \in Options, RT!SelectOption(o) PROVE RtInv'
<1>1. selected' = o /\ rendered' = form /\ UNCHANGED <<form, touched, typings, calls, calcs, quote, failed, wizard>>
  BY DEF RT!SelectOption
<1>2. \A of : RtLast(of) => RtLast(of)'
  BY <1>1 DEF RtLast, RT!Request, RT!QuoteRequest
<1>3. RtTyped' /\ RtCalls' /\ RtPage'
  BY <1>1, <1>2 DEF RtInv, RtTyped, RtForm, RtCalls, RtPage
<1>4. RtWizard'
  BY <1>1 DEF RtInv, RtWizard, RT!ActedAsShown
<1> QED BY <1>3, <1>4 DEF RtInv

LEMMA RtStep == RtConstants /\ RtInv /\ [RT!Next]_(RT!vars) => RtInv'
<1> SUFFICES ASSUME RtConstants, RtInv, [RT!Next]_(RT!vars) PROVE RtInv'
  OBVIOUS
<1>1. CASE RT!Next
  <2>1. CASE RT!Type
    BY <2>1, RtTypes, RtTypedIn
  <2> QED BY <1>1, <2>1, RtCalculates, RtAnswers, RtSelects, RtBooks DEF RT!Next
<1>2. CASE UNCHANGED RT!vars
  <2>1. \A of : RtLast(of) => RtLast(of)'
    BY <1>2 DEF RtLast, RT!Request, RT!QuoteRequest, RT!vars
  <2>2. RtTyped' /\ RtCalls' /\ RtPage'
    BY <1>2, <2>1 DEF RtInv, RtTyped, RtForm, RtCalls, RtPage, RT!vars
  <2>3. RtWizard'
    BY <1>2 DEF RtInv, RtWizard, RT!ActedAsShown, RT!vars
  <2> QED BY <2>2, <2>3 DEF RtInv
<1> QED BY <1>1, <1>2

\* Whatever is typed while a calculation is on its way, the prices shown are of the last one asked for; and the wizard
\* opened from prices whose inputs were not touched since asks for the same price.
THEOREM PricesAsAsked ==
    ASSUME RtConstants
    PROVE  RT!Spec => [](RT!TypeOK /\ RT!OncePerIntent /\ RT!ActedAsShown)
<1>1. RT!Init => RtInv
  BY RtInit
<1>2. RtInv /\ [RT!Next]_(RT!vars) => RtInv'
  BY RtStep
<1>3. RtInv => RT!TypeOK /\ RT!OncePerIntent /\ RT!ActedAsShown
  BY DEF RtInv, RtTyped, RtForm, RtForms, RtPage, RtLast, RtWizard, RT!TypeOK, RT!OncePerIntent
<1> QED BY <1>1, <1>2, <1>3, PTL DEF RT!Spec

\* What a person measured outlives every change of the category and of the blind pickup, and the card chosen stays
\* chosen while the answers offer it.
THEOREM MeasuresKept ==
    ASSUME RtConstants
    PROVE  RT!Spec => [][RT!KeepsTyping]_(RT!vars)
<1>1. RT!Init => RtInv
  BY RtInit
<1>2. RtInv /\ [RT!Next]_(RT!vars) => RtInv'
  BY RtStep
<1>3. RtInv /\ [RT!Next]_(RT!vars) => [RT!KeepsTyping]_(RT!vars)
  <2> SUFFICES ASSUME RtInv, RT!Next PROVE RT!KeepsTyping
    OBVIOUS
  <2>1. CASE RT!Type
    <3>1. PICK f, w : RT!TypedIn(f, w) /\ (f.category # form.category \/ f.blind # form.blind =>
                          \A i \in DOMAIN form.boxes : form.boxes[i].measure = "own" => f.boxes[i] = form.boxes[i])
      BY <2>1, RtTypes
    <3> QED BY <3>1 DEF RT!TypedIn, RT!quoteVars, RT!KeepsTyping, RT!Own
  <2>2. CASE RT!Calculate
    BY <2>2 DEF RT!Calculate, RT!OnSubmit, RT!KeepsTyping
  <2>3. CASE RT!ToggleDelivery
    <3>1. form' = [form EXCEPT !.door = ~form.door] /\ quote' = None
      BY <2>3 DEF RT!ToggleDelivery, RT!OnSubmit
    <3>2. form'.category = form.category /\ form'.blind = form.blind
      BY <3>1 DEF RtInv, RtTyped, RtForm, RtForms
    <3> QED BY <3>1, <3>2 DEF RT!KeepsTyping
  <2>4. CASE \E k \in Calls : RT!QuoteAnswered(k)
    <3>1. PICK k \in Calls : RT!QuoteAnswered(k)
      BY <2>4
    <3>2. form' = form /\ quote' = [of |-> calls[k].of, offers |-> calls[k].offers] /\ selected' \in RT!SelectionFor(calls[k].offers)
      BY <3>1 DEF RT!QuoteAnswered
    <3>3. selected \in quote'.offers => selected' = selected
      BY <3>2 DEF RT!SelectionFor, RT!DefaultSelection
    <3> QED BY <3>2, <3>3 DEF RT!KeepsTyping
  <2>5. CASE \/ \E k \in Calls : (\E offers \in SUBSET Options : RT!Quoted(k, offers)) \/ RT!CalculationFailed(k)
             \/ \E o \in Options : RT!SelectOption(o)
             \/ \E read, matched \in BOOLEAN : RT!BookThisShipment(read, matched)
    <3>1. form' = form /\ quote' = quote
      BY <2>5 DEF RT!Quoted, RT!CalculationFailed, RT!SelectOption, RT!BookThisShipment, RT!formVars, RT!quoteVars
    <3> QED BY <3>1 DEF RT!KeepsTyping
  <2> QED BY <2>1, <2>2, <2>3, <2>4, <2>5 DEF RT!Next
<1> QED BY <1>1, <1>2, <1>3, PTL DEF RT!Spec

-----------------------------------------------------------------------------
(* The form of the wizards: what is booked is what the form and the quote on    *)
(* screen showed, whatever the hidden fields still hold and whichever quotes    *)
(* are still on their way.                                                     *)

CONSTANTS Sections, MaxBoxes, MaxAsks
VARIABLES section, value, valued, eway, cod, codAmount, addShipping, category, described, blind, estimate,
    boxes, door, address, invoices, step, asked, newest, sent
SF == INSTANCE ShipmentForm

SfPayments == [cod : BOOLEAN, codAmount : SF!Amounts, addShipping : BOOLEAN, value : SF!Amounts]
SfInputs == [payment : SfPayments, packages : Seq(BOOLEAN), estimate : {None, 0, 1}, door : BOOLEAN]
SfAsks == [inputs : SfInputs, compare : BOOLEAN]
SfConstants == MaxBoxes \in Nat \ {0} /\ MaxAsks \in Nat /\ None \notin SfAsks /\ None \notin {0, 1} /\ None \notin SF!Asks

SfPage == page \in SF!Pages /\ section \in Sections
SfMoney ==
    /\ value \in SF!Amounts /\ valued \in SF!Amounts /\ codAmount \in SF!Amounts
    /\ eway \in BOOLEAN /\ cod \in BOOLEAN /\ addShipping \in BOOLEAN
    /\ (addShipping => cod) /\ (page = "reverse" => ~cod)
SfCargo ==
    /\ category \in {"none", "plain", "other"} /\ described \in BOOLEAN /\ blind \in BOOLEAN
    /\ estimate \in {None, 0, 1} /\ (blind <=> estimate # None)
    /\ boxes \in Seq(BOOLEAN) /\ Len(boxes) \in 1 .. MaxBoxes /\ (page # "b2b" => ~blind)
SfDoor == door \in BOOLEAN /\ (page # "b2b" => ~door)
SfPapers == address \in [SF!Ends -> {"none", "saved", "typed"}] /\ invoices \in {"none", "blank", "given"}
SfForm == SfPage /\ SfMoney /\ SfCargo /\ SfDoor /\ SfPapers

\* What the form holds now, as the quote and the booking of its page take it.
SfCurrent == IF page = "b2b" THEN SF!B2BInputs(door) ELSE IF page = "forward" THEN SF!ForwardInputs ELSE SF!ReverseInputs
\* The e-way bill is given where it has to be.
SfEway == page # "reverse" /\ value >= 2 => eway
SfAsked ==
    /\ asked \in [SF!Asks -> SfAsks \cup {None}] /\ newest \in SF!Asks \cup {None} /\ step \in {0, 1, 2}
    /\ (quote # None /\ quote.newest) => newest \in SF!Asks /\ asked[newest] = None
\* On the step of the rates: the quotes asked for last are for what the form holds, and an e-way bill that
\* is missing is found by the one that is still on its way.
SfRates ==
    step = 1 =>
        /\ newest \in SF!Asks /\ (asked[newest] # None => asked[newest].inputs = SfCurrent)
        /\ (quote # None /\ quote.newest) => quote.inputs = SfCurrent
        /\ blind => estimate = 1
        /\ SfEway \/ (asked[newest] # None /\ asked[newest].compare)
SfSent == SF!ActedAsShown
SfInv == SfForm /\ SfAsked /\ SfRates /\ SfSent

-----------------------------------------------------------------------------
LEMMA SfAmounts == SF!Amounts = {0, 1, 2}
BY DEF SF!Amounts

\* What the form holds is of the kind a quote is asked for.
LEMMA SfCurrentIs ==
    ASSUME SfConstants, SfForm
    PROVE  SfCurrent \in SfInputs /\ SfCurrent.payment.value = value
<1> DEFINE pay == SF!PaymentInputs(codAmount)
<1>1. pay = [cod |-> cod, codAmount |-> IF cod THEN codAmount ELSE 0, addShipping |-> cod /\ addShipping, value |-> value]
  BY DEF SF!PaymentInputs
<1>2. pay \in SfPayments /\ pay.value = value
  <2>1. (IF cod THEN codAmount ELSE 0) \in SF!Amounts /\ cod \in BOOLEAN /\ (cod /\ addShipping) \in BOOLEAN /\ value \in SF!Amounts
    BY SfAmounts DEF SfForm, SfMoney
  <2> QED BY <1>1, <2>1 DEF SfPayments
<1>3. boxes \in Seq(BOOLEAN) /\ <<>> \in Seq(BOOLEAN) /\ blind \in BOOLEAN /\ door \in BOOLEAN /\ estimate \in {None, 0, 1}
  BY DEF SfForm, SfCargo, SfDoor
<1> HIDE DEF pay
<1>4. CASE page = "b2b"
  <2>1. SfCurrent = [payment |-> pay, packages |-> SF!PackagesFor(boxes), estimate |-> IF blind THEN estimate ELSE None, door |-> door]
    BY <1>4 DEF SfCurrent, SF!B2BInputs, pay
  <2>2. SF!PackagesFor(boxes) \in Seq(BOOLEAN) /\ (IF blind THEN estimate ELSE None) \in {None, 0, 1}
    BY <1>3 DEF SF!PackagesFor
  <2> QED BY <1>2, <1>3, <2>1, <2>2 DEF SfInputs
<1>5. CASE page = "forward"
  <2>1. SfCurrent = [payment |-> pay, packages |-> boxes, estimate |-> None, door |-> FALSE]
    BY <1>5 DEF SfCurrent, SF!ForwardInputs, pay
  <2> QED BY <1>2, <1>3, <2>1 DEF SfInputs
<1>6. CASE page = "reverse"
  <2>1. SfCurrent = [[payment |-> pay, packages |-> boxes, estimate |-> None, door |-> FALSE] EXCEPT !.payment.cod = FALSE]
    BY <1>6 DEF SfCurrent, SF!ReverseInputs, SF!ForwardInputs, pay
  <2>2. [pay EXCEPT !.cod = FALSE] \in SfPayments /\ [pay EXCEPT !.cod = FALSE].value = value
    BY <1>2 DEF SfPayments
  <2>3. SfCurrent = [payment |-> [pay EXCEPT !.cod = FALSE], packages |-> boxes, estimate |-> None, door |-> FALSE]
    BY <2>1
  <2> QED BY <1>3, <2>2, <2>3 DEF SfInputs
<1> QED BY <1>4, <1>5, <1>6 DEF SfForm, SfPage, SF!Pages

\* What is sent of it collects nothing unless cash is collected, and is measured or estimated.
LEMMA SfCurrentSays ==
    ASSUME SfConstants, SfForm, blind => estimate = 1
    PROVE  /\ ~SfCurrent.payment.cod => SfCurrent.payment.codAmount = 0 /\ ~SfCurrent.payment.addShipping
           /\ IF blind THEN SfCurrent.packages = <<>> /\ SfCurrent.estimate = 1
              ELSE SfCurrent.packages # <<>> /\ SfCurrent.estimate = None
<1> DEFINE pay == SF!PaymentInputs(codAmount)
<1>1. pay.cod = cod /\ pay.codAmount = (IF cod THEN codAmount ELSE 0) /\ pay.addShipping = (cod /\ addShipping)
      /\ pay = [cod |-> cod, codAmount |-> IF cod THEN codAmount ELSE 0, addShipping |-> cod /\ addShipping, value |-> value]
  BY DEF SF!PaymentInputs
<1>2. boxes # <<>> /\ blind \in BOOLEAN /\ cod \in BOOLEAN
  BY DEF SfForm, SfCargo, SfMoney
<1>3. CASE page = "b2b"
  <2>1. SfCurrent = [payment |-> pay, packages |-> IF blind THEN <<>> ELSE boxes, estimate |-> IF blind THEN estimate ELSE None, door |-> door]
    BY <1>3 DEF SfCurrent, SF!B2BInputs, SF!PackagesFor
  <2> HIDE DEF pay
  <2> QED BY <1>1, <1>2, <2>1
<1>4. ASSUME page # "b2b" PROVE ~blind /\ (page = "reverse" => ~cod)
  BY <1>4 DEF SfForm, SfCargo, SfMoney
<1>5. CASE page = "forward"
  <2>1. SfCurrent = [payment |-> pay, packages |-> boxes, estimate |-> None, door |-> FALSE]
    BY <1>5 DEF SfCurrent, SF!ForwardInputs
  <2> HIDE DEF pay
  <2> QED BY <1>1, <1>2, <1>4, <1>5, <2>1
<1>6. CASE page = "reverse"
  <2>1. SfCurrent = [[payment |-> pay, packages |-> boxes, estimate |-> None, door |-> FALSE] EXCEPT !.payment.cod = FALSE]
    BY <1>6 DEF SfCurrent, SF!ReverseInputs, SF!ForwardInputs
  <2>2. [pay EXCEPT !.cod = FALSE].codAmount = 0 /\ ~[pay EXCEPT !.cod = FALSE].addShipping
    BY <1>1, <1>4, <1>6
  <2> HIDE DEF pay
  <2>3. SfCurrent.payment = [pay EXCEPT !.cod = FALSE] /\ SfCurrent.packages = boxes /\ SfCurrent.estimate = None
    BY <2>1
  <2> QED BY <1>2, <1>4, <1>6, <2>2, <2>3
<1> QED BY <1>3, <1>5, <1>6 DEF SfForm, SfPage, SF!Pages

LEMMA SfInit == SfConstants /\ SF!Init => SfInv
<1> SUFFICES ASSUME SfConstants, SF!Init PROVE SfInv
  OBVIOUS
<1>1. SfPage /\ SfMoney /\ SfDoor /\ SfPapers
  BY SfAmounts DEF SF!Init, SfPage, SfMoney, SfDoor, SfPapers, SF!Ends
<1>2. SfCargo
  <2>1. \A b \in BOOLEAN : <<b>> \in Seq(BOOLEAN) /\ Len(<<b>>) = 1
    OBVIOUS
  <2>2. boxes \in Seq(BOOLEAN) /\ Len(boxes) = 1
    BY <2>1 DEF SF!Init, SF!Filled
  <2>3. category \in {"none", "plain", "other"} /\ ~described /\ ~blind /\ described \in BOOLEAN /\ blind \in BOOLEAN /\ estimate = None
    BY DEF SF!Init
  <2>4. 1 \in 1 .. MaxBoxes
    BY DEF SfConstants
  <2> QED BY <2>2, <2>3, <2>4 DEF SfCargo
<1>3. SfAsked /\ SfRates /\ SfSent
  BY DEF SF!Init, SfAsked, SfRates, SfSent, SF!ActedAsShown, SF!PrepaidCollectsNothing, SF!BlindOrMeasured, SF!QuotedAsBooked, SF!EwayBillGiven
<1> QED BY <1>1, <1>2, <1>3 DEF SfInv, SfForm

\* An edit of the form on its step.
LEMMA SfEdits ==
    ASSUME SfInv, step = 0, UNCHANGED <<page, section>>, UNCHANGED SF!flowVars, SfMoney', SfCargo', SfDoor', SfPapers'
    PROVE  SfInv'
<1>1. SfPage'
  BY DEF SfInv, SfForm, SfPage
<1>2. SfAsked' /\ SfRates'
  BY DEF SfInv, SfAsked, SfRates, SF!flowVars
<1>3. SfSent'
  BY DEF SfInv, SfSent, SF!flowVars, SF!ActedAsShown, SF!PrepaidCollectsNothing, SF!BlindOrMeasured, SF!QuotedAsBooked, SF!EwayBillGiven
<1> QED BY <1>1, <1>2, <1>3 DEF SfInv, SfForm

SfEditsMoney ==
    \/ \E v \in SF!Amounts : SF!TypeValue(v) \/ SF!TypeCodAmount(v)
    \/ SF!Valuation \/ SF!TypeEwayBill \/ SF!ToggleCod \/ SF!ToggleB2BCod \/ SF!TickAddShipping
SfEditsCargo ==
    \/ \E c \in {"plain", "other"} : SF!ChooseCategory(c)
    \/ SF!Describe \/ SF!ToggleBlind \/ SF!AddBox
    \/ \E n \in {0, 1} : SF!TypeEstimate(n)
    \/ \E i \in 1 .. MaxBoxes : SF!MeasureBox(i) \/ SF!RemoveBox(i)
SfEditsPapers ==
    \/ \E e \in SF!Ends, how \in {"none", "saved", "typed"} : SF!SetAddress(e, how)
    \/ \E i \in {"none", "blank", "given"} : SF!SetInvoices(i)

LEMMA SfMoneyEdited == ASSUME SfConstants, SfInv, SfEditsMoney PROVE SfInv'
<1>1. step = 0 /\ UNCHANGED <<page, section>> /\ UNCHANGED SF!flowVars /\ UNCHANGED SF!cargoVars /\ UNCHANGED door /\ UNCHANGED SF!paperVars
  BY DEF SfEditsMoney, SF!TypeValue, SF!TypeCodAmount, SF!Valuation, SF!TypeEwayBill, SF!ToggleCod, SF!ToggleB2BCod, SF!TickAddShipping, SF!Editing
<1>2. SfMoney'
  <2>1. 0 \in SF!Amounts
    BY SfAmounts
  <2>2. SfMoney
    BY DEF SfInv, SfForm
  <2>3. CASE \E v \in SF!Amounts : SF!TypeValue(v) \/ SF!TypeCodAmount(v)
    BY <2>2, <2>3 DEF SfMoney, SF!TypeValue, SF!TypeCodAmount
  <2>4. CASE SF!Valuation
    BY <2>2, <2>4 DEF SfMoney, SF!Valuation
  <2>6. CASE SF!TypeEwayBill
    <3>1. eway' = ~eway /\ UNCHANGED <<page, value, valued, cod, codAmount, addShipping>>
      BY <2>6 DEF SF!TypeEwayBill
    <3> QED BY <2>2, <3>1 DEF SfMoney
  <2>5. CASE SF!ToggleCod \/ SF!ToggleB2BCod \/ SF!TickAddShipping
    BY <2>1, <2>2, <2>5 DEF SfMoney, SF!ToggleCod, SF!ToggleB2BCod, SF!TickAddShipping
  <2> QED BY <2>3, <2>4, <2>5, <2>6 DEF SfEditsMoney
<1>3. SfCargo' /\ SfDoor' /\ SfPapers'
  BY <1>1 DEF SfInv, SfForm, SfCargo, SfDoor, SfPapers, SF!cargoVars, SF!paperVars
<1> QED BY <1>1, <1>2, <1>3, SfEdits

LEMMA SfCargoEdited == ASSUME SfConstants, SfInv, SfEditsCargo PROVE SfInv'
<1>1. step = 0 /\ UNCHANGED <<page, section>> /\ UNCHANGED SF!flowVars /\ UNCHANGED SF!moneyVars /\ UNCHANGED door /\ UNCHANGED SF!paperVars
  BY DEF SfEditsCargo, SF!ChooseCategory, SF!Describe, SF!ToggleBlind, SF!AddBox, SF!TypeEstimate, SF!MeasureBox, SF!RemoveBox, SF!Editing
<1>2. SfCargo'
  <2>1. SfCargo /\ None \notin {0, 1} /\ MaxBoxes \in Nat \ {0}
    BY DEF SfInv, SfForm, SfConstants
  <2>2. CASE \E c \in {"plain", "other"} : SF!ChooseCategory(c)
    BY <2>1, <2>2 DEF SfCargo, SF!ChooseCategory
  <2>3. CASE SF!Describe
    BY <2>1, <2>3 DEF SfCargo, SF!Describe
  <2>9. CASE SF!ToggleBlind
    <3>1. page = "b2b" /\ blind' = ~blind /\ estimate' = (IF blind THEN None ELSE 1) /\ UNCHANGED <<page, category, described, boxes>>
      BY <2>9 DEF SF!ToggleBlind
    <3> QED BY <2>1, <3>1 DEF SfCargo
  <2>4. CASE \E n \in {0, 1} : SF!TypeEstimate(n)
    BY <2>1, <2>4 DEF SfCargo, SF!TypeEstimate
  <2>5. ASSUME boxes' \in Seq(BOOLEAN), Len(boxes') \in 1 .. MaxBoxes, UNCHANGED <<page, category, described, blind, estimate>>
        PROVE  SfCargo'
    BY <2>1, <2>5 DEF SfCargo
  <2>6. CASE SF!AddBox
    <3>1. boxes' = Append(boxes, page = "reverse") /\ Len(boxes) < MaxBoxes /\ UNCHANGED <<page, category, described, blind, estimate>>
      BY <2>6 DEF SF!AddBox
    <3>2. (page = "reverse") \in BOOLEAN
      OBVIOUS
    <3> QED BY <2>1, <2>5, <3>1, <3>2 DEF SfCargo
  <2>7. CASE \E i \in 1 .. MaxBoxes : SF!MeasureBox(i)
    <3>1. PICK i \in 1 .. MaxBoxes : SF!MeasureBox(i)
      BY <2>7
    <3>2. i \in DOMAIN boxes /\ boxes' = [boxes EXCEPT ![i] = ~boxes[i]] /\ UNCHANGED <<page, category, described, blind, estimate>>
      BY <3>1 DEF SF!MeasureBox
    <3>3. boxes' \in Seq(BOOLEAN) /\ Len(boxes') = Len(boxes)
      BY <2>1, <3>2 DEF SfCargo
    <3> QED BY <2>1, <2>5, <3>2, <3>3 DEF SfCargo
  <2>8. CASE \E i \in 1 .. MaxBoxes : SF!RemoveBox(i)
    <3>1. PICK i \in 1 .. MaxBoxes : SF!RemoveBox(i)
      BY <2>8
    <3>2. /\ i \in DOMAIN boxes /\ Len(boxes) > 1 /\ boxes' = SubSeq(boxes, 1, i - 1) \o SubSeq(boxes, i + 1, Len(boxes))
          /\ UNCHANGED <<page, category, described, blind, estimate>>
      BY <3>1 DEF SF!RemoveBox
    <3>3. boxes \in Seq(BOOLEAN) /\ i \in 1 .. Len(boxes)
      BY <2>1, <3>2 DEF SfCargo
    <3>4. SubSeq(boxes, 1, i - 1) \in Seq(BOOLEAN) /\ Len(SubSeq(boxes, 1, i - 1)) = i - 1
      BY <3>3
    <3>5. SubSeq(boxes, i + 1, Len(boxes)) \in Seq(BOOLEAN) /\ Len(SubSeq(boxes, i + 1, Len(boxes))) = Len(boxes) - i
      BY <3>3
    <3>6. ASSUME NEW s \in Seq(BOOLEAN), NEW t \in Seq(BOOLEAN) PROVE s \o t \in Seq(BOOLEAN) /\ Len(s \o t) = Len(s) + Len(t)
      OBVIOUS
    <3>7. Len(boxes) \in Nat /\ i \in Nat /\ i - 1 + (Len(boxes) - i) = Len(boxes) - 1
      BY <3>3
    <3>8. boxes' \in Seq(BOOLEAN) /\ Len(boxes') = Len(boxes) - 1
      BY <3>2, <3>4, <3>5, <3>6, <3>7
    <3>9. Len(boxes') \in 1 .. MaxBoxes
      <4>1. Len(boxes) \in 1 .. MaxBoxes /\ MaxBoxes \in Nat
        BY <2>1 DEF SfCargo
      <4>2. Len(boxes') = Len(boxes) - 1 /\ Len(boxes) > 1
        BY <3>2, <3>8
      <4>3. \A n \in 1 .. MaxBoxes : n > 1 => n - 1 \in 1 .. MaxBoxes
        BY <4>1
      <4> QED BY <4>1, <4>2, <4>3, Zenon
    <3> QED BY <2>5, <3>2, <3>8, <3>9
  <2> QED BY <2>2, <2>3, <2>4, <2>6, <2>7, <2>8, <2>9 DEF SfEditsCargo
<1>3. SfMoney' /\ SfDoor' /\ SfPapers'
  BY <1>1 DEF SfInv, SfForm, SfMoney, SfDoor, SfPapers, SF!moneyVars, SF!paperVars
<1> QED BY <1>1, <1>2, <1>3, SfEdits

LEMMA SfPapersEdited == ASSUME SfConstants, SfInv, SfEditsPapers PROVE SfInv'
<1>1. step = 0 /\ UNCHANGED <<page, section>> /\ UNCHANGED SF!flowVars /\ UNCHANGED SF!moneyVars /\ UNCHANGED door /\ UNCHANGED SF!cargoVars
  BY DEF SfEditsPapers, SF!SetAddress, SF!SetInvoices, SF!Editing
<1>2. SfPapers'
  BY DEF SfInv, SfForm, SfPapers, SfEditsPapers, SF!SetAddress, SF!SetInvoices
<1>3. SfMoney' /\ SfDoor' /\ SfCargo'
  BY <1>1 DEF SfInv, SfForm, SfMoney, SfDoor, SfCargo, SF!moneyVars, SF!cargoVars
<1> QED BY <1>1, <1>2, <1>3, SfEdits

-----------------------------------------------------------------------------
(* The quotes.                                                                  *)

\* A quote is asked for.
LEMMA SfAsks1 ==
    ASSUME SfConstants, SfInv, SfForm', NEW d, SF!Ask(SfCurrent', d), step' = 1, UNCHANGED <<page, sent>>,
           blind' => estimate' = 1, SfEway' \/ d = door
    PROVE  SfInv'
<1> DEFINE ask == [inputs |-> SfCurrent', compare |-> d = door]
<1>1. PICK a \in SF!Asks : asked' = [asked EXCEPT ![a] = ask] /\ newest' = a /\ quote' = None
  BY DEF SF!Ask
<1>2. SfCurrent' \in SfInputs
  <2>1. (SfConstants /\ SfForm => SfCurrent \in SfInputs)'
    BY SfCurrentIs, PTL
  <2> QED BY <2>1 DEF SfConstants
<1>3. ask \in SfAsks /\ ask.inputs = SfCurrent' /\ ask.compare = (d = door)
  BY <1>2 DEF SfAsks
<1> HIDE DEF ask
<1>4. asked' \in [SF!Asks -> SfAsks \cup {None}] /\ asked'[a] = ask
  BY <1>1, <1>3 DEF SfInv, SfAsked
<1>5. ask # None
  BY <1>3 DEF SfConstants
<1>6. SfAsked'
  BY <1>1, <1>4 DEF SfAsked
<1>7. SfRates'
  BY <1>1, <1>3, <1>4, <1>5 DEF SfRates
<1>8. SfSent'
  BY DEF SfInv, SfSent, SF!ActedAsShown, SF!PrepaidCollectsNothing, SF!BlindOrMeasured, SF!QuotedAsBooked, SF!EwayBillGiven
<1> QED BY <1>6, <1>7, <1>8 DEF SfInv

LEMMA SfCompares ==
    ASSUME SfConstants, SfInv, SF!CompareForward \/ SF!CompareReverse \/ SF!CompareB2B
    PROVE  SfInv'
<1>1. UNCHANGED <<page, section>> /\ UNCHANGED SF!moneyVars /\ UNCHANGED SF!cargoVars /\ UNCHANGED door /\ UNCHANGED SF!paperVars /\ UNCHANGED sent
      /\ step' = 1
  BY DEF SF!CompareForward, SF!CompareReverse, SF!CompareB2B
<1>2. SfForm'
  BY <1>1 DEF SfInv, SfForm, SfPage, SfMoney, SfCargo, SfDoor, SfPapers, SF!moneyVars, SF!cargoVars, SF!paperVars
<1>3. SfCurrent' = SfCurrent
  BY <1>1 DEF SfCurrent, SF!B2BInputs, SF!ForwardInputs, SF!ReverseInputs, SF!PaymentInputs, SF!PackagesFor, SF!moneyVars, SF!cargoVars
<1>4. SF!Ask(SfCurrent, door)
  BY DEF SF!CompareForward, SF!CompareReverse, SF!CompareB2B, SfCurrent
<1>5. blind => estimate = 1
  BY DEF SF!CompareForward, SF!CompareReverse, SF!CompareB2B, SF!B2BRules, SfInv, SfForm, SfCargo
<1>6. SF!Ask(SfCurrent', door)
  BY <1>3, <1>4
<1> QED BY <1>1, <1>2, <1>5, <1>6, SfAsks1 DEF SF!cargoVars

LEMMA SfToggles == ASSUME SfConstants, SfInv, SF!ToggleDoor PROVE SfInv'
<1>1. UNCHANGED <<page, section>> /\ UNCHANGED SF!moneyVars /\ UNCHANGED SF!cargoVars /\ UNCHANGED SF!paperVars /\ UNCHANGED sent
      /\ step = 1 /\ step' = 1 /\ page = "b2b" /\ door' = ~door /\ ~SF!Quoting /\ SF!Ask(SF!B2BInputs(~door), ~door)
  BY DEF SF!ToggleDoor
<1>2. SfForm'
  BY <1>1 DEF SfInv, SfForm, SfPage, SfMoney, SfCargo, SfDoor, SfPapers, SF!moneyVars, SF!cargoVars, SF!paperVars
<1>3. SfCurrent' = SF!B2BInputs(~door)
  BY <1>1 DEF SfCurrent, SF!B2BInputs, SF!PaymentInputs, SF!PackagesFor, SF!moneyVars, SF!cargoVars
<1>4. blind => estimate = 1
  BY <1>1 DEF SfInv, SfRates
<1>5. SfEway
  BY <1>1 DEF SfInv, SfRates, SF!Quoting
<1>6. SF!Ask(SfCurrent', ~door) /\ SfEway'
  BY <1>1, <1>3, <1>5 DEF SfEway, SF!moneyVars
<1> QED BY <1>1, <1>2, <1>4, <1>6, SfAsks1 DEF SF!cargoVars

LEMMA SfAnswers ==
    ASSUME SfConstants, SfInv, NEW a \in SF!Asks, SF!QuoteAnswered(a) \/ SF!QuoteFailed(a)
    PROVE  SfInv'
<1>1. UNCHANGED <<page, section, value, eway, cod, codAmount, addShipping, newest, sent>> /\ UNCHANGED SF!cargoVars /\ UNCHANGED door
      /\ UNCHANGED SF!paperVars /\ asked[a] # None /\ asked' = [asked EXCEPT ![a] = None] /\ step < 2
  BY DEF SF!QuoteAnswered, SF!QuoteFailed, SF!moneyVars
<1>2. asked[a] \in SfAsks /\ asked' \in [SF!Asks -> SfAsks \cup {None}] /\ (\A b \in SF!Asks : asked'[b] = IF b = a THEN None ELSE asked[b])
  BY <1>1 DEF SfInv, SfAsked
<1>3. asked[a].inputs \in SfInputs /\ asked[a].compare \in BOOLEAN
  BY <1>2 DEF SfAsks
<1>4. asked[a].inputs.payment.value \in SF!Amounts
  BY <1>3 DEF SfInputs, SfPayments
<1>5. valued' \in SF!Amounts
  BY <1>4 DEF SF!QuoteAnswered, SF!QuoteFailed, SfInv, SfForm, SfMoney, SF!moneyVars
<1>6. SfForm'
  BY <1>1, <1>5 DEF SfInv, SfForm, SfPage, SfMoney, SfCargo, SfDoor, SfPapers, SF!cargoVars, SF!paperVars
<1>7. SfCurrent' = SfCurrent
  BY <1>1 DEF SfCurrent, SF!B2BInputs, SF!ForwardInputs, SF!ReverseInputs, SF!PaymentInputs, SF!PackagesFor, SF!cargoVars
<1>8. SfSent'
  BY <1>1 DEF SfInv, SfSent, SF!ActedAsShown, SF!PrepaidCollectsNothing, SF!BlindOrMeasured, SF!QuotedAsBooked, SF!EwayBillGiven
<1>9. step' \in {0, 1, 2} /\ (step' = 1 => step = 1)
  BY DEF SF!QuoteAnswered, SF!QuoteFailed, SfInv, SfAsked
<1>10. CASE SF!QuoteAnswered(a)
  <2>1. quote' = [inputs |-> asked[a].inputs, newest |-> a = newest] /\ (step' = 1 => ~SF!SentBack(a))
    BY <1>10 DEF SF!QuoteAnswered
  <2>2. quote'.inputs = asked[a].inputs /\ quote'.newest = (a = newest)
    BY <2>1
  <2>3. SfAsked'
    BY <1>1, <1>2, <1>9, <2>2 DEF SfInv, SfAsked
  <2>4. SfRates'
    <3> SUFFICES ASSUME step' = 1 PROVE SfRates'
      BY DEF SfRates
    <3>1. step = 1 /\ SfRates
      BY <1>9 DEF SfInv
    <3>2. newest \in SF!Asks /\ (asked'[newest] # None => asked'[newest].inputs = SfCurrent) /\ (quote'.newest => quote'.inputs = SfCurrent)
      BY <1>1, <1>2, <2>2, <3>1 DEF SfRates
    <3>3. SfEway \/ (asked'[newest] # None /\ asked'[newest].compare)
      <4>1. CASE a = newest /\ ~SfEway
        <5>1. asked[a].compare /\ asked[a].inputs = SfCurrent
          BY <1>1, <3>1, <4>1 DEF SfRates
        <5>2. asked[a].inputs.payment.value = value
          BY <5>1, SfCurrentIs DEF SfInv
        <5> QED BY <2>1, <4>1, <5>1, <5>2 DEF SF!SentBack, SF!Threshold, SfEway
      <4>2. CASE a # newest
        BY <1>2, <3>1, <3>2, <4>2 DEF SfRates
      <4> QED BY <4>1, <4>2
    <3> QED BY <1>1, <1>7, <3>1, <3>2, <3>3 DEF SfRates, SfEway, SF!cargoVars
  <2> QED BY <1>6, <1>8, <2>3, <2>4 DEF SfInv
<1>11. CASE SF!QuoteFailed(a)
  <2>1. quote' = quote /\ (step' = 1 => ~asked[a].compare)
    BY <1>11 DEF SF!QuoteFailed
  <2>2. SfAsked'
    BY <1>1, <1>2, <1>9, <2>1 DEF SfInv, SfAsked
  <2>3. SfRates'
    <3> SUFFICES ASSUME step' = 1 PROVE SfRates'
      BY DEF SfRates
    <3>1. step = 1 /\ SfRates
      BY <1>9 DEF SfInv
    <3>2. newest \in SF!Asks /\ (asked'[newest] # None => asked'[newest].inputs = SfCurrent)
      BY <1>1, <1>2, <3>1 DEF SfRates
    <3>3. SfEway \/ (asked'[newest] # None /\ asked'[newest].compare)
      BY <1>1, <1>2, <2>1, <3>1, <3>2 DEF SfRates
    <3> QED BY <1>1, <1>7, <2>1, <3>1, <3>2, <3>3 DEF SfRates, SfEway, SF!cargoVars
  <2> QED BY <1>6, <1>8, <2>2, <2>3 DEF SfInv
<1> QED BY <1>10, <1>11

LEMMA SfBack == ASSUME SfInv, SF!Back PROVE SfInv'
<1>1. UNCHANGED <<page, section>> /\ UNCHANGED SF!moneyVars /\ UNCHANGED SF!cargoVars /\ UNCHANGED door /\ UNCHANGED SF!paperVars
      /\ UNCHANGED <<asked, newest, quote, sent>> /\ step' = 0
  BY DEF SF!Back
<1>2. SfForm'
  BY <1>1 DEF SfInv, SfForm, SfPage, SfMoney, SfCargo, SfDoor, SfPapers, SF!moneyVars, SF!cargoVars, SF!paperVars
<1>3. SfAsked' /\ SfRates'
  BY <1>1 DEF SfInv, SfAsked, SfRates
<1>4. SfSent'
  BY <1>1 DEF SfInv, SfSent, SF!ActedAsShown, SF!PrepaidCollectsNothing, SF!BlindOrMeasured, SF!QuotedAsBooked, SF!EwayBillGiven
<1> QED BY <1>2, <1>3, <1>4 DEF SfInv

LEMMA SfBooks ==
    ASSUME SfConstants, SfInv, SF!BookForward \/ SF!BookReverse \/ SF!BookB2B
    PROVE  SfInv'
<1>1. UNCHANGED <<page, section>> /\ UNCHANGED SF!moneyVars /\ UNCHANGED SF!cargoVars /\ UNCHANGED door /\ UNCHANGED SF!paperVars
      /\ UNCHANGED <<asked, newest, quote>> /\ step = 1 /\ step' = 2 /\ quote # None
  BY DEF SF!BookForward, SF!BookReverse, SF!BookB2B, SF!Book
<1>2. sent' = [inputs |-> SfCurrent, blind |-> blind, eway |-> eway, quoted |-> quote.inputs, newest |-> quote.newest]
  BY DEF SF!BookForward, SF!BookReverse, SF!BookB2B, SF!Book, SfCurrent
<1>3. SfForm'
  BY <1>1 DEF SfInv, SfForm, SfPage, SfMoney, SfCargo, SfDoor, SfPapers, SF!moneyVars, SF!cargoVars, SF!paperVars
<1>4. SfAsked' /\ SfRates'
  BY <1>1 DEF SfInv, SfAsked, SfRates
<1>5. SfSent'
  <2>1. sent'.inputs = SfCurrent /\ sent'.blind = blind /\ sent'.eway = eway /\ sent'.quoted = quote.inputs /\ sent'.newest = quote.newest
    BY <1>2
  <2>2. blind => estimate = 1
    BY <1>1 DEF SfInv, SfRates
  <2>3. SF!PrepaidCollectsNothing' /\ SF!BlindOrMeasured'
    BY <2>1, <2>2, SfCurrentSays DEF SfInv, SF!PrepaidCollectsNothing, SF!BlindOrMeasured
  <2>4. quote.newest => quote.inputs = SfCurrent /\ SfEway
    BY <1>1 DEF SfInv, SfRates, SfAsked
  <2>5. SF!QuotedAsBooked' /\ SF!EwayBillGiven'
    <3>1. SfCurrent.payment.value = value
      BY SfCurrentIs DEF SfInv
    <3> QED BY <1>1, <2>1, <2>4, <3>1 DEF SF!QuotedAsBooked, SF!EwayBillGiven, SF!Threshold, SfEway
  <2> QED BY <2>3, <2>5 DEF SfSent, SF!ActedAsShown
<1> QED BY <1>3, <1>4, <1>5 DEF SfInv

LEMMA SfStep == SfConstants /\ SfInv /\ [SF!Next]_(SF!vars) => SfInv'
<1> SUFFICES ASSUME SfConstants, SfInv, [SF!Next]_(SF!vars) PROVE SfInv'
  OBVIOUS
<1>1. CASE SF!Next
  <2>1. \/ SfEditsMoney \/ SfEditsCargo \/ SfEditsPapers
        \/ SF!CompareForward \/ SF!CompareReverse \/ SF!CompareB2B \/ SF!ToggleDoor \/ SF!Back
        \/ SF!BookForward \/ SF!BookReverse \/ SF!BookB2B
        \/ \E a \in SF!Asks : SF!QuoteAnswered(a) \/ SF!QuoteFailed(a)
    BY <1>1, Zenon DEF SF!Next, SfEditsMoney, SfEditsCargo, SfEditsPapers
  <2> QED BY <2>1, SfMoneyEdited, SfCargoEdited, SfPapersEdited, SfCompares, SfToggles, SfBack, SfBooks, SfAnswers
<1>2. CASE UNCHANGED SF!vars
  <2>1. SfForm'
    BY <1>2 DEF SfInv, SfForm, SfPage, SfMoney, SfCargo, SfDoor, SfPapers, SF!vars, SF!moneyVars, SF!cargoVars, SF!paperVars
  <2>2. SfAsked' /\ SfSent'
    BY <1>2 DEF SfInv, SfAsked, SF!vars, SF!flowVars, SfSent, SF!ActedAsShown, SF!PrepaidCollectsNothing, SF!BlindOrMeasured,
       SF!QuotedAsBooked, SF!EwayBillGiven
  <2>3. SfCurrent' = SfCurrent
    BY <1>2 DEF SfCurrent, SF!B2BInputs, SF!ForwardInputs, SF!ReverseInputs, SF!PaymentInputs, SF!PackagesFor, SF!vars, SF!moneyVars, SF!cargoVars
  <2>4. SfRates'
    BY <1>2, <2>3 DEF SfInv, SfRates, SfEway, SF!vars, SF!moneyVars, SF!cargoVars, SF!flowVars
  <2> QED BY <2>1, <2>2, <2>4 DEF SfInv
<1> QED BY <1>1, <1>2

\* Whatever was chosen, hidden and chosen again, and in whichever order the quotes answer: what is booked collects
\* nothing unless cash is to be collected, is measured or estimated as the form says, is what the newest quote was
\* priced for, and has the e-way bill its value asks for.
THEOREM BookedAsShown ==
    ASSUME SfConstants
    PROVE  SF!Spec => [](SF!TypeOK /\ SF!ActedAsShown)
<1>1. SF!Init => SfInv
  BY SfInit
<1>2. SfInv /\ [SF!Next]_(SF!vars) => SfInv'
  BY SfStep
<1>3. SfInv => SF!TypeOK /\ SF!ActedAsShown
  BY DEF SfInv, SfForm, SfPage, SfMoney, SfCargo, SfDoor, SfPapers, SfAsked, SfSent, SF!TypeOK
<1> QED BY <1>1, <1>2, <1>3, PTL DEF SF!Spec

-----------------------------------------------------------------------------
(* Pricing policies: the dialog lists exactly what a save changes in the prices *)
(* of bookings, and what it listed is what goes.                               *)

CONSTANTS Base, Values, Ways, CanEdit, Cached, MaxOthers
VARIABLES policy, others, saved, loadError, fetch, changes, save, told
PP == INSTANCE PricingPanel

PpAmounts == Values \cup {Base, None}
PpEntries == [mode : {"PERCENT", "FLAT"}, value : PpAmounts]
PpRows == [mode : {"PERCENT", "FLAT", "LANE"}, value : PpAmounts]
PpCods == [PP!Boxes -> PpAmounts]
PpPolicies == [entries : [Options -> PpEntries \cup {None}], cod : PpCods, enabled : SUBSET Options]
PpForms == [markups : [Options -> PpRows], cod : PpCods, enabled : SUBSET Options]
PpListed == Options \cup PP!Boxes \cup {"services"}
PpConstants == None \notin PpEntries /\ None \notin PpPolicies /\ Options \cap (PP!Boxes \cup {"services"}) = {}

PpFits(f) == f \in PpForms /\ \A o \in Options : f.markups[o].mode \in PP!Modes(o)
\* What a dialog was made of.
PpLists(q, p, listed) == p \in PpPolicies /\ q \in PpPolicies /\ listed = PP!DescribePolicyChanges(p, q)

PpRead ==
    /\ policy \in PpPolicies /\ saved \in PpPolicies \cup {None} /\ loadError \in BOOLEAN
    /\ fetch = [at |-> fetch.at, seen |-> fetch.seen] /\ (fetch.at = "read" => fetch.seen \in PpPolicies)
PpDialog ==
    /\ PpFits(form) /\ changes \subseteq PpListed
    /\ pending # None => PpLists(pending.policy, pending.on, changes)
PpSave ==
    /\ save = [at |-> save.at, of |-> save.of, listed |-> save.listed, on |-> save.on, seen |-> save.seen]
    /\ save.at # "idle" => PpLists(save.of, save.on, save.listed)
    /\ save.at = "answered" => save.seen \in PpPolicies
PpInv == PpRead /\ PpDialog /\ PpSave

\* The form that shows a policy.
LEMMA PpFilled == ASSUME PpConstants, NEW p \in PpPolicies PROVE PpFits(PP!PolicyToFormValues(p))
<1>1. \A o \in Options : PP!MarkupRow(o, p) \in PpRows /\ PP!MarkupRow(o, p).mode \in PP!Modes(o)
  BY DEF PpPolicies, PpEntries, PpRows, PpAmounts, PP!MarkupRow, PP!DefaultMarkupRow, PP!SupportsLaneMarkup, PP!Modes
<1> QED BY <1>1 DEF PpFits, PpForms, PpPolicies, PP!PolicyToFormValues

\* A policy is made of a form entry by entry; the mode of a lane is none.
LEMMA PpMade == ASSUME NEW p \in PpPolicies, NEW f \in PpForms PROVE PP!FormValuesToPolicy(f, p) \in PpPolicies
<1>1. \A o \in Options : PP!EntryOf(o, f.markups[o], p) \in PpEntries \cup {None}
  BY DEF PpForms, PpRows, PpEntries, PP!EntryOf
<1> QED BY <1>1 DEF PpPolicies, PpForms, PP!FormValuesToPolicy

\* What prices are made of, one by one.
LEMMA PpPriced ==
    ASSUME PpConstants, NEW p \in PpPolicies
    PROVE  /\ \A c \in PP!SetOf(p) : c = <<c[1], c[2]>>
           /\ \A x, v : <<x, v>> \in PP!SetOf(p) <=>
                  \/ x \in Options /\ v = PP!MarkupOf(p, x)
                  \/ x \in PP!Boxes /\ v = p.cod[x]
                  \/ x = "services" /\ v = p.enabled
BY DEF PP!SetOf

\* Two rows of the form follow the same rule when the prices made of them are the same.
LEMMA PpSameRule ==
    ASSUME PpConstants, NEW p \in PpPolicies, NEW q \in PpPolicies, NEW o \in Options
    PROVE  PP!SameRule(PP!MarkupRow(o, p), PP!MarkupRow(o, q)) <=> PP!MarkupOf(p, o) = PP!MarkupOf(q, o)
<1> DEFINE Rule(r) == PP!MarkupOf(r, o)
<1>1. ASSUME NEW r \in PpPolicies
      PROVE  Rule(r) \in PpEntries \cup {[mode |-> "LANE", value |-> None]} /\ PP!MarkupRow(o, r) = Rule(r)
  BY DEF PP!MarkupOf, PP!MarkupRow, PP!DefaultMarkupRow, PP!SupportsLaneMarkup, PpPolicies, PpEntries, PpAmounts
<1>2. \A a, b \in PpEntries \cup {[mode |-> "LANE", value |-> None]} : PP!SameRule(a, b) <=> a = b
  BY DEF PP!SameRule, PpEntries
<1> QED BY <1>1, <1>2

\* The dialog lists what changes the prices of bookings, and nothing else.
LEMMA PpExactly ==
    ASSUME PpConstants, NEW p \in PpPolicies, NEW q \in PpPolicies
    PROVE  PP!ReallyChanged(p, q) = PP!DescribePolicyChanges(p, q)
<1>1. \A x : x \in PP!ReallyChanged(p, q) <=> \E v : <<x, v>> \in PP!SetOf(q) /\ <<x, v>> \notin PP!SetOf(p)
  <2>1. \A c \in PP!SetOf(q) : c = <<c[1], c[2]>>
    BY PpPriced
  <2>2. \A x, v : <<x, v>>[1] = x
    OBVIOUS
  <2>3. ASSUME NEW x, NEW v, <<x, v>> \in PP!SetOf(q), <<x, v>> \notin PP!SetOf(p) PROVE x \in PP!ReallyChanged(p, q)
    <3>1. \E c \in PP!SetOf(q) \ PP!SetOf(p) : x = c[1]
      BY <2>2, <2>3
    <3> QED BY <3>1 DEF PP!ReallyChanged
  <2>4. ASSUME NEW x \in PP!ReallyChanged(p, q) PROVE \E v : <<x, v>> \in PP!SetOf(q) /\ <<x, v>> \notin PP!SetOf(p)
    <3>1. PICK c \in PP!SetOf(q) \ PP!SetOf(p) : x = c[1]
      BY DEF PP!ReallyChanged
    <3>2. c = <<x, c[2]>>
      BY <2>1, <3>1
    <3>3. <<x, c[2]>> \in PP!SetOf(q) /\ <<x, c[2]>> \notin PP!SetOf(p)
      BY <3>1, <3>2
    <3> QED BY <3>3
  <2> QED BY <2>3, <2>4
<1>2. \A x : x \in PP!ReallyChanged(p, q) <=>
          \/ x \in Options /\ PP!MarkupOf(q, x) # PP!MarkupOf(p, x)
          \/ x \in PP!Boxes /\ q.cod[x] # p.cod[x]
          \/ x = "services" /\ q.enabled # p.enabled
  <2>1. "services" \notin PP!Boxes /\ \A x \in Options : x \notin PP!Boxes /\ x # "services"
    BY DEF PpConstants, PP!Boxes
  <2>2. \A x, v : <<x, v>> \in PP!SetOf(q) <=>
            \/ x \in Options /\ v = PP!MarkupOf(q, x)
            \/ x \in PP!Boxes /\ v = q.cod[x]
            \/ x = "services" /\ v = q.enabled
    BY PpPriced
  <2>3. \A x, v : <<x, v>> \in PP!SetOf(p) <=>
            \/ x \in Options /\ v = PP!MarkupOf(p, x)
            \/ x \in PP!Boxes /\ v = p.cod[x]
            \/ x = "services" /\ v = p.enabled
    BY PpPriced
  <2> QED BY <1>1, <2>1, <2>2, <2>3
<1>3. \A x : x \in PP!DescribePolicyChanges(p, q) <=>
          \/ x \in Options /\ PP!MarkupOf(q, x) # PP!MarkupOf(p, x)
          \/ x \in PP!Boxes /\ q.cod[x] # p.cod[x]
          \/ x = "services" /\ q.enabled # p.enabled
  BY PpSameRule DEF PP!DescribePolicyChanges
<1> QED BY <1>2, <1>3

LEMMA PpInit == PpConstants /\ PP!Init => PpInv
<1> SUFFICES ASSUME PpConstants, PP!Init PROVE PpInv
  OBVIOUS
<1>1. PP!EmptyPolicy \in PpPolicies
  BY DEF PP!EmptyPolicy, PpPolicies, PpCods, PpAmounts
<1>2. \A x \in PpPolicies : [x EXCEPT !.enabled = Options] \in PpPolicies
        /\ [x EXCEPT !.entries = [o \in Options |-> [mode |-> "FLAT", value |-> Base]], !.enabled = Options] \in PpPolicies
  BY DEF PpPolicies, PpEntries, PpAmounts
<1>3. policy \in PpPolicies
  BY <1>1, <1>2 DEF PP!Init, PP!Stored
<1>4. PpFits(form)
  BY <1>1, <1>3, PpFilled DEF PP!Init
<1> QED BY <1>3, <1>4 DEF PP!Init, PpInv, PpRead, PpDialog, PpSave, PP!NotAsked, PP!NotSaving

\* Reads, and what others save.
LEMMA PpReads ==
    ASSUME PpConstants, PpInv, PP!OthersAct \/ PP!FetchAnswered \/ PP!TryAgain \/ \E a \in BOOLEAN : PP!ServeFetch(a)
    PROVE  PpInv'
<1>1. UNCHANGED <<changes, pending, save>>
  BY DEF PP!OthersAct, PP!FetchAnswered, PP!TryAgain, PP!ServeFetch, PP!dialogVars
<1>2. PpSave'
  BY <1>1 DEF PpInv, PpSave
<1>3. CASE PP!OthersAct
  <2>1. policy' \in PpPolicies
    <3>1. \A b \in PP!Boxes, v \in Values : [policy EXCEPT !.cod[b] = v] \in PpPolicies
      BY DEF PpInv, PpRead, PpPolicies, PpCods, PpAmounts
    <3>2. \A o \in Options, v \in Values : [policy EXCEPT !.entries[o] = [mode |-> "FLAT", value |-> v]] \in PpPolicies
      BY DEF PpInv, PpRead, PpPolicies, PpEntries, PpAmounts
    <3> QED BY <1>3, <3>1, <3>2 DEF PP!OthersAct
  <2>2. UNCHANGED <<saved, loadError, fetch, form>>
    BY <1>3 DEF PP!OthersAct, PP!readVars
  <2> QED BY <1>1, <1>2, <2>1, <2>2 DEF PpInv, PpRead, PpDialog
<1>4. CASE PP!FetchAnswered
  <2>1. fetch' = PP!NotAsked /\ UNCHANGED policy
    BY <1>4 DEF PP!FetchAnswered, PP!serverVars
  <2>2. \/ /\ fetch.at = "read" /\ saved' = fetch.seen /\ form' = PP!PolicyToFormValues(fetch.seen) /\ loadError' = FALSE
        \/ loadError' = (saved = None) /\ UNCHANGED <<saved, form>>
    BY <1>4 DEF PP!FetchAnswered
  <2>3. saved' \in PpPolicies \cup {None} /\ loadError' \in BOOLEAN /\ PpFits(form')
    BY <2>2, PpFilled DEF PpInv, PpRead, PpDialog
  <2> QED BY <1>1, <1>2, <2>1, <2>3 DEF PpInv, PpRead, PpDialog, PP!NotAsked
<1>5. CASE PP!TryAgain \/ \E a \in BOOLEAN : PP!ServeFetch(a)
  <2>1. /\ UNCHANGED <<policy, saved, loadError, form>>
        /\ \/ fetch' = [PP!NotAsked EXCEPT !.at = "going"] \/ fetch' = [at |-> "read", seen |-> policy]
           \/ fetch' = [fetch EXCEPT !.at = "failed"]
    BY <1>5 DEF PP!TryAgain, PP!ServeFetch, PP!serverVars
  <2> QED BY <1>1, <1>2, <2>1 DEF PpInv, PpRead, PpDialog, PP!NotAsked
<1> QED BY <1>3, <1>4, <1>5

\* Typing keeps a mode that the service has.
LEMMA PpTyped ==
    ASSUME PpConstants, PpInv,
           \/ \E o \in Options : PP!EditMarkup(o) \/ PP!ToggleOption(o)
           \/ \E b \in PP!Boxes : PP!EditCod(b)
           \/ PP!Discard
    PROVE  PpInv'
<1>1. UNCHANGED <<policy, saved, loadError, fetch, changes, pending, save>>
  BY DEF PP!EditMarkup, PP!ToggleOption, PP!EditCod, PP!Discard, PP!Typed, PP!serverVars, PP!readVars, PP!dialogVars
<1>2. PpFits(form')
  <2>1. ASSUME NEW o \in Options, PP!EditMarkup(o) PROVE PpFits(form')
    <3>1. \/ \E m \in PP!Modes(o) : form' = [form EXCEPT !.markups[o].mode = m]
          \/ \E v \in Values \cup {None} : form' = [form EXCEPT !.markups[o].value = v]
      BY <2>1 DEF PP!EditMarkup
    <3> QED BY <3>1 DEF PpInv, PpDialog, PpFits, PpForms, PpRows, PpAmounts, PP!Modes
  <2>2. ASSUME NEW o \in Options, PP!ToggleOption(o) PROVE PpFits(form')
    BY <2>2 DEF PP!ToggleOption, PpInv, PpDialog, PpFits, PpForms
  <2>3. ASSUME NEW b \in PP!Boxes, PP!EditCod(b) PROVE PpFits(form')
    BY <2>3 DEF PP!EditCod, PpInv, PpDialog, PpFits, PpForms, PpCods, PpAmounts
  <2>4. CASE PP!Discard
    BY <2>4, PpFilled DEF PP!Discard, PP!Editable, PP!PanelShown, PpInv, PpRead
  <2> QED BY <2>1, <2>2, <2>3, <2>4
<1> QED BY <1>1, <1>2 DEF PpInv, PpRead, PpDialog, PpSave

\* The dialog and the save it sends.
LEMMA PpSaved ==
    ASSUME PpConstants, PpInv,
           \/ PP!HandleValid \/ PP!CancelConfirm \/ PP!ConfirmSave \/ PP!SaveAnswered \/ PP!SaveFailed
           \/ \E a, b \in BOOLEAN : PP!ServeSave(a, b)
    PROVE  PpInv'
<1>1. CASE PP!HandleValid
  <2>1. saved \in PpPolicies /\ UNCHANGED <<policy, saved, loadError, fetch, form, save>>
    BY <1>1 DEF PP!HandleValid, PP!Editable, PP!PanelShown, PP!serverVars, PP!readVars, PpInv, PpRead
  <2> DEFINE next == PP!FormValuesToPolicy(form, saved)
  <2>2. next \in PpPolicies
    BY <2>1, PpMade DEF PpInv, PpDialog, PpFits
  <2>3. \/ UNCHANGED <<pending, changes>>
        \/ pending' = [policy |-> next, on |-> saved] /\ changes' = PP!DescribePolicyChanges(saved, next)
    BY <1>1 DEF PP!HandleValid, PP!dialogVars
  <2> HIDE DEF next
  <2>4. PP!DescribePolicyChanges(saved, next) \subseteq PpListed
    BY DEF PP!DescribePolicyChanges, PpListed
  <2> QED BY <2>1, <2>2, <2>3, <2>4 DEF PpInv, PpRead, PpDialog, PpSave, PpLists
<1>2. CASE PP!CancelConfirm
  BY <1>2 DEF PP!CancelConfirm, PP!serverVars, PP!readVars, PpInv, PpRead, PpDialog, PpSave
<1>3. CASE PP!ConfirmSave
  <2>1. UNCHANGED <<policy, saved, loadError, fetch, form, pending, changes>> /\ pending # None
        /\ save' = [PP!NotSaving EXCEPT !.at = "going", !.of = pending.policy, !.listed = changes, !.on = pending.on]
    BY <1>3 DEF PP!ConfirmSave, PP!Sent, PP!AsListed, PP!serverVars, PP!readVars, PP!dialogVars
  <2> QED BY <2>1 DEF PpInv, PpRead, PpDialog, PpSave, PP!NotSaving
<1>4. CASE \E a, b \in BOOLEAN : PP!ServeSave(a, b)
  <2>1. /\ save.at = "going" /\ policy' \in {policy, save.of} /\ UNCHANGED <<saved, loadError, fetch, form, pending, changes>>
        /\ save' = [save EXCEPT !.at = "answered", !.seen = save.of] \/ save' = [save EXCEPT !.at = "failed"]
    BY <1>4 DEF PP!ServeSave, PP!readVars, PP!dialogVars
  <2>2. save.of \in PpPolicies
    BY <2>1 DEF PpInv, PpSave, PpLists
  <2> QED BY <2>1, <2>2 DEF PpInv, PpRead, PpDialog, PpSave
<1>5. CASE PP!SaveAnswered
  <2>1. save.seen \in PpPolicies /\ save' = PP!NotSaving /\ saved' = save.seen /\ form' = PP!PolicyToFormValues(save.seen) /\ pending' = None
        /\ UNCHANGED <<policy, loadError, fetch, changes>>
    BY <1>5 DEF PP!SaveAnswered, PP!serverVars, PpInv, PpSave
  <2>2. PpFits(form')
    BY <2>1, PpFilled
  <2> QED BY <2>1, <2>2 DEF PpInv, PpRead, PpDialog, PpSave, PP!NotSaving
<1>6. CASE PP!SaveFailed
  <2>1. save' = PP!NotSaving /\ UNCHANGED <<policy, saved, loadError, fetch, form, pending, changes>>
    BY <1>6 DEF PP!SaveFailed, PP!DialogOnFailure, PP!DialogStays, PP!serverVars, PP!readVars
  <2> QED BY <2>1 DEF PpInv, PpRead, PpDialog, PpSave, PP!NotSaving
<1> QED BY <1>1, <1>2, <1>3, <1>4, <1>5, <1>6

LEMMA PpStep == PpConstants /\ PpInv /\ [PP!Next]_(PP!vars) => PpInv'
<1> SUFFICES ASSUME PpConstants, PpInv, [PP!Next]_(PP!vars) PROVE PpInv'
  OBVIOUS
<1>1. CASE UNCHANGED PP!vars
  BY <1>1 DEF PP!vars, PpInv, PpRead, PpDialog, PpSave
<1>2. CASE PP!Next
  BY <1>2, PpReads, PpTyped, PpSaved DEF PP!Next
<1> QED BY <1>1, <1>2

\* A save changes the prices of bookings in what its dialog listed and in nothing else.
THEOREM RepricedAsListed ==
    ASSUME PpConstants
    PROVE  PP!Spec => [](PP!TypeOK /\ PP!ActedAsShown)
<1>1. PpInv => PP!TypeOK
  BY DEF PpInv, PpRead, PpDialog, PpFits, PpPolicies, PpListed, PP!TypeOK
<1>2. PpConstants /\ PpInv => PP!ActedAsShown
  BY PpExactly DEF PpInv, PpSave, PpLists, PP!ActedAsShown
<1> QED BY <1>1, <1>2, PpInit, PpStep, PTL DEF PP!Spec

\* A failed save leaves the form and the dialog of the pricing policy as they were.
THEOREM PolicyTypingKept ==
    ASSUME None # "failed"
    PROVE  PP!Spec => [][PP!KeepsTyping]_(PP!vars)
<1>1. [PP!Next]_(PP!vars) => [PP!KeepsTyping]_(PP!vars)
  BY DEF PP!Next, PP!KeepsTyping, PP!OthersAct, PP!FetchAnswered, PP!TryAgain, PP!Discard, PP!HandleValid, PP!CancelConfirm, PP!ConfirmSave,
     PP!SaveAnswered, PP!SaveFailed, PP!EditMarkup, PP!ToggleOption, PP!EditCod, PP!ServeFetch, PP!ServeSave, PP!Typed,
     PP!DialogOnFailure, PP!DialogStays
<1> QED BY <1>1, PTL DEF PP!Spec

-----------------------------------------------------------------------------
(* Editing an order: only what was changed is sent, the price shown as checked *)
(* is that of the form as it stands, and the order is billed its price once.    *)

CONSTANTS Fields, Editable, Asks
VARIABLES row, stage, paid, initialValues, read, preview, asks, upload
EO == INSTANCE EditOrder

EoForms == [Fields -> EO!Values]
EoBills == [price : EO!Values, twice : {FALSE}]
EoChange(entered, base) == [f \in {g \in Fields : entered[g] # base[g]} |-> entered[f]]
EoConstants == None \notin EoForms /\ None # "going"

EoServer == row \in EoForms /\ stage \in EO!Stages /\ paid \in EoBills /\ paid.price = EO!Price(row)

\* Before the order is loaded nothing is priced and nothing saved.
EoEmpty == form = None /\ preview = EO!IdleState /\ save = None /\ asks = [m \in Asks |-> EO!NoAsk]
EoForm ==
    /\ (initialValues = None /\ EoEmpty) \/ (initialValues \in EoForms /\ form \in EoForms)
    /\ read = [at |-> read.at, row |-> read.row]
    /\ read.at = "read" => initialValues = None /\ read.row \in EoForms
    /\ read.at = "going" => initialValues = None
    /\ told \in {None, "nothing", "saved", "failed", "refused"} /\ (upload = "going" => "docs" \in Fields)

\* Every request for a price that still counts, and the price shown, are for the form as it stands.
EoAsk(a) ==
    /\ a = [of |-> a.of, at |-> a.at, price |-> a.price, rejected |-> a.rejected, cancelled |-> a.cancelled]
    /\ a.at # "idle" /\ ~a.cancelled => a.of = EO!BuildEditChange(form)
EoPreview ==
    /\ preview = [price |-> preview.price, rejected |-> preview.rejected, of |-> preview.of, loading |-> preview.loading]
    /\ preview.loading \in BOOLEAN
    /\ EO!PriceShown => preview.of = EO!BuildEditChange(form)
EoPrices == asks = [m \in Asks |-> asks[m]] /\ (\A m \in Asks : EoAsk(asks[m])) /\ EoPreview
EoSave ==
    save # None => /\ save = [of |-> save.of, base |-> save.base, typed |-> save.typed, at |-> save.at]
                   /\ save.at \in {"going", "checking", "failed", "refused", "answered"}
                   /\ save.base \in EoForms /\ save.typed \in EoForms /\ save.of = EoChange(save.typed, save.base)
EoInv == EoServer /\ EoForm /\ EoPrices /\ EoSave

LEMMA EoInit == EoConstants /\ EO!Init => EoInv
<1> SUFFICES ASSUME EoConstants, EO!Init PROVE EoInv
  OBVIOUS
<1>1. EoServer
  BY DEF EO!Init, EoServer, EoForms, EoBills, EO!Values, EO!Price
<1>2. EoForm /\ EoSave
  BY DEF EO!Init, EoForm, EoEmpty, EoSave, EoConstants
<1>3. EoPrices
  BY DEF EO!Init, EoPrices, EoAsk, EoPreview, EO!IdleState, EO!NoAsk, EO!PriceShown
<1> QED BY <1>1, <1>2, <1>3 DEF EoInv

\* A change that is written is billed with the price of the order as it is then.
LEMMA EoBilled ==
    ASSUME EoServer, NEW change, DOMAIN change \subseteq Fields, \A f \in DOMAIN change : change[f] \in EO!Values
    PROVE  /\ EO!Applied(row, change) \in EoForms
           /\ EO!Billed(change) \in EoBills /\ EO!Billed(change).price = EO!Price(EO!Applied(row, change))
<1>1. EO!Applied(row, change) \in EoForms
  BY DEF EoServer, EO!Applied, EoForms
<1>2. EO!Billed(change) \in EoBills
  BY DEF EoServer, EO!Billed, EO!BilledTo, EoBills
<1>3. EO!Billed(change).price = EO!Price(EO!Applied(row, change))
  BY DEF EoServer, EO!Billed, EO!BilledTo, EoBills, EO!Price, EO!Applied
<1> QED BY <1>1, <1>2, <1>3

\* Requests and answers that leave the form leave what they are for.
LEMMA EoSame ==
    ASSUME EoPrices, UNCHANGED <<form, initialValues, preview, asks>>
    PROVE  EoPrices'
BY DEF EoPrices, EoAsk, EoPreview, EO!PriceShown, EO!BuildEditChange, EO!ChangedOnly

\* Other people and the server: the order is never billed but its price.
LEMMA EoServed ==
    ASSUME EoConstants, EoInv,
           \/ EO!OthersAct
           \/ \E a \in BOOLEAN : EO!ServeCheck(a)
           \/ \E a, b \in BOOLEAN : EO!ServeSave(a, b)
    PROVE  EoInv'
<1>1. UNCHANGED <<initialValues, form, read, preview, asks, upload, told>>
  BY DEF EO!OthersAct, EO!ServeCheck, EO!ServeSave, EO!formVars
<1>2. EoPrices'
  BY <1>1, EoSame DEF EoInv
<1>3. CASE EO!OthersAct
  <2>1. EoServer'
    <3>1. CASE \E f \in Fields : row' = [row EXCEPT ![f] = "theirs"] /\ paid' = EO!Billed([g \in {f} |-> "theirs"]) /\ UNCHANGED stage
      <4>1. PICK f \in Fields : row' = [row EXCEPT ![f] = "theirs"] /\ paid' = EO!Billed([g \in {f} |-> "theirs"]) /\ UNCHANGED stage
        BY <3>1
      <4> DEFINE change == [g \in {f} |-> "theirs"]
      <4>2. DOMAIN change \subseteq Fields /\ (\A g \in DOMAIN change : change[g] \in EO!Values)
        BY DEF EO!Values
      <4>3. row' = EO!Applied(row, change)
        BY <4>1 DEF EoInv, EoServer, EoForms, EO!Applied
      <4>4. paid' = EO!Billed(change) /\ UNCHANGED stage
        BY <4>1
      <4> HIDE DEF change
      <4>5. row' \in EoForms /\ paid' \in EoBills /\ paid'.price = EO!Price(row')
        BY <4>2, <4>3, <4>4, EoBilled DEF EoInv
      <4> QED BY <4>4, <4>5 DEF EoInv, EoServer, EO!Price
    <3>2. CASE stage + 1 \in EO!Stages /\ stage' = stage + 1 /\ UNCHANGED <<row, paid>>
      BY <3>2 DEF EoInv, EoServer, EO!Price
    <3> QED BY <1>3, <3>1, <3>2 DEF EO!OthersAct
  <2>2. UNCHANGED save
    BY <1>3 DEF EO!OthersAct
  <2> QED BY <1>1, <1>2, <2>1, <2>2 DEF EoInv, EoForm, EoEmpty, EoSave
<1>4. CASE \E a \in BOOLEAN : EO!ServeCheck(a)
  <2>1. save # None /\ UNCHANGED <<row, stage, paid>>
        /\ (save' = [save EXCEPT !.at = "failed"] \/ save' = [save EXCEPT !.at = "going"] \/ save' = [save EXCEPT !.at = "refused"])
    BY <1>4 DEF EO!ServeCheck, EO!serverVars
  <2>2. EoServer' /\ EoSave'
    BY <2>1 DEF EoInv, EoServer, EoSave, EO!Price
  <2>3. EoForm'
    BY <1>1, <2>1 DEF EoInv, EoForm, EoEmpty
  <2> QED BY <1>2, <2>2, <2>3 DEF EoInv
<1>5. ASSUME NEW a \in BOOLEAN, NEW b \in BOOLEAN, EO!ServeSave(a, b)
      PROVE  EoInv'
  <2>1. save # None /\ UNCHANGED stage /\ (save' = [save EXCEPT !.at = "answered"] \/ save' = [save EXCEPT !.at = "failed"])
    BY <1>5 DEF EO!ServeSave
  <2>2. \/ row' = EO!Applied(row, save.of) /\ paid' = EO!Billed(save.of)
        \/ UNCHANGED <<row, paid>>
    BY <1>5 DEF EO!ServeSave
  <2>3. DOMAIN save.of \subseteq Fields /\ \A f \in DOMAIN save.of : save.of[f] \in EO!Values
    BY <2>1 DEF EoInv, EoSave, EoChange, EoForms
  <2>4. EoServer'
    <3>1. CASE UNCHANGED <<row, paid>>
      BY <3>1, <2>1 DEF EoInv, EoServer, EO!Price
    <3>2. CASE row' = EO!Applied(row, save.of) /\ paid' = EO!Billed(save.of)
      <4>1. row' \in EoForms /\ paid' \in EoBills /\ paid'.price = EO!Price(row')
        BY <3>2, <2>3, EoBilled DEF EoInv
      <4> QED BY <4>1, <2>1 DEF EoInv, EoServer, EO!Price
    <3> QED BY <2>2, <3>1, <3>2
  <2>5. EoSave' /\ EoForm'
    BY <1>1, <2>1 DEF EoInv, EoSave, EoForm, EoEmpty
  <2> QED BY <1>2, <2>4, <2>5 DEF EoInv
<1> QED BY <1>3, <1>4, <1>5

\* The form and its prices: an edit cancels every request that is not for what it leaves.
LEMMA EoEdited ==
    ASSUME EoConstants, EoInv, NEW f \in Fields, NEW v \in EO!Values, NEW m \in Asks, EO!Edit(f, v, m),
           upload' \in {upload, None}
    PROVE  EoInv'
<1> DEFINE change == EO!BuildEditChange(form')
<1>1. /\ initialValues \in EoForms /\ form \in EoForms /\ form' = [form EXCEPT ![f] = v] /\ asks[m].at = "idle"
      /\ asks' = EO!AsksAfter(m, change) /\ UNCHANGED <<row, stage, paid, initialValues, read, save, told>>
      /\ preview' = IF DOMAIN change = {} THEN EO!IdleState ELSE [preview EXCEPT !.loading = TRUE]
  BY DEF EO!Edit, EO!OnForm, EoInv, EoForm, EO!serverVars
<1>2. change = EO!BuildEditChange(form)'
  BY <1>1 DEF EO!BuildEditChange, EO!ChangedOnly
<1> HIDE DEF change
<1>3. form' \in EoForms
  BY <1>1 DEF EoForms
<1>4. EoServer' /\ EoForm' /\ EoSave'
  BY <1>1, <1>3 DEF EoInv, EoServer, EoForm, EoSave, EoConstants, EO!Price
<1>5. EoPreview'
  BY <1>1, <1>2 DEF EoInv, EoPrices, EoPreview, EO!PriceShown, EO!IdleState
<1>6. asks' = [k \in Asks |-> asks'[k]]
      /\ \A k \in Asks : \/ asks'[k] = asks[k] /\ asks[k].at = "idle"
                         \/ asks'[k] = [asks[k] EXCEPT !.cancelled = TRUE]
                         \/ asks'[k] = [EO!NoAsk EXCEPT !.of = change, !.at = "waiting"]
  BY <1>1 DEF EO!AsksAfter, EO!CancelAsks, EoInv, EoPrices
<1>7. \A k \in Asks : EoAsk(asks[k])'
  <2> SUFFICES ASSUME NEW k \in Asks PROVE EoAsk(asks[k])'
    OBVIOUS
  <2>1. EoAsk(asks[k])
    BY DEF EoInv, EoPrices
  <2>2. CASE asks'[k] = asks[k] /\ asks[k].at = "idle"
    BY <2>1, <2>2 DEF EoAsk
  <2>3. CASE asks'[k] = [asks[k] EXCEPT !.cancelled = TRUE]
    BY <2>1, <2>3 DEF EoAsk
  <2>4. CASE asks'[k] = [EO!NoAsk EXCEPT !.of = change, !.at = "waiting"]
    BY <2>4, <1>2 DEF EoAsk, EO!NoAsk
  <2> QED BY <1>6, <2>2, <2>3, <2>4
<1> QED BY <1>4, <1>5, <1>6, <1>7 DEF EoInv, EoPrices

LEMMA EoTyped ==
    ASSUME EoConstants, EoInv, NEW m \in Asks, EO!TypeField(m) \/ EO!UploadAnswered(m)
    PROVE  EoInv'
<1>1. CASE EO!UploadAnswered(m)
  <2>1. EO!Edit("docs", "mine", m) /\ upload' \in {upload, None} /\ "docs" \in Fields /\ "mine" \in EO!Values
    BY <1>1 DEF EO!UploadAnswered, EoInv, EoForm, EO!Values
  <2> QED BY <2>1, EoEdited
<1>2. CASE EO!TypeField(m)
  <2>1. PICK f \in EO!Typed : \E v \in {"mine", initialValues[f]} : EO!Edit(f, v, m)
    BY <1>2 DEF EO!TypeField
  <2>2. PICK v \in {"mine", initialValues[f]} : EO!Edit(f, v, m)
    BY <2>1
  <2>3. f \in Fields /\ v \in EO!Values /\ upload' \in {upload, None}
    BY <1>2, <2>2 DEF EO!TypeField, EO!Typed, EO!Values, EO!Edit, EO!OnForm, EoInv, EoForm, EoForms
  <2> QED BY <2>2, <2>3, EoEdited
<1> QED BY <1>1, <1>2

LEMMA EoAsked ==
    ASSUME EoConstants, EoInv, NEW m \in Asks,
           EO!AskPreview(m) \/ EO!PreviewAnswered(m) \/ \E a \in BOOLEAN : EO!ServePreview(m, a)
    PROVE  EoInv'
<1>1. UNCHANGED <<row, stage, paid, initialValues, form, read, upload, save, told>> /\ asks[m].at # "idle"
  BY DEF EO!AskPreview, EO!PreviewAnswered, EO!ServePreview, EO!serverVars, EO!formVars
<1>2. initialValues \in EoForms
  BY <1>1 DEF EoInv, EoForm, EoEmpty, EO!NoAsk
<1>3. EoServer' /\ EoForm' /\ EoSave'
  BY <1>1, <1>2 DEF EoInv, EoServer, EoForm, EoSave, EoConstants, EO!Price
<1>4. EO!BuildEditChange(form)' = EO!BuildEditChange(form)
  BY <1>1 DEF EO!BuildEditChange, EO!ChangedOnly
<1>5. EoAsk(asks[m]) /\ \A k \in Asks : EoAsk(asks[k])
  BY DEF EoInv, EoPrices
<1>6. \/ asks' = [asks EXCEPT ![m] = EO!NoAsk]
      \/ \E x : asks' = [asks EXCEPT ![m] = [asks[m] EXCEPT !.at = x]]
      \/ \E x, y : asks' = [asks EXCEPT ![m] = [asks[m] EXCEPT !.at = "priced", !.price = x, !.rejected = y]]
  BY DEF EO!AskPreview, EO!PreviewAnswered, EO!ServePreview
<1>7. asks' = [k \in Asks |-> asks'[k]] /\ \A k \in Asks : k # m => asks'[k] = asks[k]
  BY <1>6 DEF EoInv, EoPrices
<1>8. asks'[m] = [of |-> asks'[m].of, at |-> asks'[m].at, price |-> asks'[m].price, rejected |-> asks'[m].rejected,
                  cancelled |-> asks'[m].cancelled]
      /\ (asks'[m].at # "idle" /\ ~asks'[m].cancelled => asks'[m].of = EO!BuildEditChange(form))
  <2>1. m \in DOMAIN asks /\ EoAsk(asks[m])
    BY <1>5 DEF EoInv, EoPrices
  <2>2. CASE asks' = [asks EXCEPT ![m] = EO!NoAsk]
    BY <2>1, <2>2 DEF EO!NoAsk
  <2>3. ASSUME NEW x, asks' = [asks EXCEPT ![m] = [asks[m] EXCEPT !.at = x]]
        PROVE  asks'[m] = [asks[m] EXCEPT !.at = x]
    BY <2>1, <2>3
  <2>4. ASSUME NEW x, NEW y, asks' = [asks EXCEPT ![m] = [asks[m] EXCEPT !.at = "priced", !.price = x, !.rejected = y]]
        PROVE  asks'[m] = [asks[m] EXCEPT !.at = "priced", !.price = x, !.rejected = y]
    BY <2>1, <2>4
  <2>5. CASE \E x : asks' = [asks EXCEPT ![m] = [asks[m] EXCEPT !.at = x]]
    BY <1>1, <2>1, <2>3, <2>5 DEF EoAsk
  <2>6. CASE \E x, y : asks' = [asks EXCEPT ![m] = [asks[m] EXCEPT !.at = "priced", !.price = x, !.rejected = y]]
    BY <1>1, <2>1, <2>4, <2>6 DEF EoAsk
  <2> QED BY <1>6, <2>2, <2>5, <2>6
<1>9. \A k \in Asks : EoAsk(asks[k])'
  BY <1>4, <1>5, <1>7, <1>8 DEF EoAsk
<1>10. EoPreview'
  <2>1. \/ preview' = preview \/ preview' = EO!IdleState
        \/ /\ ~asks[m].cancelled
           /\ preview' = [price |-> asks[m].price, rejected |-> asks[m].rejected, of |-> asks[m].of, loading |-> FALSE]
    BY DEF EO!AskPreview, EO!PreviewAnswered, EO!ServePreview
  <2>2. EoPreview
    BY DEF EoInv, EoPrices
  <2>3. CASE preview' = preview
    BY <2>2, <2>3, <1>4 DEF EoPreview, EO!PriceShown
  <2>4. CASE preview' = EO!IdleState
    BY <2>4 DEF EoPreview, EO!IdleState, EO!PriceShown
  <2>5. ASSUME ~asks[m].cancelled,
               preview' = [price |-> asks[m].price, rejected |-> asks[m].rejected, of |-> asks[m].of, loading |-> FALSE]
        PROVE  EoPreview'
    <3>1. asks[m].of = EO!BuildEditChange(form)
      BY <1>1, <1>5, <2>5 DEF EoAsk
    <3> QED BY <1>4, <2>5, <3>1 DEF EoPreview, EO!PriceShown
  <2> QED BY <2>1, <2>3, <2>4, <2>5
<1> QED BY <1>3, <1>7, <1>9, <1>10 DEF EoInv, EoPrices

LEMMA EoSaved ==
    ASSUME EoConstants, EoInv,
           EO!HandleSaveChanges \/ EO!SaveAnswered \/ EO!SaveFailed \/ EO!HandleFileUpload \/ EO!UploadFailed
    PROVE  EoInv'
<1>1. UNCHANGED <<row, stage, paid, initialValues, form, read, preview, asks>>
  BY DEF EO!HandleSaveChanges, EO!SaveAnswered, EO!SaveFailed, EO!FormOnFailure, EO!FormStays, EO!HandleFileUpload, EO!UploadFailed,
     EO!serverVars, EO!formVars
<1>2. EoServer' /\ EoPrices'
  BY <1>1, EoSame DEF EoInv, EoServer, EO!Price
<1>3. CASE EO!HandleSaveChanges
  <2>1. initialValues \in EoForms /\ form \in EoForms /\ UNCHANGED upload
    BY <1>3 DEF EO!HandleSaveChanges, EO!OnForm, EoInv, EoForm
  <2>2. \/ told' = "nothing" /\ save' = save
        \/ /\ told' = None
           /\ \E x \in {"going", "checking"} :
                save' = [of |-> EO!BuildEditChange(form), base |-> initialValues, typed |-> form, at |-> x]
    BY <1>3 DEF EO!HandleSaveChanges
  <2>3. EoSave'
    BY <2>1, <2>2 DEF EoInv, EoSave, EO!BuildEditChange, EO!ChangedOnly, EoChange
  <2> QED BY <1>1, <1>2, <2>1, <2>2, <2>3 DEF EoInv, EoForm, EoConstants
<1>4. CASE EO!SaveAnswered \/ EO!SaveFailed
  <2>1. save # None /\ save' = None /\ told' \in {"saved", "failed", "refused"} /\ UNCHANGED upload
    BY <1>4 DEF EO!SaveAnswered, EO!SaveFailed
  <2> QED BY <1>1, <1>2, <2>1 DEF EoInv, EoForm, EoEmpty, EoSave
<1>5. CASE EO!HandleFileUpload \/ EO!UploadFailed
  <2>1. UNCHANGED <<save, told>> /\ (upload' = None \/ "docs" \in Fields)
    BY <1>5 DEF EO!HandleFileUpload, EO!UploadFailed
  <2> QED BY <1>1, <1>2, <2>1 DEF EoInv, EoForm, EoEmpty, EoSave, EoConstants
<1> QED BY <1>3, <1>4, <1>5

LEMMA EoRead ==
    ASSUME EoConstants, EoInv, EO!Loaded \/ \E a \in BOOLEAN : EO!ServeRead(a)
    PROVE  EoInv'
<1>1. UNCHANGED <<row, stage, paid, preview, asks, upload, save, told>> /\ initialValues = None /\ EoEmpty
  BY DEF EO!Loaded, EO!ServeRead, EO!serverVars, EoInv, EoForm, EoConstants
<1>2. EoServer' /\ EoSave'
  BY <1>1 DEF EoInv, EoServer, EoSave, EO!Price
<1>3. EoPrices'
  BY <1>1 DEF EoEmpty, EoPrices, EoAsk, EoPreview, EO!IdleState, EO!NoAsk, EO!PriceShown
<1>4. EoForm'
  BY <1>1 DEF EO!Loaded, EO!ServeRead, EO!formVars, EoInv, EoForm, EoEmpty, EoServer
<1> QED BY <1>2, <1>3, <1>4 DEF EoInv

LEMMA EoStep == EoConstants /\ EoInv /\ [EO!Next]_(EO!vars) => EoInv'
<1> SUFFICES ASSUME EoConstants, EoInv, [EO!Next]_(EO!vars) PROVE EoInv'
  OBVIOUS
<1>1. CASE UNCHANGED EO!vars
  BY <1>1, EoSame DEF EO!vars, EoInv, EoServer, EoForm, EoEmpty, EoSave, EO!Price
<1>2. CASE EO!Next
  BY <1>2, EoServed, EoTyped, EoAsked, EoSaved, EoRead DEF EO!Next
<1> QED BY <1>1, <1>2

\* An order that is edited is billed its price once, and what is shown as checked or sent is what the
\* person made of what was loaded.
THEOREM EditedAsTyped ==
    ASSUME EoConstants
    PROVE  EO!Spec => [](EO!TypeOK /\ EO!OncePerIntent /\ EO!ActedAsShown)
<1>1. EoInv => EO!TypeOK
  BY DEF EoInv, EoServer, EoForm, EoEmpty, EoForms, EoPrices, EoPreview, EO!TypeOK
<1>2. EoInv => EO!OncePerIntent
  BY DEF EoInv, EoServer, EoBills, EO!OncePerIntent
<1>3. EoInv => EO!ActedAsShown
  BY DEF EoInv, EoSave, EoChange, EoPrices, EoPreview, EO!ActedAsShown
<1> QED BY <1>1, <1>2, <1>3, EoInit, EoStep, PTL DEF EO!Spec

\* Prices, refusals, lost answers and other editors leave the form of an order as it is.
THEOREM EditTypingKept ==
    ASSUME EoConstants
    PROVE  EO!Spec => [][EO!KeepsTyping]_(EO!vars)
<1>1. EoInv /\ [EO!Next]_(EO!vars) => [EO!KeepsTyping]_(EO!vars)
  <2> SUFFICES ASSUME EoInv, EO!Next, form' # form PROVE EO!KeepsTyping
    BY DEF EO!KeepsTyping
  <2>1. CASE EO!Loaded
    BY <2>1 DEF EO!Loaded, EO!serverVars, EO!KeepsTyping
  <2>2. ASSUME NEW f, NEW v, NEW m \in Asks, EO!Edit(f, v, m) PROVE EO!KeepsTyping
    <3>1. UNCHANGED <<row, save>> /\ asks' = EO!AsksAfter(m, EO!BuildEditChange(form')) /\ asks[m].at = "idle"
      BY <2>2 DEF EO!Edit, EO!serverVars
    <3>2. \A k \in Asks : k # m => asks'[k].at = asks[k].at
      BY <3>1 DEF EO!AsksAfter, EO!CancelAsks, EoInv, EoPrices, EoAsk
    <3> QED BY <3>1, <3>2 DEF EO!KeepsTyping
  <2>3. EO!Loaded \/ \E f, v : \E m \in Asks : EO!Edit(f, v, m)
    BY DEF EO!Next, EO!OthersAct, EO!HandleFileUpload, EO!UploadFailed, EO!HandleSaveChanges, EO!SaveAnswered, EO!SaveFailed, EO!AskPreview,
       EO!PreviewAnswered, EO!UploadAnswered, EO!TypeField, EO!ServeRead, EO!ServeCheck, EO!ServePreview, EO!ServeSave,
       EO!FormOnFailure, EO!FormStays, EO!formVars
  <2> QED BY <2>1, <2>2, <2>3
<1> QED BY <1>1, EoInit, EoStep, PTL DEF EO!Spec

-----------------------------------------------------------------------------
(* Manage Appointments: the rows shown are of the place chosen, a window is      *)
(* booked for LRs of the dialog only, and no hold that waits for more is ended.   *)

CONSTANTS Lrs, PageOf, CanBook, Loads, MaxTurns, MaxPresses
VARIABLES window, hold, wrong, tab, search, turns, data, error, loading, cached, loads, refreshed,
    selectedIds, dialogRows, presses, saving
AP == INSTANCE Appointments

ApWindows == {None, "mine", "theirs"}
ApHolds == {"none", "appointment", "other"}
ApConstants ==
    /\ None \notin {"gone", "mine", "theirs"} /\ None \notin AP!Keys /\ 1 \in AP!Pages
    /\ IsFiniteSet(Lrs) /\ \A S \in SUBSET Lrs : S # {} => \E q \in S : \A r \in S : q <= r

ApListing(L) == DOMAIN L \subseteq Lrs /\ \A p \in DOMAIN L : L[p].window \in ApWindows

ApServer == window \in [Lrs -> ApWindows] /\ hold \in [Lrs -> ApHolds] /\ wrong = {}
ApPlace == tab \in AP!Tabs /\ search \in BOOLEAN /\ page \in AP!Pages /\ selectedIds \subseteq Lrs
ApList ==
    /\ ApListing(data.rows) /\ error \in BOOLEAN /\ loading \in BOOLEAN /\ newest \in Loads
    /\ DOMAIN cached = AP!Keys /\ \A k \in AP!Keys : cached[k] # None => ApListing(cached[k])
    /\ DOMAIN loads = Loads
    /\ \A m \in Loads :
           /\ loads[m] = [of |-> loads[m].of, rows |-> loads[m].rows, cold |-> loads[m].cold] /\ loads[m].cold \in BOOLEAN
           /\ loads[m].of # None => loads[m].of \in AP!Keys
           /\ loads[m].rows # None => loads[m].of # None /\ ApListing(loads[m].rows)

\* The read that counts is of the place chosen, and until it has ended the place is being read or has failed.
ApNewest ==
    /\ loads[newest].of # None => loads[newest].of = AP!Here
    /\ loads[newest].of # None /\ ~refreshed /\ ~loads[newest].cold => data.of = AP!Here
    /\ ~refreshed /\ data.of # AP!Here => error \/ (loading /\ loads[newest].of # None)

ApDialog == ApListing(dialogRows) /\ form \in ApWindows
ApSaving ==
    saving # None =>
        /\ saving = [rows |-> saving.rows, left |-> saving.left, form |-> saving.form, done |-> saving.done,
                     booked |-> saving.booked, failed |-> saving.failed]
        /\ saving.rows \subseteq Lrs /\ saving.left \subseteq saving.rows /\ saving.done \subseteq saving.rows \ saving.left
        /\ saving.form \in {"mine", "theirs"} /\ saving.booked \in Nat /\ saving.booked <= Cardinality(saving.done)
ApInv == ApServer /\ ApPlace /\ ApList /\ ApNewest /\ ApDialog /\ ApSaving

LEMMA ApCounts == \A S : AP!Cardinality(S) = Cardinality(S)
BY DEF AP!Cardinality, Cardinality

LEMMA ApKeys == ApPlace => AP!Here \in AP!Keys
BY DEF ApPlace, AP!Here, AP!Keys

LEMMA ApIdle == AP!Idle = [of |-> None, rows |-> None, cold |-> FALSE]
BY DEF AP!Idle

\* A read as it starts.
LEMMA ApStarted ==
    ASSUME NEW k
    PROVE  [AP!Idle EXCEPT !.of = k, !.cold = TRUE] = [of |-> k, rows |-> None, cold |-> TRUE]
<1>1. ASSUME NEW x, NEW y, x = [of |-> x.of, rows |-> x.rows, cold |-> x.cold], y = [x EXCEPT !.of = k, !.cold = TRUE]
      PROVE  y = [of |-> y.of, rows |-> y.rows, cold |-> y.cold] /\ y.of = k /\ y.rows = x.rows /\ y.cold = TRUE
  BY <1>1
<1>2. AP!Idle = [of |-> AP!Idle.of, rows |-> AP!Idle.rows, cold |-> AP!Idle.cold] /\ AP!Idle.rows = None
  BY ApIdle
<1> DEFINE y == [AP!Idle EXCEPT !.of = k, !.cold = TRUE]
<1>3. y = [of |-> y.of, rows |-> y.rows, cold |-> y.cold] /\ y.of = k /\ y.rows = None /\ y.cold = TRUE
  BY <1>1, <1>2
<1> HIDE DEF y
<1>4. y = [of |-> k, rows |-> None, cold |-> TRUE]
  BY <1>3
<1> QED BY <1>4 DEF y

LEMMA ApInit == ApConstants /\ AP!Init => ApInv
<1> SUFFICES ASSUME ApConstants, AP!Init PROVE ApInv
  OBVIOUS
<1>1. ApServer /\ ApPlace
  BY DEF AP!Init, ApServer, ApPlace, ApWindows, ApHolds, ApConstants, AP!Tabs
<1>2. AP!Here \in AP!Keys /\ AP!Here # None
  BY <1>1, ApKeys DEF ApConstants
<1>3. PICK m \in Loads : newest = m /\ loads = [n \in Loads |-> IF n = m THEN [AP!Idle EXCEPT !.of = AP!Here, !.cold = TRUE] ELSE AP!Idle]
  BY DEF AP!Init
<1>4. /\ [AP!Idle EXCEPT !.of = AP!Here, !.cold = TRUE] = [of |-> AP!Here, rows |-> None, cold |-> TRUE]
      /\ AP!Idle = [of |-> None, rows |-> None, cold |-> FALSE]
  BY ApStarted, ApIdle
<1>5. /\ DOMAIN loads = Loads /\ loads[m] = [of |-> AP!Here, rows |-> None, cold |-> TRUE]
      /\ \A n \in Loads : n # m => loads[n] = [of |-> None, rows |-> None, cold |-> FALSE]
  BY <1>3, <1>4
<1>6. ApListing(AP!NoRows)
  BY DEF ApListing, AP!NoRows
<1>7. ApList
  <2>1. \A n \in Loads : /\ loads[n] = [of |-> loads[n].of, rows |-> loads[n].rows, cold |-> loads[n].cold] /\ loads[n].cold \in BOOLEAN
                         /\ loads[n].of # None => loads[n].of \in AP!Keys
                         /\ loads[n].rows = None
    <3>1. ASSUME NEW n \in Loads, n # m PROVE loads[n].of = None /\ loads[n].rows = None /\ loads[n].cold = FALSE
                                            /\ loads[n] = [of |-> loads[n].of, rows |-> loads[n].rows, cold |-> loads[n].cold]
      BY <1>5, <3>1
    <3>2. loads[m].of = AP!Here /\ loads[m].rows = None /\ loads[m].cold = TRUE
          /\ loads[m] = [of |-> loads[m].of, rows |-> loads[m].rows, cold |-> loads[m].cold]
      BY <1>5
    <3> QED BY <1>2, <3>1, <3>2
  <2>2. ApListing(data.rows) /\ error \in BOOLEAN /\ loading \in BOOLEAN /\ newest \in Loads
    BY <1>3, <1>6 DEF AP!Init
  <2>3. DOMAIN cached = AP!Keys /\ \A k \in AP!Keys : cached[k] = None
    BY DEF AP!Init, AP!NothingCached
  <2> QED BY <1>5, <2>1, <2>2, <2>3 DEF ApList
<1>8. ApNewest
  BY <1>2, <1>3, <1>5 DEF AP!Init, ApNewest
<1>9. ApDialog /\ ApSaving
  BY <1>6 DEF AP!Init, ApDialog, ApSaving, ApWindows
<1> QED BY <1>1, <1>7, <1>8, <1>9 DEF ApInv

\* A read that is started for a place, with what is cached of it shown until the first booking.
LEMMA ApFetched ==
    ASSUME ApConstants, ApInv, NEW k, k = AP!Here', k \in AP!Keys, NEW m \in Loads, NEW fresh \in BOOLEAN,
           AP!Fetch(k, m, fresh), (refreshed' = refreshed /\ fresh = ~refreshed) \/ refreshed' = TRUE
    PROVE  ApList' /\ ApNewest'
<1> DEFINE cold == cached[k] = None
<1>1. /\ newest' = m /\ loads' = [loads EXCEPT ![m] = [of |-> k, rows |-> None, cold |-> cold]]
      /\ UNCHANGED <<cached, error>> /\ cold \in BOOLEAN /\ k # None
  BY DEF AP!Fetch, ApConstants
<1> HIDE DEF cold
<1>2. /\ DOMAIN loads' = Loads /\ loads'[m] = [of |-> k, rows |-> None, cold |-> cold]
      /\ \A n \in Loads : n # m => loads'[n] = loads[n]
  BY <1>1 DEF ApInv, ApList
<1>3. \/ ~cold /\ fresh /\ data' = [of |-> k, rows |-> cached[k]] /\ loading' = FALSE
      \/ (cold \/ ~fresh) /\ data' = data /\ loading' = (loading \/ cold)
  BY DEF AP!Fetch, cold
<1>4. ~cold => ApListing(cached[k])
  BY DEF ApInv, ApList, cold
<1>5. ApListing(data'.rows) /\ loading' \in BOOLEAN
  <2>1. ApListing(data.rows) /\ loading \in BOOLEAN
    BY DEF ApInv, ApList
  <2>2. CASE data' = data /\ loading' = (loading \/ cold)
    BY <1>1, <2>1, <2>2
  <2>3. CASE ~cold /\ data' = [of |-> k, rows |-> cached[k]] /\ loading' = FALSE
    <3>1. data'.rows = cached[k]
      BY <2>3
    <3> QED BY <1>4, <2>3, <3>1
  <2> QED BY <1>3, <2>2, <2>3
<1>6. ApList'
  <2>1. \A n \in Loads : /\ loads'[n] = [of |-> loads'[n].of, rows |-> loads'[n].rows, cold |-> loads'[n].cold]
                         /\ loads'[n].cold \in BOOLEAN
                         /\ loads'[n].of # None => loads'[n].of \in AP!Keys
                         /\ loads'[n].rows # None => loads'[n].of # None /\ ApListing(loads'[n].rows)
    BY <1>1, <1>2 DEF ApInv, ApList
  <2> QED BY <1>1, <1>2, <1>5, <2>1 DEF ApInv, ApList, ApListing
<1>7. ApNewest'
  BY <1>1, <1>2, <1>3 DEF ApNewest
<1> QED BY <1>6, <1>7

\* A read of the list is served, answered or lost.
LEMMA ApRead ==
    ASSUME ApConstants, ApInv, NEW m \in Loads, AP!ReadList(m) \/ AP!ListAnswered(m) \/ AP!ListFails(m)
    PROVE  ApInv'
<1>1. /\ UNCHANGED <<window, hold, wrong, tab, search, page, newest, refreshed, selectedIds, dialogRows, saving>> /\ form' = form
  BY DEF AP!ReadList, AP!ListAnswered, AP!ListFails, AP!serverVars, AP!placeVars, AP!FormOnReload, AP!FormKept
<1>2. ApServer' /\ ApPlace' /\ ApDialog' /\ ApSaving' /\ AP!Here' = AP!Here
  BY <1>1 DEF ApInv, ApServer, ApPlace, ApDialog, ApSaving, ApListing, AP!Here
<1>3. /\ loads[m] = [of |-> loads[m].of, rows |-> loads[m].rows, cold |-> loads[m].cold] /\ loads[m].cold \in BOOLEAN
      /\ loads[m].of # None => loads[m].of \in AP!Keys
      /\ loads[m].rows # None => loads[m].of # None /\ ApListing(loads[m].rows)
      /\ DOMAIN loads = Loads /\ newest \in Loads
  BY DEF ApInv, ApList
<1>4. CASE AP!ReadList(m)
  <2> DEFINE L == AP!Listed(loads[m].of)
  <2>1. /\ loads[m].of # None /\ loads' = [loads EXCEPT ![m].rows = L] /\ UNCHANGED <<data, error, loading, cached>>
    BY <1>4 DEF AP!ReadList
  <2>2. ApListing(L)
    <3>1. \A p \in Lrs : AP!Row(p).window \in ApWindows
      BY DEF AP!Row, ApInv, ApServer
    <3> QED BY <3>1 DEF AP!Listed, ApListing
  <2> HIDE DEF L
  <2>3. /\ DOMAIN loads' = Loads /\ loads'[m] = [of |-> loads[m].of, rows |-> L, cold |-> loads[m].cold]
        /\ \A n \in Loads : n # m => loads'[n] = loads[n]
    BY <1>3, <2>1
  <2>4. \A n \in Loads : loads'[n].of = loads[n].of /\ loads'[n].cold = loads[n].cold
    BY <2>3
  <2>5. ApList'
    <3>1. \A n \in Loads : /\ loads'[n] = [of |-> loads'[n].of, rows |-> loads'[n].rows, cold |-> loads'[n].cold]
                           /\ loads'[n].cold \in BOOLEAN
                           /\ loads'[n].of # None => loads'[n].of \in AP!Keys
                           /\ loads'[n].rows # None => loads'[n].of # None /\ ApListing(loads'[n].rows)
      BY <1>3, <2>1, <2>2, <2>3 DEF ApInv, ApList
    <3> QED BY <1>1, <2>1, <2>3, <3>1 DEF ApInv, ApList, ApListing
  <2>6. ApNewest'
    BY <1>1, <1>2, <1>3, <2>1, <2>4 DEF ApInv, ApNewest
  <2> QED BY <1>2, <2>5, <2>6 DEF ApInv
<1>5. CASE AP!ListAnswered(m) \/ AP!ListFails(m)
  <2>1. loads[m].of # None /\ loads' = [loads EXCEPT ![m] = AP!Idle]
    BY <1>3, <1>5 DEF AP!ListAnswered, AP!ListFails
  <2>2. /\ DOMAIN loads' = Loads /\ loads'[m] = [of |-> None, rows |-> None, cold |-> FALSE]
        /\ \A n \in Loads : n # m => loads'[n] = loads[n]
    BY <1>3, <2>1 DEF AP!Idle
  <2>3. \A n \in Loads : /\ loads'[n] = [of |-> loads'[n].of, rows |-> loads'[n].rows, cold |-> loads'[n].cold]
                         /\ loads'[n].cold \in BOOLEAN
                         /\ loads'[n].of # None => loads'[n].of \in AP!Keys
                         /\ loads'[n].rows # None => loads'[n].of # None /\ ApListing(loads'[n].rows)
    <3>1. \A n \in Loads : /\ loads[n] = [of |-> loads[n].of, rows |-> loads[n].rows, cold |-> loads[n].cold]
                           /\ loads[n].cold \in BOOLEAN
                           /\ loads[n].of # None => loads[n].of \in AP!Keys
                           /\ loads[n].rows # None => loads[n].of # None /\ ApListing(loads[n].rows)
      BY DEF ApInv, ApList
    <3>2. ASSUME NEW n \in Loads, n # m
          PROVE  /\ loads'[n] = [of |-> loads'[n].of, rows |-> loads'[n].rows, cold |-> loads'[n].cold]
                 /\ loads'[n].cold \in BOOLEAN
                 /\ loads'[n].of # None => loads'[n].of \in AP!Keys
                 /\ loads'[n].rows # None => loads'[n].of # None /\ ApListing(loads'[n].rows)
      <4>1. loads'[n] = loads[n]
        BY <2>2, <3>2
      <4> QED BY <3>1, <4>1
    <3>3. loads'[m] = [of |-> loads'[m].of, rows |-> loads'[m].rows, cold |-> loads'[m].cold]
          /\ loads'[m].cold = FALSE /\ loads'[m].of = None /\ loads'[m].rows = None
      BY <2>2
    <3> QED BY <3>2, <3>3
  <2>4. /\ DOMAIN cached' = AP!Keys /\ \A k \in AP!Keys : cached'[k] # None => ApListing(cached'[k])
        /\ ApListing(data'.rows) /\ error' \in BOOLEAN /\ loading' \in BOOLEAN
    <3>1. CASE AP!ListAnswered(m)
      <4>1. loads[m].rows # None /\ cached' = [cached EXCEPT ![loads[m].of] = loads[m].rows] /\ ApListing(loads[m].rows)
        BY <1>3, <3>1 DEF AP!ListAnswered
      <4>2. \/ data' = [of |-> loads[m].of, rows |-> loads[m].rows] /\ error' = FALSE /\ loading' = FALSE
            \/ UNCHANGED <<data, error, loading>>
        BY <3>1 DEF AP!ListAnswered
      <4>3. DOMAIN cached' = AP!Keys /\ \A k \in AP!Keys : cached'[k] = cached[k] \/ cached'[k] = loads[m].rows
        BY <4>1 DEF ApInv, ApList
      <4>4. \A k \in AP!Keys : cached[k] # None => ApListing(cached[k])
        BY DEF ApInv, ApList
      <4>5. ApListing(data'.rows) /\ error' \in BOOLEAN /\ loading' \in BOOLEAN
        <5>1. ApListing(data.rows) /\ error \in BOOLEAN /\ loading \in BOOLEAN
          BY DEF ApInv, ApList
        <5>2. CASE data' = [of |-> loads[m].of, rows |-> loads[m].rows] /\ error' = FALSE /\ loading' = FALSE
          <6>1. data'.rows = loads[m].rows
            BY <5>2
          <6> QED BY <4>1, <5>2, <6>1
        <5>3. CASE UNCHANGED <<data, error, loading>>
          BY <5>1, <5>3
        <5> QED BY <4>2, <5>2, <5>3
      <4>6. ASSUME NEW k \in AP!Keys, cached'[k] # None PROVE ApListing(cached'[k])
        BY <4>1, <4>3, <4>4, <4>6
      <4> QED BY <4>3, <4>5, <4>6
    <3>2. CASE AP!ListFails(m)
      <4>1. UNCHANGED <<cached, data>> /\ error' \in BOOLEAN /\ loading' \in BOOLEAN
        BY <3>2 DEF AP!ListFails
      <4> QED BY <4>1 DEF ApInv, ApList
    <3> QED BY <1>5, <3>1, <3>2
  <2>5. ApList'
    BY <1>1, <1>3, <2>2, <2>3, <2>4 DEF ApList, ApListing
  <2>6. ApNewest'
    <3>1. CASE m = newest /\ AP!ListAnswered(m)
      <4>1. data' = [of |-> loads[m].of, rows |-> loads[m].rows] /\ loads[m].of = AP!Here
        BY <2>1, <3>1 DEF AP!ListAnswered, AP!Shows, AP!ShowNewest, ApInv, ApNewest
      <4> QED BY <1>1, <1>2, <2>2, <3>1, <4>1 DEF ApNewest
    <3>2. CASE m = newest /\ AP!ListFails(m)
      <4>1. data' = data /\ error' = (error \/ loads[m].cold)
        BY <3>2 DEF AP!ListFails
      <4>2. error \in BOOLEAN
        BY DEF ApInv, ApList
      <4> QED BY <1>1, <1>2, <1>3, <2>1, <2>2, <3>2, <4>1, <4>2 DEF ApInv, ApNewest
    <3>3. CASE m # newest
      <4>1. UNCHANGED <<data, error, loading>>
        <5>1. CASE AP!ListAnswered(m)
          BY <3>3, <5>1 DEF AP!ListAnswered, AP!Shows, AP!ShowNewest
        <5>2. CASE AP!ListFails(m)
          BY <3>3, <5>2 DEF AP!ListFails, ApInv, ApList
        <5> QED BY <1>5, <5>1, <5>2
      <4> QED BY <1>1, <1>2, <1>3, <2>2, <3>3, <4>1 DEF ApInv, ApNewest
    <3> QED BY <1>5, <3>1, <3>2, <3>3
  <2> QED BY <1>2, <2>5, <2>6 DEF ApInv
<1> QED BY <1>4, <1>5

\* Another tab, search or page.
LEMMA ApTurned ==
    ASSUME ApConstants, ApInv, NEW m \in Loads, AP!ChangeFilter(m) \/ AP!TurnPage(m)
    PROVE  ApInv'
<1>1. PICK t \in AP!Tabs, s \in BOOLEAN, p \in AP!Pages : AP!ChangePlace(t, s, p, m)
  <2>1. CASE AP!ChangeFilter(m)
    BY <2>1 DEF AP!ChangeFilter, ApConstants
  <2>2. CASE AP!TurnPage(m)
    BY <2>2 DEF AP!TurnPage, ApInv, ApPlace
  <2> QED BY <2>1, <2>2
<1>2. /\ tab' = t /\ search' = s /\ page' = p /\ selectedIds' \in {selectedIds, {}}
      /\ AP!Fetch(<<t, s, p>>, m, ~refreshed)
      /\ UNCHANGED <<window, hold, wrong, refreshed, dialogRows, form, saving>>
  BY <1>1 DEF AP!ChangePlace, AP!TicksOnFilter, AP!serverVars
<1>3. ApServer' /\ ApPlace' /\ ApDialog' /\ ApSaving'
  BY <1>2 DEF ApInv, ApServer, ApPlace, ApDialog, ApSaving, ApListing
<1> DEFINE fresh == ~refreshed
           k == <<t, s, p>>
<1>4. fresh \in BOOLEAN /\ k = AP!Here' /\ k \in AP!Keys /\ AP!Fetch(k, m, fresh) /\ refreshed' = refreshed
  BY <1>2 DEF AP!Here, AP!Keys
<1>5. refreshed' = refreshed /\ fresh = ~refreshed
  BY <1>4
<1> HIDE DEF fresh, k
<1>6. ApList' /\ ApNewest'
  BY <1>4, <1>5, ApFetched
<1> QED BY <1>3, <1>6 DEF ApInv

\* Ticks, and the dialog.
LEMMA ApPerson ==
    ASSUME ApConstants, ApInv,
           AP!ToggleRow \/ AP!ToggleAll \/ AP!OpenRow \/ AP!OpenBulk \/ AP!Close \/ AP!ChooseWindow \/ AP!HandleSubmit
    PROVE  ApInv'
<1>1. UNCHANGED <<window, hold, wrong, tab, search, page, data, error, loading, cached, loads, newest, refreshed>>
  BY DEF AP!ToggleRow, AP!ToggleAll, AP!OpenRow, AP!OpenBulk, AP!Open, AP!Close, AP!ChooseWindow, AP!HandleSubmit,
     AP!serverVars, AP!placeVars, AP!listVars
<1>2. ApServer' /\ ApList' /\ ApNewest'
  BY <1>1 DEF ApInv, ApServer, ApList, ApListing, ApNewest, AP!Here
<1>3. selectedIds' \subseteq Lrs
  BY DEF AP!ToggleRow, AP!ToggleAll, AP!OpenRow, AP!OpenBulk, AP!Open, AP!Close, AP!ChooseWindow, AP!HandleSubmit,
     ApInv, ApPlace, ApList, ApListing
<1>4. ApDialog'
  <2>1. ASSUME NEW L, ApListing(L), AP!Open(L) PROVE ApDialog'
    <3>1. dialogRows' = L /\ form' = AP!Prefilled(L) /\ DOMAIN L # {}
      BY <2>1 DEF AP!Open
    <3>2. (CHOOSE p \in DOMAIN L : TRUE) \in DOMAIN L
      BY <3>1
    <3>3. AP!Prefilled(L) \in ApWindows
      BY <2>1, <3>2 DEF AP!Prefilled, ApListing, ApWindows
    <3> QED BY <2>1, <3>1, <3>3 DEF ApDialog
  <2>2. CASE AP!OpenRow
    <3>1. PICK p \in DOMAIN data.rows : AP!Open([q \in {p} |-> data.rows[p]])
      BY <2>2 DEF AP!OpenRow
    <3>2. ApListing([q \in {p} |-> data.rows[p]])
      BY DEF ApInv, ApList, ApListing
    <3> QED BY <2>1, <3>1, <3>2
  <2>3. CASE AP!OpenBulk
    <3>1. ApListing(AP!ListedTicks)
      BY DEF ApInv, ApList, ApListing, AP!ListedTicks
    <3> QED BY <2>1, <2>3, <3>1 DEF AP!OpenBulk, AP!SelectedRows
  <2>4. CASE AP!Close
    BY <2>4 DEF AP!Close, AP!NoRows, ApInv, ApDialog, ApListing
  <2>5. CASE AP!ToggleRow \/ AP!ToggleAll \/ AP!ChooseWindow \/ AP!HandleSubmit
    <3>1. dialogRows' = dialogRows /\ form' \in {form, "mine"}
      BY <2>5 DEF AP!ToggleRow, AP!ToggleAll, AP!ChooseWindow, AP!HandleSubmit
    <3> QED BY <3>1 DEF ApInv, ApDialog, ApWindows
  <2> QED BY <2>2, <2>3, <2>4, <2>5
<1>5. ApSaving'
  <2>1. CASE AP!HandleSubmit
    <3>1. /\ saving' = [rows |-> DOMAIN dialogRows, left |-> DOMAIN dialogRows, form |-> form, done |-> {}, booked |-> 0, failed |-> 0]
          /\ form \in {"mine", "theirs"} /\ DOMAIN dialogRows \subseteq Lrs
      BY <2>1 DEF AP!HandleSubmit, ApInv, ApDialog, ApWindows, ApListing
    <3>2. Cardinality({}) = 0
      BY FS_EmptySet
    <3> QED BY <3>1, <3>2 DEF ApSaving
  <2>2. CASE ~AP!HandleSubmit
    <3>1. saving' = saving
      BY <2>2 DEF AP!ToggleRow, AP!ToggleAll, AP!OpenRow, AP!OpenBulk, AP!Open, AP!Close, AP!ChooseWindow
    <3> QED BY <3>1 DEF ApInv, ApSaving
  <2> QED BY <2>1, <2>2
<1> QED BY <1>1, <1>2, <1>3, <1>4, <1>5 DEF ApInv, ApPlace

\* The loop over the LRs of the dialog, and its end.
LEMMA ApBooked ==
    ASSUME ApConstants, ApInv, NEW reaches \in BOOLEAN, NEW ok \in BOOLEAN, AP!BookNext(reaches, ok)
    PROVE  ApInv'
<1> DEFINE p == CHOOSE q \in saving.left : \A r \in saving.left : q <= r
           does == reaches /\ AP!MayBook(p)
<1>1. /\ saving # None /\ saving.left # {}
      /\ IF does THEN AP!UpdateAppointment(p, saving.form) ELSE UNCHANGED <<window, hold, wrong, others>>
      /\ saving' = [saving EXCEPT !.left = @ \ {p}, !.done = IF does THEN @ \cup {p} ELSE @,
                                  !.booked = IF does /\ ok THEN @ + 1 ELSE @, !.failed = IF does /\ ok THEN @ ELSE @ + 1]
      /\ cached' \in {cached, AP!NothingCached}
      /\ UNCHANGED <<tab, search, page, data, error, loading, loads, newest, refreshed, selectedIds, dialogRows, form>>
  BY DEF AP!BookNext, AP!serverVars, AP!placeVars
<1>2. p \in saving.left /\ does \in BOOLEAN
  BY <1>1 DEF ApInv, ApSaving, ApConstants
<1>3. does => hold[p] # "other"
  BY DEF AP!MayBook, AP!WaitsForIt
<1> HIDE DEF p, does
<1>4. ApServer'
  <2>1. CASE does
    <3>1. /\ window' = [window EXCEPT ![p] = saving.form] /\ hold' = [hold EXCEPT ![p] = "none"] /\ wrong' = wrong \cup {}
      BY <1>1, <1>3, <2>1 DEF AP!UpdateAppointment
    <3> QED BY <1>1, <3>1 DEF ApInv, ApServer, ApSaving, ApWindows, ApHolds
  <2>2. CASE ~does
    BY <1>1, <2>2 DEF ApInv, ApServer
  <2> QED BY <2>1, <2>2
<1>5. ApPlace' /\ ApDialog'
  BY <1>1 DEF ApInv, ApPlace, ApDialog, ApListing
<1>6. ApList'
  BY <1>1 DEF ApInv, ApList, ApListing, AP!NothingCached
<1>7. ApNewest'
  BY <1>1 DEF ApInv, ApNewest, AP!Here
<1>8. ApSaving'
  <2> DEFINE D == saving.done
             n == saving.booked
  <2>1. /\ saving'.rows = saving.rows /\ saving'.left = saving.left \ {p} /\ saving'.form = saving.form
        /\ saving'.done = (IF does THEN D \cup {p} ELSE D) /\ saving'.booked = (IF does /\ ok THEN n + 1 ELSE n)
        /\ saving' = [rows |-> saving'.rows, left |-> saving'.left, form |-> saving'.form, done |-> saving'.done,
                      booked |-> saving'.booked, failed |-> saving'.failed]
    BY <1>1 DEF ApInv, ApSaving
  <2>2. D \subseteq saving.rows \ saving.left /\ saving.rows \subseteq Lrs /\ n \in Nat /\ n <= Cardinality(D)
        /\ saving.left \subseteq saving.rows /\ saving.form \in {"mine", "theirs"}
    BY <1>1 DEF ApInv, ApSaving
  <2>3. IsFiniteSet(D) /\ p \notin D
    BY <1>2, <2>2, FS_Subset DEF ApConstants
  <2>4. Cardinality(D \cup {p}) = Cardinality(D) + 1 /\ Cardinality(D) \in Nat
    BY <2>3, FS_AddElement, FS_CardinalityType
  <2> HIDE DEF D, n
  <2>5. saving'.booked \in Nat /\ saving'.booked <= Cardinality(saving'.done)
    BY <2>1, <2>2, <2>4
  <2> QED BY <1>2, <2>1, <2>2, <2>5 DEF ApSaving
<1> QED BY <1>4, <1>5, <1>6, <1>7, <1>8 DEF ApInv

LEMMA ApFinished ==
    ASSUME ApConstants, ApInv, NEW m \in Loads, AP!Finished(m)
    PROVE  ApInv'
<1>1. saving # None /\ saving' = None /\ UNCHANGED <<window, hold, wrong, tab, search, page, form>>
  BY DEF AP!Finished, AP!serverVars, AP!placeVars
<1>2. ApServer' /\ ApSaving' /\ AP!Here' = AP!Here
  BY <1>1 DEF ApInv, ApServer, ApSaving, AP!Here
<1>3. dialogRows' \in {dialogRows, AP!NoRows} /\ selectedIds' \in {selectedIds, {}}
  BY DEF AP!Finished
<1>4. ApPlace' /\ ApDialog'
  BY <1>1, <1>3 DEF ApInv, ApPlace, ApDialog, ApListing, AP!NoRows
<1>5. CASE saving.booked > 0
  <2>1. refreshed' = TRUE /\ AP!Fetch(AP!Here, m, FALSE)
    BY <1>5 DEF AP!Finished
  <2>2. AP!Here \in AP!Keys
    BY ApKeys DEF ApInv
  <2>3. ApList' /\ ApNewest'
    BY <1>2, <2>1, <2>2, ApFetched
  <2> QED BY <1>2, <1>4, <2>3 DEF ApInv
<1>6. CASE ~(saving.booked > 0)
  <2>1. UNCHANGED <<data, error, loading, cached, loads, newest, refreshed>>
    BY <1>6 DEF AP!Finished, AP!listVars
  <2>2. ApList' /\ ApNewest'
    BY <1>2, <2>1 DEF ApInv, ApList, ApListing, ApNewest
  <2> QED BY <1>2, <1>4, <2>2 DEF ApInv
<1> QED BY <1>5, <1>6

LEMMA ApOthers ==
    ASSUME ApConstants, ApInv, AP!OthersAct
    PROVE  ApInv'
<1>1. UNCHANGED <<wrong, tab, search, page, data, error, loading, cached, loads, newest, refreshed, selectedIds, dialogRows, form, saving>>
  BY DEF AP!OthersAct, AP!placeVars, AP!listVars
<1>2. PICK p \in Lrs : \/ window' = [window EXCEPT ![p] = "theirs"] /\ hold' = hold
                       \/ hold' = [hold EXCEPT ![p] = IF @ = "none" THEN "other" ELSE "none"] /\ window' = window
  BY DEF AP!OthersAct
<1>3. ApServer'
  BY <1>1, <1>2 DEF ApInv, ApServer, ApWindows, ApHolds
<1> QED BY <1>1, <1>3 DEF ApInv, ApPlace, ApList, ApListing, ApNewest, ApDialog, ApSaving, AP!Here

LEMMA ApNext == ApConstants /\ ApInv /\ [AP!Next]_(AP!vars) => ApInv'
<1> SUFFICES ASSUME ApConstants, ApInv, [AP!Next]_(AP!vars) PROVE ApInv'
  OBVIOUS
<1>1. CASE AP!Next
  BY <1>1, ApOthers, ApPerson, ApRead, ApTurned, ApFinished, ApBooked DEF AP!Next
<1>2. CASE UNCHANGED AP!vars
  BY <1>2 DEF AP!vars, ApInv, ApServer, ApPlace, ApList, ApListing, ApNewest, ApDialog, ApSaving, AP!Here
<1> QED BY <1>1, <1>2

\* Types; a booking ends no hold that waits for something else; the rows are those of the place chosen last unless they
\* are being read or could not be, while nothing has been booked; a window is booked for LRs of the dialog and no more
\* are counted as booked than were; and the dialog is opened for listed rows only (b2b/appointments/page.tsx).
THEOREM BookedAsListed ==
    ASSUME ApConstants
    PROVE  AP!Spec => [](AP!TypeOK /\ AP!OncePerIntent /\ AP!ActedAsShown)
<1>1. AP!Init => ApInv
  BY ApInit
<1>2. ApInv /\ [AP!Next]_(AP!vars) => ApInv'
  BY ApNext
<1>3. ApInv => AP!TypeOK /\ AP!OncePerIntent /\ AP!ActedAsShown
  <2> SUFFICES ASSUME ApInv PROVE AP!TypeOK /\ AP!OncePerIntent /\ AP!ActedAsShown
    OBVIOUS
  <2>1. AP!TypeOK
    BY ApKeys DEF ApInv, ApServer, ApPlace, ApList, ApDialog, ApWindows, ApHolds, AP!TypeOK
  <2>2. AP!OncePerIntent
    BY DEF ApInv, ApServer, AP!OncePerIntent
  <2>3. ~refreshed /\ data.of # AP!Here => loading \/ error
    BY DEF ApInv, ApNewest
  <2>4. saving # None => saving.done \subseteq saving.rows \ saving.left /\ saving.form # None
    BY DEF ApInv, ApSaving, ApConstants
  <2>5. saving # None => AP!Toast(saving).booked <= AP!Cardinality(saving.done)
    BY ApCounts DEF ApInv, ApSaving, AP!Toast, AP!SaysCounts
  <2>6. \A p \in DOMAIN dialogRows : dialogRows[p].window # "gone"
    BY DEF ApInv, ApDialog, ApListing, ApWindows, ApConstants
  <2> QED BY <2>1, <2>2, <2>3, <2>4, <2>5, <2>6 DEF AP!ActedAsShown
<1> QED BY <1>1, <1>2, <1>3, PTL DEF AP!Spec

\* Reads, answers and failures leave the window that is being chosen as it is.
THEOREM AppointmentTypingKept == AP!Spec => [][AP!KeepsTyping]_(AP!vars)
<1>1. [AP!Next]_(AP!vars) => [AP!KeepsTyping]_(AP!vars)
  <2> SUFFICES ASSUME AP!Next, AP!IsOpen, loads' # loads \/ saving' # saving PROVE form' = form
    BY DEF AP!KeepsTyping
  <2>1. ~AP!ChooseWindow /\ ~AP!OpenRow /\ ~AP!OpenBulk
    BY DEF AP!ChooseWindow, AP!OpenRow, AP!OpenBulk, AP!Open, AP!Browsing, AP!listVars
  <2> QED BY <2>1 DEF AP!Next, AP!OthersAct, AP!ToggleRow, AP!ToggleAll, AP!Close, AP!HandleSubmit, AP!ReadList, AP!ListAnswered,
       AP!ListFails, AP!ChangeFilter, AP!TurnPage, AP!ChangePlace, AP!Finished, AP!BookNext, AP!FormOnReload, AP!FormKept
<1> QED BY <1>1, PTL DEF AP!Spec

-----------------------------------------------------------------------------
(* The address book: what a shipment was booked with stays as it was, an address  *)
(* added again is in the book once, and a verified city is that of its pincode.    *)

CONSTANTS Ids, Seed, Admin, Filters, Reads, MaxOpens
VARIABLES book, booked, readded, edited, rows, filter, reads, dialog, geo, opens, confirm, removing
AB == INSTANCE AddressBook

AbForms == [name : Nat, pin : Nat, city : Nat, extra : Nat, scope : AB!Scopes]
AbRows == [name : Nat, pin : Nat, city : Nat, extra : Nat, scope : AB!Scopes, owner : {"me", "they"}, saved : BOOLEAN]
AbGeo == [verified : BOOLEAN, lookup : Nat, kept : BOOLEAN]
AbBooks == [Ids -> AbRows \cup {None}]

AbUnique(bk) ==
    \A i, j \in AB!Rows(bk) : AB!Visible(bk[i], "me") /\ AB!Visible(bk[j], "me") /\ AB!Alike(bk[i], bk[j]) => i = j
AbConstants ==
    /\ None \notin AbRows /\ None # "failed" /\ DOMAIN Seed \subseteq Ids /\ \A i \in DOMAIN Seed : Seed[i] \in AbRows
    /\ AbUnique([i \in Ids |-> IF i \in DOMAIN Seed THEN Seed[i] ELSE None])

AbListing(L, bk) == DOMAIN L \subseteq AB!Rows(bk) /\ \A i \in DOMAIN L : L[i] \in AbRows

AbServer ==
    /\ book \in AbBooks /\ DOMAIN booked = Ids /\ edited \in BOOLEAN /\ (~edited => AbUnique(book))
    /\ \A i \in Ids : booked[i] # None => book[i] # None /\ (i \notin readded => AB!Contents(book[i]) = booked[i])
AbList ==
    /\ AbListing(rows, book) /\ DOMAIN reads = Reads
    /\ \A k \in Reads : reads[k] = [at |-> reads[k].at, rows |-> reads[k].rows] /\ (reads[k].at = "read" => AbListing(reads[k].rows, book))
AbDialog ==
    /\ dialog # None => dialog.mode \in AB!Modes /\ (dialog.mode = "edit" => dialog.of \in AB!Rows(book))
    /\ form \in [AB!Modes -> AbForms] /\ geo \in [AB!Modes -> AbGeo] /\ DOMAIN saving = AB!Modes
    /\ \A m \in AB!Modes : /\ saving[m] = [at |-> saving[m].at, of |-> saving[m].of, body |-> saving[m].body]
                           /\ saving[m].at # "idle" => saving[m].body \in AbForms /\ (m = "edit" => saving[m].of \in AB!Rows(book))

\* A pincode that is looked up is that of the form, open or shut; a city that is marked is its pincode's.
AbCity ==
    /\ \A m \in AB!Modes : geo[m].lookup # 0 => geo[m].lookup = form[m].pin
    /\ dialog # None => LET g == geo[dialog.mode]
                        IN  g.verified /\ g.lookup = 0 /\ ~g.kept => form[dialog.mode].city = form[dialog.mode].pin
AbQuestion ==
    /\ confirm \in AB!Rows(book) \cup {None}
    /\ removing = [at |-> removing.at, of |-> removing.of, list |-> removing.list]
    /\ removing.at # "idle" => removing.of \in AB!Rows(book) /\ AbListing(removing.list, book)
AbInv == AbServer /\ AbList /\ AbDialog /\ AbCity /\ AbQuestion

(* The operations of the server.                                           *)

LEMMA AbFields == DOMAIN AB!Blank = {"name", "pin", "city", "extra", "scope"}
BY DEF AB!Blank

\* The same five fields are the same contents.
LEMMA AbSame ==
    ASSUME NEW r, NEW s, r.name = s.name, r.pin = s.pin, r.city = s.city, r.extra = s.extra, r.scope = s.scope
    PROVE  AB!Contents(r) = AB!Contents(s)
<1>1. \A f \in DOMAIN AB!Blank : r[f] = s[f]
  BY AbFields
<1> QED BY <1>1 DEF AB!Contents

LEMMA AbContents ==
    ASSUME NEW r \in AbRows
    PROVE  AB!Contents(r) \in AbForms /\ AB!Contents(r).pin = r.pin
BY AbFields DEF AB!Contents, AbRows, AbForms

LEMMA AbRow ==
    ASSUME NEW c, c.name \in Nat, c.pin \in Nat, c.city \in Nat, c.extra \in Nat, c.scope \in AB!Scopes, NEW u \in {"me", "they"}
    PROVE  /\ AB!Row(c, u) \in AbRows /\ AB!Row(c, u).name = c.name /\ AB!Row(c, u).pin = c.pin
           /\ AB!Row(c, u).owner = u /\ AB!Row(c, u).scope = c.scope
BY DEF AB!Row, AbRows

LEMMA AbCreated ==
    ASSUME AbConstants, NEW bk \in AbBooks, NEW c \in AbForms, NEW new \in AB!Created(bk, c, "me")
    PROVE  new \in AbBooks /\ AB!Rows(bk) \subseteq AB!Rows(new) /\ (AbUnique(bk) => AbUnique(new))
<1> DEFINE r == AB!Row(c, "me")
           found == AB!Matching(bk, c, "me")
<1>1. r \in AbRows /\ r.name = c.name /\ r.pin = c.pin /\ r # None
  BY AbRow DEF AbForms, AbConstants
<1>2. found = {i \in AB!Rows(bk) : AB!Alike(bk[i], c) /\ AB!Visible(bk[i], "me")}
  BY DEF AB!Matching, AB!Duplicates
<1>3. new \in (IF found = {} THEN {[bk EXCEPT ![i] = r] : i \in AB!Fresh(bk)}
               ELSE {[bk EXCEPT ![i] = IF bk[i].saved THEN bk[i] ELSE r] : i \in found})
  BY DEF AB!Created
<1> HIDE DEF r, found
<1>4. PICK i \in Ids : \/ new = [bk EXCEPT ![i] = r] /\ (found = {} \/ i \in found)
                       \/ new = bk
  <2>1. CASE found = {}
    BY <1>3, <2>1 DEF AB!Fresh
  <2>2. CASE found # {}
    <3>1. PICK i \in found : new = [bk EXCEPT ![i] = IF bk[i].saved THEN bk[i] ELSE r]
      BY <1>3, <2>2
    <3>2. i \in Ids
      BY <1>2 DEF AB!Rows
    <3> QED BY <3>1, <3>2 DEF AbBooks
  <2> QED BY <2>1, <2>2
<1>5. CASE new = bk
  BY <1>5
<1>6. CASE new = [bk EXCEPT ![i] = r] /\ (found = {} \/ i \in found)
  <2>1. new \in AbBooks /\ new[i] = r /\ \A j \in Ids : j # i => new[j] = bk[j]
    BY <1>1, <1>6 DEF AbBooks
  <2>2. AB!Rows(bk) \subseteq AB!Rows(new) /\ \A j \in AB!Rows(new) : j # i => j \in AB!Rows(bk)
    BY <1>1, <2>1 DEF AB!Rows
  <2>3. ASSUME AbUnique(bk), NEW j \in AB!Rows(new), j # i, AB!Visible(new[j], "me"), AB!Alike(new[j], r) \/ AB!Alike(r, new[j]) PROVE FALSE
    <3>1. j \in AB!Rows(bk) /\ new[j] = bk[j]
      BY <2>1, <2>2, <2>3 DEF AB!Rows
    <3>2. AB!Alike(bk[j], c)
      BY <1>1, <2>3, <3>1 DEF AB!Alike
    <3>3. j \in found
      BY <1>2, <2>3, <3>1, <3>2
    <3>4. i \in AB!Rows(bk) /\ AB!Visible(bk[i], "me") /\ AB!Alike(bk[i], c)
      BY <1>2, <1>6, <3>3
    <3>5. AB!Alike(bk[i], bk[j])
      BY <3>2, <3>4 DEF AB!Alike
    <3> QED BY <2>3, <3>1, <3>4, <3>5 DEF AbUnique
  <2>4. AbUnique(bk) => AbUnique(new)
    <3> SUFFICES ASSUME AbUnique(bk), NEW k \in AB!Rows(new), NEW j \in AB!Rows(new), AB!Visible(new[k], "me"), AB!Visible(new[j], "me"),
                        AB!Alike(new[k], new[j]), k # j
                 PROVE  FALSE
      BY DEF AbUnique
    <3>1. CASE k = i
      BY <2>1, <2>3, <3>1
    <3>2. CASE j = i
      BY <2>1, <2>3, <3>2
    <3>3. CASE k # i /\ j # i
      <4>1. new[k] = bk[k] /\ new[j] = bk[j] /\ k \in AB!Rows(bk) /\ j \in AB!Rows(bk)
        BY <2>1, <2>2, <3>3 DEF AB!Rows
      <4> QED BY <4>1 DEF AbUnique
    <3> QED BY <3>1, <3>2, <3>3
  <2> QED BY <2>1, <2>2, <2>4
<1> QED BY <1>4, <1>5, <1>6

\* A change keeps every row there is, and the contents of those that are booked.
LEMMA AbUpdated ==
    ASSUME AbConstants, AbServer, NEW i \in AB!Rows(book), NEW c \in AbForms, NEW u \in {"me", "they"},
           NEW new \in AB!Updated(book, i, c, u)
    PROVE  /\ new \in AbBooks /\ AB!Rows(book) \subseteq AB!Rows(new)
           /\ \A k \in Ids : booked[k] # None => AB!Contents(new[k]) = AB!Contents(book[k])
<1> DEFINE r == AB!MergedValues(book[i], c)
           written == [book EXCEPT ![i] = r]
<1>1. i \in Ids /\ book[i] \in AbRows /\ book \in [Ids -> AbRows \cup {None}] /\ \A k \in Ids : book[k] # None => book[k] \in AbRows
  BY DEF AbServer, AbBooks, AB!Rows
<1>2. r \in AbRows
  BY <1>1 DEF AB!MergedValues, AbRows, AbForms
<1>3. \A x \in AbRows : [x EXCEPT !.saved = FALSE] \in AbRows /\ AB!Contents([x EXCEPT !.saved = FALSE]) = AB!Contents(x)
  <2> TAKE x \in AbRows
  <2> DEFINE y == [x EXCEPT !.saved = FALSE]
  <2>1. y \in AbRows /\ y.name = x.name /\ y.pin = x.pin /\ y.city = x.city /\ y.extra = x.extra /\ y.scope = x.scope
    BY DEF AbRows
  <2> HIDE DEF y
  <2>2. AB!Contents(y) = AB!Contents(x)
    BY <2>1, AbSame
  <2> QED BY <2>1, <2>2 DEF y
<1>4. None \notin AbRows
  BY DEF AbConstants
<1> HIDE DEF r
<1>5. CASE AB!KeepsTheRow(i)
  <2>1. PICK j \in AB!Fresh(book) : new = [book EXCEPT ![i].saved = FALSE, ![j] = r]
    BY <1>5 DEF AB!Updated, r
  <2>2. j \in Ids /\ book[j] = None /\ j # i
    BY <1>1, <1>4, <2>1 DEF AB!Fresh, AB!Rows
  <2>3. /\ DOMAIN new = Ids /\ new = [k \in Ids |-> new[k]] /\ new[j] = r /\ new[i] = [book[i] EXCEPT !.saved = FALSE]
        /\ \A k \in Ids : k # i /\ k # j => new[k] = book[k]
    BY <1>1, <2>1, <2>2
  <2>4. \A k \in Ids : new[k] \in AbRows \cup {None} /\ (book[k] # None => new[k] # None)
    BY <1>1, <1>2, <1>3, <1>4, <2>2, <2>3
  <2>5. new \in AbBooks
    BY <2>3, <2>4 DEF AbBooks
  <2>6. \A k \in Ids : booked[k] # None => k # j
    BY <2>2 DEF AbServer
  <2>7. \A k \in Ids : k # j => AB!Contents(new[k]) = AB!Contents(book[k])
    BY <1>1, <1>3, <2>3
  <2> QED BY <2>4, <2>5, <2>6, <2>7 DEF AB!Rows
<1>6. CASE ~AB!KeepsTheRow(i)
  <2>1. booked[i] = None
    BY <1>6 DEF AB!KeepsTheRow, AB!IsReferenced
  <2>2. /\ written \in [Ids -> AbRows \cup {None}] /\ written[i] = r /\ \A k \in Ids : k # i => written[k] = book[k]
    BY <1>1, <1>2
  <2>3. new = written \/ \E j \in AB!Matching(written, r, u) : new = AB!Deduplicated(written, i, j, u)
    BY <1>6 DEF AB!Updated, r
  <2> HIDE DEF written
  <2>4. CASE new = written
    <3>1. \A k \in Ids : book[k] # None => new[k] # None
      BY <1>2, <1>4, <2>2, <2>4
    <3>2. \A k \in Ids : booked[k] # None => new[k] = book[k]
      BY <2>1, <2>2, <2>4
    <3> QED BY <2>2, <2>4, <3>1, <3>2 DEF AbBooks, AB!Rows
  <2>5. CASE new # written
    <3>1. PICK j \in AB!Matching(written, r, u) : new = AB!Deduplicated(written, i, j, u)
      BY <2>3, <2>5
    <3>2. j \in Ids /\ written[j] # None
      BY DEF AB!Matching, AB!Duplicates, AB!Rows
    <3> DEFINE s == IF written[j].saved THEN written[j] ELSE AB!Row(written[i], u)
    <3>3. j # i /\ ~(~written[j].saved /\ booked[j] # None) /\ new = [written EXCEPT ![i].saved = FALSE, ![j] = s]
      BY <2>5, <3>1 DEF AB!Deduplicated
    <3>4. s \in AbRows /\ (booked[j] # None => s = book[j])
      <4>1. written[j] \in AbRows /\ written[j] = book[j] /\ r.name \in Nat /\ r.pin \in Nat /\ r.city \in Nat /\ r.extra \in Nat /\ r.scope \in AB!Scopes
        BY <1>2, <2>2, <3>2, <3>3 DEF AbRows
      <4>2. AB!Row(r, u) \in AbRows
        BY <4>1, AbRow
      <4> QED BY <2>2, <3>3, <4>1, <4>2
    <3> HIDE DEF s
    <3>5. /\ DOMAIN new = Ids /\ new = [k \in Ids |-> new[k]] /\ new[j] = s /\ new[i] = [r EXCEPT !.saved = FALSE]
          /\ \A k \in Ids : k # i /\ k # j => new[k] = book[k]
      BY <1>1, <2>2, <3>2, <3>3
    <3>6. \A k \in Ids : new[k] \in AbRows \cup {None} /\ (book[k] # None => new[k] # None)
      BY <1>1, <1>2, <1>3, <1>4, <3>4, <3>5
    <3>7. new \in AbBooks
      BY <3>5, <3>6 DEF AbBooks
    <3>8. \A k \in Ids : booked[k] # None => new[k] = book[k]
      BY <2>1, <3>4, <3>5
    <3> QED BY <3>6, <3>7, <3>8 DEF AB!Rows
  <2> QED BY <2>4, <2>5
<1> QED BY <1>5, <1>6

LEMMA AbRemoved ==
    ASSUME AbConstants, AbServer, NEW i \in AB!Rows(book), NEW u, NEW new \in AB!Removed(book, i, u)
    PROVE  /\ new \in AbBooks /\ AB!Rows(book) \subseteq AB!Rows(new) /\ (AbUnique(book) => AbUnique(new))
           /\ \A k \in Ids : booked[k] # None => AB!Contents(new[k]) = AB!Contents(book[k])
<1>1. i \in Ids /\ book[i] \in AbRows /\ book \in [Ids -> AbRows \cup {None}] /\ None \notin AbRows
  BY DEF AbServer, AbBooks, AB!Rows, AbConstants
<1> DEFINE y == [book[i] EXCEPT !.saved = FALSE]
<1>2. y \in AbRows /\ y.name = book[i].name /\ y.pin = book[i].pin /\ y.city = book[i].city /\ y.extra = book[i].extra
      /\ y.scope = book[i].scope /\ y.owner = book[i].owner
  BY <1>1 DEF AbRows
<1>3. new = [book EXCEPT ![i] = y]
  BY DEF AB!Removed
<1> HIDE DEF y
<1>4. new \in AbBooks /\ new[i] = y /\ \A k \in Ids : k # i => new[k] = book[k]
  BY <1>1, <1>2, <1>3 DEF AbBooks
<1>5. AB!Rows(new) = AB!Rows(book)
  BY <1>1, <1>2, <1>4 DEF AB!Rows
<1>6. AB!Contents(y) = AB!Contents(book[i])
  BY <1>2, AbSame
<1>7. \A k \in AB!Rows(book) : new[k].name = book[k].name /\ new[k].pin = book[k].pin /\ new[k].scope = book[k].scope /\ new[k].owner = book[k].owner
  BY <1>2, <1>4 DEF AB!Rows
<1>8. AbUnique(book) => AbUnique(new)
  BY <1>5, <1>7 DEF AbUnique, AB!Visible, AB!Alike
<1> QED BY <1>4, <1>5, <1>6, <1>8

(* The steps.                                                              *)

LEMMA AbListed ==
    ASSUME NEW L, NEW bk, NEW new, AbListing(L, bk), AB!Rows(bk) \subseteq AB!Rows(new)
    PROVE  AbListing(L, new)
BY DEF AbListing

\* What is on the page stays well formed when rows are added to the book.
LEMMA AbPage ==
    ASSUME AbInv, AB!Rows(book) \subseteq AB!Rows(book'), UNCHANGED <<rows, reads, dialog, form, geo, confirm>>
    PROVE  AbList' /\ AbCity' /\ (confirm \in AB!Rows(book) \cup {None})'
           /\ (dialog # None => dialog.mode \in AB!Modes /\ (dialog.mode = "edit" => dialog.of \in AB!Rows(book)))'
<1>1. AbListing(rows, book') /\ \A k \in Reads : reads[k].at = "read" => AbListing(reads[k].rows, book')
  BY AbListed DEF AbInv, AbList
<1>2. AbList'
  BY <1>1 DEF AbInv, AbList
<1>3. AbCity'
  BY DEF AbInv, AbCity
<1> QED BY <1>2, <1>3 DEF AbInv, AbDialog, AbQuestion

LEMMA AbKeptQuestion ==
    ASSUME AbInv, AB!Rows(book) \subseteq AB!Rows(book'), UNCHANGED <<confirm, removing>>
    PROVE  AbQuestion'
<1>1. removing.at # "idle" => AbListing(removing.list, book')
  BY AbListed DEF AbInv, AbQuestion
<1> QED BY <1>1 DEF AbInv, AbQuestion

LEMMA AbOthers ==
    ASSUME AbConstants, AbInv, AB!OthersAct
    PROVE  AbInv'
<1>1. UNCHANGED <<readded, rows, reads, dialog, form, geo, saving, confirm, removing>>
  BY DEF AB!OthersAct, AB!listVars, AB!dialogVars, AB!questionVars
<1>2. PICK i \in AB!Rows(book) :
        \/ booked' = [booked EXCEPT ![i] = AB!Contents(book[i])] /\ UNCHANGED <<book, edited>>
        \/ /\ book' \in AB!Updated(book, i, [AB!Contents(book[i]) EXCEPT !.extra = 2], "they") \cup AB!Removed(book, i, "they")
           /\ edited' = TRUE /\ booked' = booked
  BY DEF AB!OthersAct
<1>3. i \in Ids /\ book[i] \in AbRows /\ book[i] # None
  BY DEF AbInv, AbServer, AbBooks, AB!Rows
<1>4. AbServer' /\ AB!Rows(book) \subseteq AB!Rows(book')
  <2>1. CASE booked' = [booked EXCEPT ![i] = AB!Contents(book[i])] /\ UNCHANGED <<book, edited>>
    <3>1. DOMAIN booked' = Ids /\ \A k \in Ids : booked'[k] = booked[k] \/ (k = i /\ booked'[k] = AB!Contents(book[i]))
      BY <2>1 DEF AbInv, AbServer
    <3> QED BY <1>1, <1>3, <2>1, <3>1 DEF AbInv, AbServer
  <2>2. CASE book' \in AB!Updated(book, i, [AB!Contents(book[i]) EXCEPT !.extra = 2], "they") /\ edited' = TRUE /\ booked' = booked
    <3> DEFINE c == [AB!Contents(book[i]) EXCEPT !.extra = 2]
    <3>1. AB!Contents(book[i]) \in AbForms
      BY <1>3, AbContents
    <3>2. c \in AbForms
      BY <3>1 DEF AbForms
    <3> HIDE DEF c
    <3>3. /\ book' \in AbBooks /\ AB!Rows(book) \subseteq AB!Rows(book')
          /\ \A k \in Ids : booked[k] # None => AB!Contents(book'[k]) = AB!Contents(book[k])
      BY <2>2, <3>2, AbUpdated DEF AbInv, c
    <3> QED BY <1>1, <2>2, <3>3 DEF AbInv, AbServer, AB!Rows
  <2>3. CASE book' \in AB!Removed(book, i, "they") /\ edited' = TRUE /\ booked' = booked
    <3>1. /\ book' \in AbBooks /\ AB!Rows(book) \subseteq AB!Rows(book')
          /\ \A k \in Ids : booked[k] # None => AB!Contents(book'[k]) = AB!Contents(book[k])
      BY <2>3, AbRemoved DEF AbInv
    <3> QED BY <1>1, <2>3, <3>1 DEF AbInv, AbServer, AB!Rows
  <2> QED BY <1>2, <2>1, <2>2, <2>3
<1>5. AbDialog'
  BY <1>1, <1>4, AbPage DEF AbInv, AbDialog
<1> QED BY <1>1, <1>4, <1>5, AbPage, AbKeptQuestion DEF AbInv

\* A save is served, or refused.
LEMMA AbServed ==
    ASSUME AbConstants, AbInv,
           (\E m \in AB!Modes, a, b \in BOOLEAN : AB!ServeSave(m, a, b)) \/ AB!RefuseSave
    PROVE  AbInv'
<1>1. UNCHANGED <<booked, rows, reads, dialog, form, geo, confirm, removing>>
  BY DEF AB!ServeSave, AB!RefuseSave, AB!serverVars, AB!listVars, AB!questionVars
<1>2. PICK m \in AB!Modes, at \in {"answered", "failed"} : saving[m].at = "going" /\ saving' = [saving EXCEPT ![m].at = at]
  BY DEF AB!ServeSave, AB!RefuseSave, AB!Modes
<1>3. AbServer' /\ AB!Rows(book) \subseteq AB!Rows(book')
  <2>1. CASE AB!RefuseSave
    BY <2>1 DEF AB!RefuseSave, AB!serverVars, AbInv, AbServer
  <2>2. ASSUME NEW n \in AB!Modes, NEW a \in BOOLEAN, NEW b \in BOOLEAN, AB!ServeSave(n, a, b)
        PROVE  AbServer' /\ AB!Rows(book) \subseteq AB!Rows(book')
    <3>1. saving[n].at = "going" /\ saving[n].body \in AbForms /\ (n = "edit" => saving[n].of \in AB!Rows(book))
      BY <2>2 DEF AB!ServeSave, AbInv, AbDialog
    <3>2. CASE ~a
      <4>1. book' = book /\ (readded' = readded \/ readded' = readded \cup {}) /\ edited' = edited
        BY <2>2, <3>2 DEF AB!ServeSave, AbInv, AbServer
      <4> QED BY <1>1, <4>1 DEF AbInv, AbServer
    <3>3. CASE a /\ n = "add"
      <4>1. /\ book' \in AB!Created(book, saving[n].body, "me") /\ edited' = edited
            /\ readded' = readded \cup {i \in Ids : booked[i] # None /\ book[i] # book'[i]}
        BY <2>2, <3>3 DEF AB!ServeSave, AB!Outcomes, AbInv, AbServer
      <4>2. book' \in AbBooks /\ AB!Rows(book) \subseteq AB!Rows(book') /\ (AbUnique(book) => AbUnique(book'))
        BY <3>1, <4>1, AbCreated DEF AbInv, AbServer
      <4>3. \A i \in Ids : booked[i] # None /\ i \notin readded' => book'[i] = book[i]
        BY <4>1
      <4> QED BY <1>1, <4>1, <4>2, <4>3 DEF AbInv, AbServer, AB!Rows
    <3>4. CASE a /\ n = "edit"
      <4>1. /\ book' \in AB!Updated(book, saving[n].of, saving[n].body, "me") /\ edited' = TRUE /\ readded' = readded
        BY <2>2, <3>4 DEF AB!ServeSave, AB!Outcomes
      <4>2. /\ book' \in AbBooks /\ AB!Rows(book) \subseteq AB!Rows(book')
            /\ \A k \in Ids : booked[k] # None => AB!Contents(book'[k]) = AB!Contents(book[k])
        BY <3>1, <3>4, <4>1, AbUpdated DEF AbInv
      <4> QED BY <1>1, <4>1, <4>2 DEF AbInv, AbServer, AB!Rows
    <3> QED BY <3>2, <3>3, <3>4 DEF AB!Modes
  <2> QED BY <2>1, <2>2
<1>4. \A n \in AB!Modes : /\ saving'[n] = [at |-> saving'[n].at, of |-> saving'[n].of, body |-> saving'[n].body]
                         /\ saving'[n].at # "idle" => saving[n].at # "idle"
                         /\ saving'[n].of = saving[n].of /\ saving'[n].body = saving[n].body
  BY <1>2 DEF AbInv, AbDialog
<1>5. AbDialog'
  BY <1>1, <1>2, <1>3, <1>4, AbPage DEF AbInv, AbDialog
<1> QED BY <1>1, <1>3, <1>5, AbPage, AbKeptQuestion DEF AbInv

\* The question before a row is removed, and its answer.
LEMMA AbAsked ==
    ASSUME AbConstants, AbInv,
           \/ \E i \in Ids : AB!AskToRemove(i)
           \/ AB!LeaveQuestion
           \/ AB!ExecuteDelete
           \/ \E a, b \in BOOLEAN : AB!ServeRemove(a, b)
           \/ AB!RemoveFailed
    PROVE  AbInv'
<1>1. UNCHANGED <<booked, readded, edited, rows, reads, dialog, form, geo, saving>>
  BY DEF AB!AskToRemove, AB!LeaveQuestion, AB!ExecuteDelete, AB!ServeRemove, AB!RemoveFailed, AB!serverVars, AB!listVars, AB!dialogVars
<1>2. AbServer' /\ AB!Rows(book) \subseteq AB!Rows(book')
  <2>1. CASE \E a, b \in BOOLEAN : AB!ServeRemove(a, b)
    <3>1. removing.at = "going" /\ (book' = book \/ book' \in AB!Removed(book, removing.of, "me"))
      BY <2>1 DEF AB!ServeRemove
    <3>2. CASE book' = book
      BY <1>1, <3>2 DEF AbInv, AbServer
    <3>3. CASE book' \in AB!Removed(book, removing.of, "me")
      <4>1. removing.of \in AB!Rows(book)
        BY <3>1 DEF AbInv, AbQuestion
      <4>2. /\ book' \in AbBooks /\ AB!Rows(book) \subseteq AB!Rows(book') /\ (AbUnique(book) => AbUnique(book'))
            /\ \A k \in Ids : booked[k] # None => AB!Contents(book'[k]) = AB!Contents(book[k])
        BY <3>3, <4>1, AbRemoved DEF AbInv
      <4> QED BY <1>1, <4>2 DEF AbInv, AbServer, AB!Rows
    <3> QED BY <3>1, <3>2, <3>3
  <2>2. CASE ~\E a, b \in BOOLEAN : AB!ServeRemove(a, b)
    <3>1. book' = book
      BY <2>2 DEF AB!AskToRemove, AB!LeaveQuestion, AB!ExecuteDelete, AB!RemoveFailed, AB!serverVars
    <3> QED BY <1>1, <3>1 DEF AbInv, AbServer
  <2> QED BY <2>1, <2>2
<1>3. AbList'
  <2>1. AbListing(rows, book') /\ \A k \in Reads : reads[k].at = "read" => AbListing(reads[k].rows, book')
    BY <1>2, AbListed DEF AbInv, AbList
  <2> QED BY <1>1, <2>1 DEF AbInv, AbList
<1>4. AbDialog' /\ AbCity'
  BY <1>1, <1>2 DEF AbInv, AbDialog, AbCity
<1>5. AbQuestion'
  <2>1. CASE \E i \in Ids : AB!AskToRemove(i)
    <3>1. PICK i \in Ids : AB!AskToRemove(i)
      BY <2>1
    <3>2. confirm' = i /\ removing' = removing /\ book' = book /\ i \in AB!Rows(book)
      BY <3>1 DEF AB!AskToRemove, AB!IsEditable, AB!FilteredRows, AB!serverVars, AbInv, AbList, AbListing
    <3> QED BY <3>2 DEF AbInv, AbQuestion
  <2>2. CASE AB!LeaveQuestion
    BY <2>2 DEF AB!LeaveQuestion, AB!serverVars, AbInv, AbQuestion
  <2>3. CASE AB!ExecuteDelete
    <3>1. confirm # None /\ removing' = [at |-> "going", of |-> confirm, list |-> rows] /\ UNCHANGED <<book, confirm>>
      BY <2>3 DEF AB!ExecuteDelete, AB!serverVars
    <3> QED BY <3>1 DEF AbInv, AbQuestion, AbList
  <2>4. CASE \E a, b \in BOOLEAN : AB!ServeRemove(a, b)
    <3>1. PICK at \in {"answered", "failed"} : removing.at = "going" /\ removing' = [removing EXCEPT !.at = at] /\ confirm' = confirm
      BY <2>4 DEF AB!ServeRemove
    <3>2. removing' = [at |-> removing'.at, of |-> removing'.of, list |-> removing'.list] /\ removing'.of = removing.of /\ removing'.list = removing.list
      BY <3>1 DEF AbInv, AbQuestion
    <3>3. AbListing(removing.list, book') /\ removing.of \in AB!Rows(book)
      BY <1>2, <3>1, AbListed DEF AbInv, AbQuestion
    <3> QED BY <1>2, <3>1, <3>2, <3>3 DEF AbInv, AbQuestion
  <2>5. CASE AB!RemoveFailed
    <3>1. removing' = [at |-> "idle", of |-> None, list |-> None] /\ UNCHANGED <<book, confirm>>
      BY <2>5 DEF AB!RemoveFailed, AB!NotRemoving, AB!serverVars
    <3> QED BY <3>1 DEF AbInv, AbQuestion
  <2> QED BY <2>1, <2>2, <2>3, <2>4, <2>5
<1> QED BY <1>2, <1>3, <1>4, <1>5 DEF AbInv

LEMMA AbInit == AbConstants /\ AB!Init => AbInv
<1> SUFFICES ASSUME AbConstants, AB!Init PROVE AbInv
  OBVIOUS
<1>1. AbServer
  <2>1. book \in AbBooks
    BY DEF AB!Init, AbBooks, AbConstants
  <2>2. AbUnique(book)
    BY DEF AB!Init, AbConstants
  <2> QED BY <2>1, <2>2 DEF AB!Init, AbServer
<1>2. AbList
  <2>1. \A k \in Reads : reads[k].at \in {"idle", "going"} /\ reads[k] = [at |-> reads[k].at, rows |-> reads[k].rows]
    <3>1. AB!NoRead = [at |-> AB!NoRead.at, rows |-> AB!NoRead.rows] /\ AB!NoRead.at = "idle"
      BY DEF AB!NoRead
    <3>2. ASSUME NEW x, NEW y, x = [at |-> x.at, rows |-> x.rows], y = [x EXCEPT !.at = "going"]
          PROVE  y = [at |-> y.at, rows |-> y.rows] /\ y.at = "going"
      BY <3>2
    <3> DEFINE y == [AB!NoRead EXCEPT !.at = "going"]
    <3>3. y = [at |-> y.at, rows |-> y.rows] /\ y.at = "going"
      BY <3>1, <3>2
    <3> HIDE DEF y
    <3>4. \A k \in Reads : reads[k] = y \/ reads[k] = AB!NoRead
      BY DEF AB!Init, y
    <3> QED BY <3>1, <3>3, <3>4
  <2>2. DOMAIN reads = Reads /\ DOMAIN rows = {}
    BY DEF AB!Init
  <2> QED BY <2>1, <2>2 DEF AbList, AbListing
<1>3. AbDialog /\ AbCity
  <2>1. AB!Blank \in AbForms /\ AB!NoLookup \in AbGeo /\ AB!NoLookup.lookup = 0
    BY DEF AB!Blank, AbForms, AB!Scopes, AB!NoLookup, AbGeo
  <2>2. AB!NotSaving = [at |-> AB!NotSaving.at, of |-> AB!NotSaving.of, body |-> AB!NotSaving.body] /\ AB!NotSaving.at = "idle"
    BY DEF AB!NotSaving
  <2> QED BY <2>1, <2>2 DEF AB!Init, AbDialog, AbCity
<1>4. AbQuestion
  BY DEF AB!Init, AbQuestion, AB!NotRemoving
<1> QED BY <1>1, <1>2, <1>3, <1>4 DEF AbInv

LEMMA AbRefreshed ==
    ASSUME AbList, AB!Refresh, AbListing(rows', book), UNCHANGED book
    PROVE  AbList'
<1>1. PICK k \in Reads : reads' = [reads EXCEPT ![k].at = "going"]
  BY DEF AB!Refresh
<1>2. \A j \in Reads : /\ reads'[j] = [at |-> reads'[j].at, rows |-> reads'[j].rows]
                       /\ reads'[j] = reads[j] \/ reads'[j].at = "going"
  BY <1>1 DEF AbList
<1>3. DOMAIN reads' = Reads /\ \A j \in Reads : reads'[j].at = "read" => AbListing(reads'[j].rows, book)
  BY <1>1, <1>2 DEF AbList
<1> QED BY <1>2, <1>3 DEF AbList

\* The list is read, filtered, and a removed row taken out of it.
LEMMA AbShown ==
    ASSUME AbConstants, AbInv,
           \/ \E k \in Reads : AB!ReadAnswered(k) \/ \E a \in BOOLEAN : AB!ServeRead(k, a)
           \/ \E f \in Filters : AB!SetFilter(f)
           \/ AB!RemoveAnswered
    PROVE  AbInv'
<1>1. UNCHANGED <<book, booked, readded, edited, dialog, form, geo, saving>>
  BY DEF AB!ReadAnswered, AB!ServeRead, AB!SetFilter, AB!RemoveAnswered, AB!serverVars, AB!dialogVars
<1>2. AbServer' /\ AbDialog' /\ AbCity'
  BY <1>1 DEF AbInv, AbServer, AbDialog, AbCity
<1>3. AbQuestion'
  <2>1. CASE AB!RemoveAnswered
    BY <1>1, <2>1 DEF AB!RemoveAnswered, AB!NotRemoving, AbInv, AbQuestion
  <2>2. CASE ~AB!RemoveAnswered
    <3>1. UNCHANGED <<confirm, removing>>
      BY <2>2 DEF AB!ReadAnswered, AB!ServeRead, AB!SetFilter, AB!questionVars
    <3> QED BY <1>1, <3>1 DEF AbInv, AbQuestion
  <2> QED BY <2>1, <2>2
<1>4. AbList'
  <2>1. ASSUME NEW k \in Reads, AB!ReadAnswered(k) PROVE AbList'
    <3>1. rows' = reads[k].rows /\ reads' = [reads EXCEPT ![k] = [at |-> "idle", rows |-> None]] /\ AbListing(reads[k].rows, book)
      BY <2>1 DEF AB!ReadAnswered, AB!NoRead, AbInv, AbList
    <3>2. \A j \in Reads : reads'[j] = reads[j] \/ reads'[j] = [at |-> "idle", rows |-> None]
      BY <3>1 DEF AbInv, AbList
    <3>3. \A j \in Reads : reads'[j] = [at |-> reads'[j].at, rows |-> reads'[j].rows] /\ (reads'[j].at = "read" => AbListing(reads'[j].rows, book))
      <4> TAKE j \in Reads
      <4>1. CASE reads'[j] = reads[j]
        BY <4>1 DEF AbInv, AbList
      <4>2. CASE reads'[j] = [at |-> "idle", rows |-> None]
        BY <4>2
      <4> QED BY <3>2, <4>1, <4>2
    <3> QED BY <1>1, <3>1, <3>3 DEF AbInv, AbList
  <2>2. ASSUME NEW k \in Reads, NEW a \in BOOLEAN, AB!ServeRead(k, a) PROVE AbList'
    <3> DEFINE L == AB!ListSaved("me")
               x == IF a THEN [at |-> "read", rows |-> L] ELSE [at |-> "idle", rows |-> None]
    <3>1. rows' = rows /\ reads' = [reads EXCEPT ![k] = x]
      BY <2>2 DEF AB!ServeRead, AB!NoRead
    <3>2. AbListing(L, book)
      BY DEF AB!ListSaved, AbListing, AbInv, AbServer, AbBooks, AB!Rows
    <3> HIDE DEF L
    <3>3. x = [at |-> x.at, rows |-> x.rows] /\ (x.at = "read" => x.rows = L)
      OBVIOUS
    <3> HIDE DEF x
    <3>4. \A j \in Reads : reads'[j] = reads[j] \/ reads'[j] = x
      BY <3>1 DEF AbInv, AbList
    <3>5. \A j \in Reads : reads'[j] = [at |-> reads'[j].at, rows |-> reads'[j].rows] /\ (reads'[j].at = "read" => AbListing(reads'[j].rows, book))
      <4> TAKE j \in Reads
      <4>1. CASE reads'[j] = reads[j]
        BY <4>1 DEF AbInv, AbList
      <4>2. CASE reads'[j] = x
        BY <3>2, <3>3, <4>2
      <4> QED BY <3>4, <4>1, <4>2
    <3> QED BY <1>1, <3>1, <3>5 DEF AbInv, AbList
  <2>3. CASE \E f \in Filters : AB!SetFilter(f)
    BY <1>1, <2>3 DEF AB!SetFilter, AbInv, AbList
  <2>4. CASE AB!RemoveAnswered
    <3>1. /\ AB!Refresh /\ rows' = [i \in DOMAIN removing.list \ {removing.of} |-> removing.list[i]]
          /\ AbListing(removing.list, book)
      BY <2>4 DEF AB!RemoveAnswered, AbInv, AbQuestion
    <3>2. AbListing(rows', book)
      BY <3>1 DEF AbListing
    <3> QED BY <1>1, <3>1, <3>2, AbRefreshed DEF AbInv
  <2> QED BY <2>1, <2>2, <2>3, <2>4
<1> QED BY <1>2, <1>3, <1>4 DEF AbInv

\* The pincode a form is given.
LEMMA AbLookedUp ==
    ASSUME AbDialog, AbCity, NEW m \in AB!Modes, NEW pin \in Nat
    PROVE  /\ AB!LookedUp(m, pin) \in [AB!Modes -> AbGeo]
           /\ \A n \in AB!Modes : n # m => AB!LookedUp(m, pin)[n] = geo[n]
           /\ AB!LookedUp(m, pin)[m].lookup # 0 => AB!LookedUp(m, pin)[m].lookup = pin
           /\ AB!LookedUp(m, pin)[m].verified /\ AB!LookedUp(m, pin)[m].lookup = 0 => AB!LookedUp(m, pin)[m].kept
<1> DEFINE g == geo[m]
<1>1. g \in AbGeo /\ geo \in [AB!Modes -> AbGeo] /\ (g.lookup # 0 => g.lookup = form[m].pin)
  BY DEF AbDialog, AbCity
<1> HIDE DEF g
<1>2. AB!NoLookup \in AbGeo /\ AB!NoLookup.lookup = 0 /\ ~AB!NoLookup.verified
  BY DEF AB!NoLookup, AbGeo
<1>3. CASE pin = form[m].pin
  <2> DEFINE y == [g EXCEPT !.kept = g.verified]
  <2>1. y \in AbGeo /\ y.lookup = g.lookup /\ y.verified = g.verified /\ y.kept = g.verified
    BY <1>1 DEF AbGeo
  <2>2. AB!LookedUp(m, pin) = [geo EXCEPT ![m] = y]
    BY <1>1, <1>3 DEF AB!LookedUp, g
  <2> HIDE DEF y
  <2> QED BY <1>1, <1>3, <2>1, <2>2
<1>4. CASE pin # form[m].pin /\ pin = 0
  <2>1. AB!LookedUp(m, pin) = [geo EXCEPT ![m] = AB!NoLookup]
    BY <1>4 DEF AB!LookedUp
  <2> QED BY <1>1, <1>2, <2>1
<1>5. CASE pin # form[m].pin /\ pin # 0
  <2> DEFINE y == [g EXCEPT !.lookup = pin]
  <2>1. y \in AbGeo /\ y.lookup = pin
    BY <1>1 DEF AbGeo
  <2>2. AB!LookedUp(m, pin) = [geo EXCEPT ![m] = y]
    BY <1>1, <1>5 DEF AB!LookedUp, g
  <2> HIDE DEF y
  <2> QED BY <1>1, <1>5, <2>1, <2>2
<1> QED BY <1>3, <1>4, <1>5

\* Opening and closing a dialog, and what is typed in it.
LEMMA AbForm ==
    ASSUME AbConstants, AbInv,
           \/ AB!OpenAdd
           \/ \E i \in Ids : AB!OpenEdit(i)
           \/ AB!Close
           \/ \E n \in {1, 2} : AB!TypeName(n) \/ AB!TypeCity(n)
           \/ \E x \in {0, 1} : AB!TypeExtra(x)
           \/ \E p \in {0, 1, 2} : AB!TypePincode(p)
           \/ \E s \in AB!Scopes : AB!ChooseScope(s)
           \/ \E m \in AB!Modes, a \in BOOLEAN : AB!LookupAnswered(m, a)
    PROVE  AbInv'
<1>1. UNCHANGED <<book, booked, readded, edited, rows, reads, saving, confirm, removing>>
  BY DEF AB!OpenAdd, AB!OpenEdit, AB!Close, AB!TypeName, AB!TypeCity, AB!TypeExtra, AB!TypePincode, AB!ChooseScope, AB!Type,
     AB!LookupAnswered, AB!serverVars, AB!listVars, AB!questionVars
<1>2. AbServer' /\ AbList' /\ AbQuestion'
  BY <1>1 DEF AbInv, AbServer, AbList, AbQuestion
<1>3. /\ AB!Blank \in AbForms /\ AB!Blank.pin = 0 /\ AB!NoLookup \in AbGeo /\ AB!NoLookup.lookup = 0 /\ ~AB!NoLookup.verified
  BY DEF AB!Blank, AbForms, AB!Scopes, AB!NoLookup, AbGeo
<1>4. form \in [AB!Modes -> AbForms] /\ geo \in [AB!Modes -> AbGeo] /\ "add" \in AB!Modes /\ "edit" \in AB!Modes
  BY DEF AbInv, AbDialog, AB!Modes
<1>5. dialog # None => dialog.mode \in AB!Modes /\ form[dialog.mode] \in AbForms /\ geo[dialog.mode] \in AbGeo
  BY DEF AbInv, AbDialog
<1>6. /\ form' \in [AB!Modes -> AbForms] /\ geo' \in [AB!Modes -> AbGeo]
      /\ dialog' # None => dialog'.mode \in AB!Modes /\ (dialog'.mode = "edit" => dialog'.of \in AB!Rows(book))
      /\ AbCity'
  <2>1. CASE AB!OpenAdd
    <3>1. dialog' = [mode |-> "add", of |-> None] /\ form' = [form EXCEPT !["add"] = AB!Blank] /\ geo' = [geo EXCEPT !["add"] = AB!NoLookup]
      BY <2>1 DEF AB!OpenAdd
    <3> QED BY <1>3, <1>4, <3>1 DEF AbInv, AbCity
  <2>2. ASSUME NEW i \in Ids, AB!OpenEdit(i)
        PROVE  /\ form' \in [AB!Modes -> AbForms] /\ geo' \in [AB!Modes -> AbGeo]
               /\ dialog' # None => dialog'.mode \in AB!Modes /\ (dialog'.mode = "edit" => dialog'.of \in AB!Rows(book))
               /\ AbCity'
    <3>1. dialog' = [mode |-> "edit", of |-> i] /\ form' = [form EXCEPT !["edit"] = AB!Contents(rows[i])] /\ geo' = AB!LookedUp("edit", rows[i].pin)
          /\ i \in DOMAIN rows
      BY <2>2 DEF AB!OpenEdit, AB!IsEditable, AB!FilteredRows
    <3>2. rows[i] \in AbRows /\ i \in AB!Rows(book)
      BY <3>1 DEF AbInv, AbList, AbListing
    <3> DEFINE c == AB!Contents(rows[i])
               pin == rows[i].pin
    <3>3. c \in AbForms /\ c.pin = pin /\ pin \in Nat
      BY <3>2, AbContents DEF AbRows
    <3>4. form' = [form EXCEPT !["edit"] = c] /\ geo' = AB!LookedUp("edit", pin)
      BY <3>1
    <3> HIDE DEF c, pin
    <3>5. /\ geo' \in [AB!Modes -> AbGeo] /\ \A n \in AB!Modes : n # "edit" => geo'[n] = geo[n]
          /\ geo'["edit"].lookup # 0 => geo'["edit"].lookup = pin
          /\ geo'["edit"].verified /\ geo'["edit"].lookup = 0 => geo'["edit"].kept
      BY <1>4, <3>3, <3>4, AbLookedUp DEF AbInv
    <3>6. form' \in [AB!Modes -> AbForms] /\ form'["edit"] = c /\ \A n \in AB!Modes : n # "edit" => form'[n] = form[n]
      BY <1>4, <3>3, <3>4
    <3> QED BY <3>1, <3>2, <3>3, <3>5, <3>6 DEF AbInv, AbCity
  <2>3. CASE AB!Close
    <3> DEFINE m == dialog.mode
               c == IF m = "add" THEN AB!Blank ELSE [AB!Blank EXCEPT !.pin = form[m].pin]
    <3>1. dialog # None /\ dialog' = None /\ form' = [form EXCEPT ![m] = c] /\ geo' = [geo EXCEPT !["add"] = AB!NoLookup] /\ m \in AB!Modes
      BY <1>5, <2>3 DEF AB!Close, AB!Shut
    <3>2. c \in AbForms /\ (m # "add" => c.pin = form[m].pin)
      BY <1>3, <1>5, <3>1 DEF AbForms
    <3> HIDE DEF c, m
    <3> QED BY <1>3, <1>4, <3>1, <3>2 DEF AbInv, AbCity
  <2>4. ASSUME NEW c \in AbForms, AB!Type(c), c.pin = AB!Shown.pin, geo' = geo,
               c.city = AB!Shown.city \/ ~geo[dialog.mode].verified
        PROVE  /\ form' \in [AB!Modes -> AbForms] /\ geo' \in [AB!Modes -> AbGeo] /\ dialog' = dialog /\ AbCity'
    <3> DEFINE m == dialog.mode
    <3>1. dialog # None /\ dialog' = dialog /\ form' = [form EXCEPT ![m] = c] /\ m \in AB!Modes /\ c.pin = form[m].pin
          /\ (c.city = form[m].city \/ ~geo[m].verified)
      BY <1>5, <2>4 DEF AB!Type, AB!Shown
    <3>2. form' \in [AB!Modes -> AbForms] /\ form'[m] = c /\ \A n \in AB!Modes : n # m => form'[n] = form[n]
      BY <1>4, <3>1
    <3>3. geo[m].verified /\ geo[m].lookup = 0 /\ ~geo[m].kept => form[m].city = form[m].pin
      BY <3>1 DEF AbInv, AbCity
    <3>4. AbCity'
      BY <2>4, <3>1, <3>2, <3>3 DEF AbInv, AbCity
    <3> QED BY <1>4, <2>4, <3>1, <3>2, <3>4
  <2>5. CASE \E n \in {1, 2} : AB!TypeName(n) \/ AB!TypeCity(n)
    <3>1. PICK n \in {1, 2} : AB!TypeName(n) \/ AB!TypeCity(n)
      BY <2>5
    <3>2. dialog # None /\ AB!Shown \in AbForms
      BY <1>5, <3>1 DEF AB!TypeName, AB!TypeCity, AB!Shown
    <3>3. \A x \in AbForms : /\ [x EXCEPT !.name = n] \in AbForms /\ [x EXCEPT !.name = n].pin = x.pin /\ [x EXCEPT !.name = n].city = x.city
                             /\ [x EXCEPT !.city = n] \in AbForms /\ [x EXCEPT !.city = n].pin = x.pin
      BY DEF AbForms
    <3>4. \/ AB!Type([AB!Shown EXCEPT !.name = n]) /\ geo' = geo
          \/ AB!Type([AB!Shown EXCEPT !.city = n]) /\ geo' = geo /\ ~geo[dialog.mode].verified
      BY <3>1 DEF AB!TypeName, AB!TypeCity, AB!CityIsOpen, AB!UntilVerified
    <3> QED BY <1>5, <2>4, <3>2, <3>3, <3>4 DEF AbInv, AbDialog
  <2>6. CASE (\E x \in {0, 1} : AB!TypeExtra(x)) \/ (\E s \in AB!Scopes : AB!ChooseScope(s))
    <3>1. dialog # None /\ AB!Shown \in AbForms /\ geo' = geo
      BY <1>5, <2>6 DEF AB!TypeExtra, AB!ChooseScope, AB!Shown
    <3>2. (\E x \in {0, 1} : AB!Type([AB!Shown EXCEPT !.extra = x])) \/ (\E s \in AB!Scopes : AB!Type([AB!Shown EXCEPT !.scope = s]))
      BY <2>6 DEF AB!TypeExtra, AB!ChooseScope
    <3>3. \A x \in {0, 1} : \A y \in AbForms :
             [y EXCEPT !.extra = x] \in AbForms /\ [y EXCEPT !.extra = x].pin = y.pin /\ [y EXCEPT !.extra = x].city = y.city
      BY DEF AbForms
    <3>4. \A s \in AB!Scopes : \A y \in AbForms :
             [y EXCEPT !.scope = s] \in AbForms /\ [y EXCEPT !.scope = s].pin = y.pin /\ [y EXCEPT !.scope = s].city = y.city
      BY DEF AbForms
    <3> QED BY <1>5, <2>4, <3>1, <3>2, <3>3, <3>4 DEF AbInv, AbDialog
  <2>7. ASSUME NEW p \in {0, 1, 2}, AB!TypePincode(p)
        PROVE  /\ form' \in [AB!Modes -> AbForms] /\ geo' \in [AB!Modes -> AbGeo] /\ dialog' = dialog /\ AbCity'
    <3> DEFINE m == dialog.mode
               c == [AB!Shown EXCEPT !.pin = p]
    <3>1. /\ dialog # None /\ dialog' = dialog /\ form' = [form EXCEPT ![m] = c] /\ geo' = AB!LookedUp(m, p) /\ m \in AB!Modes
      BY <1>5, <2>7 DEF AB!TypePincode, AB!Type
    <3>2. c \in AbForms /\ c.pin = p
      BY <1>5, <3>1 DEF AB!Shown, AbForms
    <3> HIDE DEF c, m
    <3>3. /\ geo' \in [AB!Modes -> AbGeo] /\ \A n \in AB!Modes : n # m => geo'[n] = geo[n]
          /\ geo'[m].lookup # 0 => geo'[m].lookup = p
          /\ geo'[m].verified /\ geo'[m].lookup = 0 => geo'[m].kept
      BY <3>1, AbLookedUp DEF AbInv
    <3>4. form' \in [AB!Modes -> AbForms] /\ form'[m] = c /\ \A n \in AB!Modes : n # m => form'[n] = form[n]
      BY <1>4, <3>1, <3>2
    <3>5. AbCity'
      BY <3>1, <3>2, <3>3, <3>4 DEF AbInv, AbCity, m
    <3> QED BY <3>1, <3>3, <3>4, <3>5
  <2>8. ASSUME NEW m \in AB!Modes, NEW a \in BOOLEAN, AB!LookupAnswered(m, a)
        PROVE  /\ form' \in [AB!Modes -> AbForms] /\ geo' \in [AB!Modes -> AbGeo] /\ dialog' = dialog /\ AbCity'
    <3> DEFINE n == geo[m].lookup
    <3>1. /\ n # 0 /\ n \in Nat /\ n = form[m].pin /\ dialog' = dialog
          /\ geo' = [geo EXCEPT ![m] = [verified |-> a, lookup |-> 0, kept |-> FALSE]]
          /\ form' = IF a /\ dialog # None /\ dialog.mode = m THEN [form EXCEPT ![m].city = n] ELSE form
      BY <1>4, <2>8 DEF AB!LookupAnswered, AB!CityOf, AbInv, AbCity, AbGeo
    <3> HIDE DEF n
    <3>2. geo' \in [AB!Modes -> AbGeo] /\ geo'[m].verified = a /\ geo'[m].lookup = 0 /\ \A k \in AB!Modes : k # m => geo'[k] = geo[k]
      BY <1>4, <3>1 DEF AbGeo
    <3>3. /\ form' \in [AB!Modes -> AbForms] /\ form'[m].pin = n /\ \A k \in AB!Modes : k # m => form'[k] = form[k]
          /\ a /\ dialog # None /\ dialog.mode = m => form'[m].city = n
      <4>1. [form[m] EXCEPT !.city = n] \in AbForms /\ [form[m] EXCEPT !.city = n].pin = form[m].pin /\ [form[m] EXCEPT !.city = n].city = n
        BY <1>4, <3>1 DEF AbForms
      <4> QED BY <1>4, <3>1, <4>1
    <3>4. AbCity'
      <4>1. \A k \in AB!Modes : geo'[k].lookup # 0 => geo'[k].lookup = form'[k].pin
        BY <3>1, <3>2, <3>3 DEF AbInv, AbCity
      <4>2. CASE dialog # None /\ dialog.mode = m
        BY <3>1, <3>2, <3>3, <4>1, <4>2 DEF AbCity
      <4>3. CASE dialog # None /\ dialog.mode # m
        BY <1>5, <3>1, <3>2, <3>3, <4>1, <4>3 DEF AbInv, AbCity
      <4>4. CASE dialog = None
        BY <3>1, <4>1, <4>4 DEF AbCity
      <4> QED BY <4>2, <4>3, <4>4
    <3> QED BY <3>1, <3>2, <3>3, <3>4
  <2> QED BY <2>1, <2>2, <2>3, <2>5, <2>6, <2>7, <2>8 DEF AbInv, AbDialog
<1>7. AbDialog'
  BY <1>1, <1>6 DEF AbInv, AbDialog
<1> QED BY <1>2, <1>6, <1>7 DEF AbInv

\* A save is sent, answered or lost.
LEMMA AbSaved ==
    ASSUME AbConstants, AbInv, AB!OnSubmit \/ \E m \in AB!Modes : AB!SaveAnswered(m) \/ AB!SaveFailed(m)
    PROVE  AbInv'
<1>1. UNCHANGED <<book, booked, readded, edited, rows, confirm, removing>>
  BY DEF AB!OnSubmit, AB!SaveAnswered, AB!SaveFailed, AB!serverVars, AB!listVars, AB!questionVars
<1>2. AbServer' /\ AbQuestion'
  BY <1>1 DEF AbInv, AbServer, AbQuestion
<1>3. AbList'
  <2>1. CASE \E m \in AB!Modes : AB!SaveAnswered(m)
    BY <1>1, <2>1, AbRefreshed DEF AB!SaveAnswered, AbInv, AbList
  <2>2. CASE ~\E m \in AB!Modes : AB!SaveAnswered(m)
    <3>1. reads' = reads
      BY <2>2 DEF AB!OnSubmit, AB!SaveFailed, AB!listVars
    <3> QED BY <1>1, <3>1 DEF AbInv, AbList
  <2> QED BY <2>1, <2>2
<1>4. dialog # None => dialog.mode \in AB!Modes /\ form[dialog.mode] \in AbForms /\ (dialog.mode = "edit" => dialog.of \in AB!Rows(book))
  BY DEF AbInv, AbDialog
<1>5. /\ DOMAIN saving' = AB!Modes
      /\ \A m \in AB!Modes : /\ saving'[m] = [at |-> saving'[m].at, of |-> saving'[m].of, body |-> saving'[m].body]
                             /\ saving'[m].at # "idle" => saving'[m].body \in AbForms /\ (m = "edit" => saving'[m].of \in AB!Rows(book))
  <2>1. CASE AB!OnSubmit
    <3> DEFINE n == dialog.mode
               b == AB!Payload(form[n])
    <3>1. n \in AB!Modes /\ saving' = [saving EXCEPT ![n] = [at |-> "going", of |-> dialog.of, body |-> b]] /\ form[n] \in AbForms
          /\ (n = "edit" => dialog.of \in AB!Rows(book))
      BY <1>4, <2>1 DEF AB!OnSubmit, AB!Shown
    <3>2. b \in AbForms
      BY <3>1 DEF AB!Payload, AbForms, AB!Scopes
    <3> HIDE DEF b, n
    <3>3. /\ DOMAIN saving' = AB!Modes /\ saving'[n] = [at |-> "going", of |-> dialog.of, body |-> b]
          /\ \A m \in AB!Modes : m # n => saving'[m] = saving[m]
      BY <3>1 DEF AbInv, AbDialog
    <3>4. /\ saving'[n] = [at |-> saving'[n].at, of |-> saving'[n].of, body |-> saving'[n].body]
          /\ saving'[n].body \in AbForms /\ (n = "edit" => saving'[n].of \in AB!Rows(book))
      BY <3>1, <3>2, <3>3
    <3>5. ASSUME NEW m \in AB!Modes, m # n
          PROVE  /\ saving'[m] = [at |-> saving'[m].at, of |-> saving'[m].of, body |-> saving'[m].body]
                 /\ saving'[m].at # "idle" => saving'[m].body \in AbForms /\ (m = "edit" => saving'[m].of \in AB!Rows(book))
      <4>1. saving'[m] = saving[m]
        BY <3>3, <3>5
      <4> QED BY <4>1 DEF AbInv, AbDialog
    <3> QED BY <3>3, <3>4, <3>5
  <2>2. CASE \E m \in AB!Modes : AB!SaveAnswered(m) \/ AB!SaveFailed(m)
    <3>1. PICK n \in AB!Modes : saving' = [saving EXCEPT ![n] = AB!NotSaving]
      BY <2>2 DEF AB!SaveAnswered, AB!SaveFailed
    <3>2. AB!NotSaving = [at |-> AB!NotSaving.at, of |-> AB!NotSaving.of, body |-> AB!NotSaving.body] /\ AB!NotSaving.at = "idle"
      BY DEF AB!NotSaving
    <3>3. DOMAIN saving' = AB!Modes /\ \A m \in AB!Modes : saving'[m] = saving[m] \/ saving'[m] = AB!NotSaving
      BY <3>1 DEF AbInv, AbDialog
    <3> SUFFICES ASSUME NEW m \in AB!Modes
                 PROVE  /\ saving'[m] = [at |-> saving'[m].at, of |-> saving'[m].of, body |-> saving'[m].body]
                        /\ saving'[m].at # "idle" => saving'[m].body \in AbForms /\ (m = "edit" => saving'[m].of \in AB!Rows(book))
      BY <3>3
    <3>4. CASE saving'[m] = saving[m]
      BY <3>4 DEF AbInv, AbDialog
    <3>5. CASE saving'[m] = AB!NotSaving
      BY <3>2, <3>5
    <3> QED BY <3>3, <3>4, <3>5
  <2> QED BY <2>1, <2>2
<1>6. /\ form' \in [AB!Modes -> AbForms] /\ geo' \in [AB!Modes -> AbGeo] /\ AbCity'
      /\ dialog' # None => dialog' = dialog
  <2>1. CASE UNCHANGED <<dialog, form, geo>>
    BY <2>1 DEF AbInv, AbDialog, AbCity
  <2>2. CASE \E m \in AB!Modes : AB!SaveAnswered(m) /\ dialog # None /\ dialog.mode = m
    <3> DEFINE m == dialog.mode
               c == IF m = "add" THEN AB!Blank ELSE [AB!Blank EXCEPT !.pin = form[m].pin]
    <3>1. dialog # None /\ dialog' = None /\ form' = [form EXCEPT ![m] = c] /\ geo' = [geo EXCEPT !["add"] = AB!NoLookup] /\ m \in AB!Modes
      BY <1>4, <2>2 DEF AB!SaveAnswered, AB!Shut
    <3>2. /\ AB!Blank \in AbForms /\ AB!Blank.pin = 0 /\ AB!NoLookup \in AbGeo /\ AB!NoLookup.lookup = 0
      BY DEF AB!Blank, AbForms, AB!Scopes, AB!NoLookup, AbGeo
    <3>3. c \in AbForms /\ (m # "add" => c.pin = form[m].pin)
      BY <1>4, <3>1, <3>2 DEF AbForms
    <3> HIDE DEF c, m
    <3>4. form \in [AB!Modes -> AbForms] /\ geo \in [AB!Modes -> AbGeo] /\ "add" \in AB!Modes
      BY DEF AbInv, AbDialog, AB!Modes
    <3> QED BY <3>1, <3>2, <3>3, <3>4 DEF AbInv, AbCity
  <2>3. UNCHANGED <<dialog, form, geo>> \/ \E m \in AB!Modes : AB!SaveAnswered(m) /\ dialog # None /\ dialog.mode = m
    BY DEF AB!OnSubmit, AB!SaveAnswered, AB!SaveFailed, AB!DialogOnFailure, AB!DialogStays
  <2> QED BY <2>1, <2>2, <2>3
<1>7. AbDialog'
  BY <1>1, <1>4, <1>5, <1>6 DEF AbInv, AbDialog
<1> QED BY <1>2, <1>3, <1>6, <1>7 DEF AbInv

LEMMA AbNext == AbConstants /\ AbInv /\ [AB!Next]_(AB!vars) => AbInv'
<1> SUFFICES ASSUME AbConstants, AbInv, [AB!Next]_(AB!vars) PROVE AbInv'
  OBVIOUS
<1>1. CASE AB!Next
  BY <1>1, AbOthers, AbServed, AbAsked, AbShown, AbForm, AbSaved DEF AB!Next
<1>2. CASE UNCHANGED AB!vars
  BY <1>2 DEF AB!vars, AbInv, AbServer, AbList, AbDialog, AbCity, AbQuestion
<1> QED BY <1>1, <1>2

\* Types; an address that was added again is in the book once, as long as none was edited; what a shipment was booked with
\* stays as it was unless the same was added anew; and a city that is marked as verified is that of the pincode beside it
\* (components/forms, services/addresses).
THEOREM AddedOnce ==
    ASSUME AbConstants
    PROVE  AB!Spec => [](AB!TypeOK /\ AB!OncePerIntent /\ AB!ActedAsShown)
<1>1. AB!Init => AbInv
  BY AbInit
<1>2. AbInv /\ [AB!Next]_(AB!vars) => AbInv'
  BY AbNext
<1>3. AbInv => AB!TypeOK /\ AB!OncePerIntent /\ AB!ActedAsShown
  <2> SUFFICES ASSUME AbInv PROVE AB!TypeOK /\ AB!OncePerIntent /\ AB!ActedAsShown
    OBVIOUS
  <2>1. AB!TypeOK
    <3>1. \A i \in AB!Rows(book) : book[i] \in AbRows
      BY DEF AB!Rows, AbInv, AbServer, AbBooks
    <3>2. AB!Rows(book) \subseteq Ids
      BY DEF AB!Rows
    <3> QED BY <3>1, <3>2 DEF AbInv, AbList, AbListing, AbDialog, AbQuestion, AbRows, AB!TypeOK
  <2>2. AB!OncePerIntent
    BY DEF AbInv, AbServer, AbUnique, AB!OncePerIntent
  <2>3. AB!ActedAsShown
    BY DEF AbInv, AbServer, AbCity, AB!ActedAsShown, AB!Shown, AB!CityOf
  <2> QED BY <2>1, <2>2, <2>3
<1> QED BY <1>1, <1>2, <1>3, PTL DEF AB!Spec

\* A failure leaves the dialogs as they are, with all that was typed.
THEOREM AddressTypingKept ==
    ASSUME None # "failed"
    PROVE  AB!Spec => [][AB!KeepsTyping]_(AB!vars)
<1>1. [AB!Next]_(AB!vars) => [AB!KeepsTyping]_(AB!vars)
  <2> SUFFICES ASSUME AB!Next, told' = "failed", told # "failed" PROVE UNCHANGED <<dialog, form, confirm>>
    BY DEF AB!KeepsTyping
  <2>1. (\E m \in AB!Modes : AB!SaveFailed(m)) \/ AB!RemoveFailed
    BY DEF AB!Next, AB!OthersAct, AB!OpenAdd, AB!OpenEdit, AB!Close, AB!Type, AB!TypeName, AB!TypeCity, AB!TypeExtra, AB!TypePincode,
       AB!ChooseScope, AB!OnSubmit, AB!RefuseSave, AB!LeaveQuestion, AB!ExecuteDelete, AB!RemoveAnswered, AB!AskToRemove, AB!SetFilter,
       AB!ReadAnswered, AB!ServeRead, AB!SaveAnswered, AB!ServeSave, AB!LookupAnswered, AB!ServeRemove
  <2> QED BY <2>1 DEF AB!SaveFailed, AB!RemoveFailed, AB!DialogOnFailure, AB!DialogStays, AB!questionVars, AB!dialogVars
<1> QED BY <1>1, PTL DEF AB!Spec

-----------------------------------------------------------------------------
(* The Settings page: no value that stands in for one that was not read is ever *)
(* saved, the prices are set by nobody but who sets prices, and the history     *)
(* leads from each change to the one before.                                    *)

CONSTANTS Own, Cards, MaxVersions
VARIABLES settings, history, priced, lastSavedValues, cache, settingsHydrated, settingsHydrateError,
    activeSection, historyOpen, items, list, confirmEntry, restore
ST == INSTANCE Settings

StGood == {"old", "mine", "theirs"}
StRows == [ST!Sections -> StGood]
StOwn == [Own -> StGood]
StEntries == [settings : StRows, changed : SUBSET ST!Sections]
StSaves == [of : [Own \cup {"landing"} -> StGood], typed : StOwn, at : {"going", "answered", "failed"}]
StRestores == [of : Nat, at : {"going", "answered", "failed", "refreshing"}, read : Reads \cup {None}]
StConstants ==
    /\ "pricing" \notin Own /\ MaxVersions \in Nat /\ Cached \in BOOLEAN /\ Cards \subseteq DOMAIN ST!FieldsOf
    /\ 1 \in Reads /\ None # "invalid" /\ None \notin Nat /\ None \notin StOwn /\ None \notin StSaves /\ None \notin StRestores

StFields(c) == ST!FieldsOf[c]
StTypable == UNION {StFields(c) : c \in DOMAIN ST!FieldsOf}

\* What came after an entry of the history.
StAfter(i) == IF i = Len(history) THEN settings ELSE history[i + 1].settings
StServer ==
    /\ settings \in StRows /\ priced \in ST!Values /\ settings["pricing"] = priced
    /\ history \in Seq(StEntries) /\ Len(history) <= MaxVersions
    /\ \A i \in DOMAIN history : StAfter(i) # history[i].settings
StForm ==
    /\ form \in [Own -> ST!Values] /\ lastSavedValues \in [Own -> ST!Values]
    /\ settingsHydrated \in BOOLEAN /\ settingsHydrateError \in BOOLEAN /\ activeSection \in DOMAIN ST!FieldsOf
    /\ \A s \in Own : lastSavedValues[s] # "wrong" /\ (form[s] = "wrong" => s \in StTypable)
    /\ settingsHydrated =>
           cache # None /\ ~settingsHydrateError /\ \A s \in Own : form[s] # "blank" /\ lastSavedValues[s] # "blank"
StReads ==
    /\ cache \in StOwn \cup {None} /\ DOMAIN reads = Reads
    /\ \A r \in Reads : reads[r].at = "read" => reads[r].row \in StOwn
StDialog ==
    /\ items \subseteq DOMAIN history /\ (list.at = "read" => list.row \subseteq DOMAIN history)
    /\ confirmEntry = None \/ confirmEntry \in DOMAIN history
    /\ restore # None => restore \in StRestores /\ restore.of \in DOMAIN history
StInv == StServer /\ StForm /\ StReads /\ StDialog /\ (save # None => save \in StSaves)

LEMMA StInit == StConstants /\ ST!Init => StInv
<1> SUFFICES ASSUME StConstants, ST!Init PROVE StInv
  OBVIOUS
<1>1. StServer
  BY DEF StConstants, ST!Init, StServer, StRows, StGood, StEntries, ST!Sections, ST!Values
<1>2. (Cached => ST!Shown = [s \in Own |-> "old"] /\ cache \in StOwn) /\ (~Cached => ST!Shown = [s \in Own |-> "blank"])
  BY DEF StConstants, ST!Init, ST!Shown, ST!FromPublic, StOwn, StGood
<1>3. StForm
  BY <1>2 DEF StConstants, ST!Init, StForm, ST!Values, ST!FieldsOf
<1>4. StReads
  BY DEF StConstants, ST!Init, StReads, StOwn, StGood, ST!Idle
<1>5. StDialog
  BY DEF ST!Init, StDialog, ST!Idle
<1> QED BY <1>1, <1>3, <1>4, <1>5 DEF StInv, ST!Init

-----------------------------------------------------------------------------
(* The server.                                                                  *)

\* Whoever changes the settings leaves those before in the history.
LEMMA StReplaced ==
    ASSUME StConstants, StServer, StDialog, NEW after \in StRows, ST!ReplaceSettings(after), after["pricing"] = priced',
           priced' \in ST!Values, UNCHANGED <<items, list, confirmEntry>>,
           restore' = None \/ (restore' \in StRestores /\ restore # None /\ restore'.of = restore.of) \/ restore' = restore
    PROVE  /\ StServer' /\ StDialog'
           /\ settings' # settings => history' # history /\ history'[Len(history')].settings = settings
<1> DEFINE entry == [settings |-> settings, changed |-> ST!ChangedSections(settings, after)]
<1>1. settings' = after /\ history' = ST!Snapshotted(after) /\ Len(history') <= MaxVersions
  BY DEF ST!ReplaceSettings
<1>2. CASE ST!ChangedSections(settings, after) = {}
  <2>1. settings' = settings /\ history' = history
    <3>1. \A s \in ST!Sections : settings[s] = after[s]
      BY <1>2 DEF ST!ChangedSections
    <3>2. settings = after
      BY <3>1 DEF StServer, StRows
    <3> QED BY <1>1, <1>2, <3>2 DEF ST!Snapshotted, ST!SnapshotOnChange
  <2> QED BY <1>1, <2>1 DEF StServer, StDialog, StAfter
<1>3. CASE ST!ChangedSections(settings, after) # {}
  <2>1. history' = Append(history, entry) /\ entry \in StEntries /\ entry.settings = settings
    BY <1>1, <1>3 DEF ST!Snapshotted, ST!SnapshotOnChange, StEntries, StServer, ST!ChangedSections
  <2> HIDE DEF entry
  <2>2. history \in Seq(StEntries)
    BY DEF StServer
  <2>3. /\ history' \in Seq(StEntries) /\ Len(history') = Len(history) + 1 /\ history'[Len(history) + 1] = entry
        /\ DOMAIN history = 1 .. Len(history) /\ DOMAIN history' = 1 .. Len(history) + 1 /\ Len(history) \in Nat
        /\ \A i \in DOMAIN history : history'[i] = history[i]
    BY <2>1, <2>2
  <2>4. settings # after
    BY <1>3 DEF ST!ChangedSections
  <2>5. \A i \in DOMAIN history' : StAfter(i)' # history'[i].settings
    <3> SUFFICES ASSUME NEW i \in DOMAIN history' PROVE StAfter(i)' # history'[i].settings
      OBVIOUS
    <3>1. CASE i = Len(history) + 1
      BY <1>1, <2>1, <2>3, <2>4, <3>1 DEF StAfter
    <3>2. CASE i = Len(history)
      <4>1. i \in DOMAIN history /\ StAfter(i) # history[i].settings /\ StAfter(i) = settings
        BY <2>3, <3>2 DEF StAfter, StServer
      <4>2. StAfter(i)' = entry.settings /\ history'[i] = history[i]
        <5>1. i \in Nat /\ Len(history') # i /\ history'[i + 1] = entry /\ history'[i] = history[i]
          <6>1. history'[i] = history[i]
            BY <2>3, <4>1
          <6>2. i \in Nat /\ Len(history') # i
            <7>1. Len(history) \in Nat /\ Len(history') = Len(history) + 1
              BY <2>3
            <7> QED BY <3>2, <7>1
          <6>3. history'[i + 1] = entry
            <7>1. history'[Len(history) + 1] = entry
              BY <2>3
            <7>2. i + 1 = Len(history) + 1
              BY <3>2
            <7> QED BY <7>1, <7>2, Zenon
          <6> QED BY <6>1, <6>2, <6>3
        <5> QED BY <5>1 DEF StAfter
      <4> QED BY <2>1, <4>1, <4>2
    <3>3. CASE i \in 1 .. Len(history) - 1
      BY <2>3, <3>3 DEF StAfter, StServer
    <3> QED BY <2>3, <3>1, <3>2, <3>3
  <2>6. StServer'
    BY <1>1, <2>3, <2>5 DEF StServer
  <2>7. StDialog'
    BY <2>3 DEF StDialog
  <2>8. history' # history /\ history'[Len(history')].settings = settings
    <3>1. Len(history) \in Nat /\ Len(history') = Len(history) + 1 /\ history'[Len(history) + 1] = entry /\ entry.settings = settings
      BY <2>1, <2>3
    <3>2. Len(history') # Len(history) /\ history'[Len(history')] = entry
      BY <3>1
    <3> QED BY <3>1, <3>2
  <2> QED BY <2>6, <2>7, <2>8
<1> QED BY <1>2, <1>3

\* A patch of sections leaves the others as they are.
LEMMA StMerged ==
    ASSUME StServer, NEW S \in SUBSET ST!Sections, NEW patch \in [S -> StGood]
    PROVE  ST!Merged(patch) \in StRows /\ ("pricing" \notin S => ST!Merged(patch)["pricing"] = priced)
           /\ \A s \in S : ST!Merged(patch)[s] = patch[s]
BY DEF ST!Merged, StServer, StRows, ST!Sections

\* Only who sets prices changes them; neither a save nor a restore does.
LEMMA StServed ==
    ASSUME StConstants, StInv,
           \/ ST!OthersAct \/ (\E a, b \in BOOLEAN : ST!ServeSave(a, b) \/ ST!ServeRestore(a, b))
    PROVE  /\ StInv' /\ UNCHANGED form
           /\ settings' # settings => history' # history /\ history'[Len(history')].settings = settings
<1>1. CASE ST!OthersAct
  <2>1. PICK s \in ST!Sections : /\ ST!ReplaceSettings(ST!Merged([t \in {s} |-> "theirs"]))
                                 /\ priced' = IF s = "pricing" THEN "theirs" ELSE priced
    BY <1>1 DEF ST!OthersAct
  <2>2. [t \in {s} |-> "theirs"] \in [{s} -> StGood]
    BY DEF StGood
  <2> DEFINE after == ST!Merged([t \in {s} |-> "theirs"])
  <2>3. after \in StRows /\ ("pricing" \notin {s} => after["pricing"] = priced) /\ after[s] = "theirs"
    BY <2>2, StMerged DEF StInv
  <2>4. UNCHANGED <<items, list, confirmEntry, restore, save>> /\ UNCHANGED ST!formVars /\ UNCHANGED ST!readVars /\ UNCHANGED activeSection
    BY <1>1 DEF ST!OthersAct, ST!dialogVars, ST!tabVars
  <2>5. after["pricing"] = priced' /\ priced' \in ST!Values
    BY <2>1, <2>3 DEF StInv, StServer, ST!Values
  <2> HIDE DEF after
  <2>6. /\ StServer' /\ StDialog'
        /\ settings' # settings => history' # history /\ history'[Len(history')].settings = settings
    BY <2>1, <2>3, <2>4, <2>5, StReplaced DEF StInv, after
  <2> QED BY <2>4, <2>6 DEF StInv, StForm, StReads, ST!formVars, ST!readVars
<1>2. ASSUME NEW a \in BOOLEAN, NEW b \in BOOLEAN, ST!ServeSave(a, b)
      PROVE  /\ StInv' /\ UNCHANGED form
             /\ settings' # settings => history' # history /\ history'[Len(history')].settings = settings
  <2>1. save \in StSaves /\ save' \in StSaves /\ UNCHANGED <<priced, items, list, confirmEntry, restore>>
        /\ UNCHANGED ST!formVars /\ UNCHANGED ST!readVars /\ UNCHANGED activeSection
    BY <1>2 DEF ST!ServeSave, StInv, StSaves, ST!dialogVars, ST!tabVars
  <2>2. CASE ~a
    BY <1>2, <2>1, <2>2 DEF ST!ServeSave, StInv, StServer, StAfter, StForm, StReads, StDialog, ST!formVars, ST!readVars
  <2>3. CASE a
    <3> DEFINE after == ST!Merged(save.of)
    <3>1. save.of \in [Own \cup {"landing"} -> StGood] /\ Own \cup {"landing"} \in SUBSET ST!Sections /\ "pricing" \notin Own \cup {"landing"}
      BY <2>1 DEF StSaves, StConstants, ST!Sections
    <3>2. after \in StRows /\ after["pricing"] = priced
      BY <3>1, StMerged DEF StInv
    <3>3. ST!ReplaceSettings(after)
      BY <1>2, <2>3 DEF ST!ServeSave
    <3> HIDE DEF after
    <3>4. /\ StServer' /\ StDialog'
          /\ settings' # settings => history' # history /\ history'[Len(history')].settings = settings
      BY <2>1, <3>2, <3>3, StReplaced DEF StInv, StServer
    <3> QED BY <2>1, <3>4 DEF StInv, StForm, StReads, ST!formVars, ST!readVars
  <2> QED BY <2>2, <2>3
<1>3. ASSUME NEW a \in BOOLEAN, NEW b \in BOOLEAN, ST!ServeRestore(a, b)
      PROVE  /\ StInv' /\ UNCHANGED form
             /\ settings' # settings => history' # history /\ history'[Len(history')].settings = settings
  <2>1. /\ restore # None /\ restore \in StRestores /\ restore.of \in DOMAIN history
        /\ restore' \in StRestores /\ restore'.of = restore.of
        /\ UNCHANGED <<priced, items, list, confirmEntry, save>>
        /\ UNCHANGED ST!formVars /\ UNCHANGED ST!readVars /\ UNCHANGED activeSection
    BY <1>3 DEF ST!ServeRestore, StInv, StDialog, StRestores, ST!tabVars
  <2>2. CASE ~a
    BY <1>3, <2>1, <2>2 DEF ST!ServeRestore, StInv, StServer, StAfter, StForm, StReads, StDialog, ST!formVars, ST!readVars
  <2>3. CASE a
    <3> DEFINE after == ST!CarryForward(history[restore.of].settings)
    <3>1. history[restore.of].settings \in StRows
      <4>1. history[restore.of] \in StEntries
        BY <2>1 DEF StInv, StServer
      <4> QED BY <4>1 DEF StEntries
    <3>2. after \in StRows /\ after["pricing"] = priced
      BY <3>1 DEF ST!CarryForward, ST!RestoreKeepsPricing, StInv, StServer, StRows, ST!Sections
    <3>3. ST!ReplaceSettings(after)
      BY <1>3, <2>3 DEF ST!ServeRestore
    <3> HIDE DEF after
    <3>4. /\ StServer' /\ StDialog'
          /\ settings' # settings => history' # history /\ history'[Len(history')].settings = settings
      BY <2>1, <3>2, <3>3, StReplaced DEF StInv, StServer
    <3> QED BY <2>1, <3>4 DEF StInv, StForm, StReads, ST!formVars, ST!readVars
  <2> QED BY <2>2, <2>3
<1> QED BY <1>1, <1>2, <1>3

-----------------------------------------------------------------------------
(* The page.                                                                    *)

\* A refused form opens the section of a field that is wrong.
LEMMA StOpens ==
    ASSUME StConstants, StForm, ST!Wrong # {}
    PROVE  ST!SectionForErrors \in DOMAIN ST!FieldsOf /\ \E f \in ST!FieldsOf[ST!SectionForErrors] \cap Own : form[f] = "wrong"
<1>1. PICK f \in Own : form[f] = "wrong"
  BY DEF ST!Wrong
<1>2. PICK c \in DOMAIN ST!FieldsOf : f \in StFields(c)
  BY <1>1 DEF StForm, StTypable
<1>3. f \in ST!FieldsOf[c] \cap ST!Wrong
  BY <1>1, <1>2 DEF StFields, ST!Wrong
<1>4. ST!SectionForErrors \in DOMAIN ST!FieldsOf /\ ST!FieldsOf[ST!SectionForErrors] \cap ST!Wrong # {}
  <2> DEFINE Holds(d) == ST!FieldsOf[d] \cap ST!Wrong # {}
  <2>1. \E d \in DOMAIN ST!FieldsOf : Holds(d)
    BY <1>3
  <2>2. ST!SectionForErrors = CHOOSE d \in DOMAIN ST!FieldsOf : Holds(d)
    BY DEF ST!SectionForErrors
  <2> HIDE DEF Holds
  <2>3. ST!SectionForErrors \in DOMAIN ST!FieldsOf /\ Holds(ST!SectionForErrors)
    BY <2>1, <2>2
  <2> QED BY <2>3 DEF Holds
<1> QED BY <1>4 DEF ST!Wrong

LEMMA StTyped ==
    ASSUME StConstants, StInv,
           \/ \E s \in Own : ST!TypeSection(s)
           \/ \E c \in Cards : ST!SetActiveSection(c)
           \/ ST!DiscardChanges \/ ST!Invalid
    PROVE  StInv'
<1>1. ASSUME NEW s \in Own, ST!TypeSection(s) PROVE StInv'
  <2>1. s \in StTypable
    BY <1>1 DEF ST!TypeSection, StInv, StForm, StTypable, StFields
  <2> QED BY <1>1, <2>1 DEF ST!TypeSection, StInv, StServer, StAfter, StForm, StReads, StDialog, ST!Values,
       ST!serverVars, ST!tabVars, ST!readVars, ST!dialogVars
<1>2. ASSUME NEW c \in Cards, ST!SetActiveSection(c) PROVE StInv'
  BY <1>2 DEF StConstants, ST!SetActiveSection, StInv, StServer, StAfter, StForm, StReads, StDialog, ST!serverVars, ST!formVars, ST!readVars, ST!dialogVars
<1>3. CASE ST!DiscardChanges
  BY <1>3 DEF ST!DiscardChanges, StInv, StServer, StAfter, StForm, StReads, StDialog, ST!serverVars, ST!tabVars, ST!readVars, ST!dialogVars
<1>4. CASE ST!Invalid
  <2>1. ST!SectionForErrors \in DOMAIN ST!FieldsOf
    BY <1>4, StOpens DEF ST!Invalid, StInv
  <2> QED BY <1>4, <2>1 DEF ST!Invalid, StInv, StServer, StAfter, StForm, StReads, StDialog, ST!serverVars, ST!formVars, ST!readVars, ST!dialogVars
<1> QED BY <1>1, <1>2, <1>3, <1>4

\* Saves go only of what was read and is valid.
LEMMA StSaved ==
    ASSUME StConstants, StInv, ST!ExecuteSave \/ ST!SaveAnswered \/ ST!SaveFailed
    PROVE  StInv'
<1> USE DEF StInv
<1>1. CASE ST!ExecuteSave
  <2>1. settingsHydrated /\ \A s \in Own : form[s] \notin {"blank", "wrong"}
    BY <1>1 DEF ST!ExecuteSave, ST!SaveOffered, ST!HydratedAndDirty, ST!Wrong, StForm
  <2>2. form \in StOwn
    BY <2>1 DEF StForm, StOwn, StGood, ST!Values
  <2>3. ST!Payload \in [Own \cup {"landing"} -> StGood]
    BY <2>2 DEF ST!Payload, StOwn, StGood
  <2>4. save' \in StSaves
    BY <1>1, <2>2, <2>3 DEF ST!ExecuteSave, StSaves
  <2> QED BY <1>1, <2>4 DEF ST!ExecuteSave, StServer, StAfter, StForm, StReads, StDialog, ST!serverVars, ST!tabVars, ST!formVars, ST!readVars, ST!dialogVars
<1>2. CASE ST!SaveAnswered
  <2>1. save.typed \in StOwn
    BY <1>2 DEF ST!SaveAnswered, StSaves
  <2>2. save.typed \in [Own -> ST!Values] /\ \A s \in Own : save.typed[s] # "wrong" /\ save.typed[s] # "blank"
    BY <2>1 DEF StOwn, StGood, ST!Values
  <2> QED BY <1>2, <2>2 DEF ST!SaveAnswered, StServer, StAfter, StForm, StReads, StDialog, ST!serverVars, ST!tabVars, ST!readVars, ST!dialogVars
<1>3. CASE ST!SaveFailed
  BY <1>3 DEF ST!SaveFailed, ST!FormOnFailure, ST!FormStays, StServer, StAfter, StForm, StReads, StDialog, ST!serverVars, ST!tabVars, ST!readVars, ST!dialogVars
<1> QED BY <1>1, <1>2, <1>3

\* What is read of the settings is all there.
LEMMA StRead ==
    ASSUME StConstants, StInv,
           \/ ST!Revisit \/ \E r \in Reads : ST!ReadAnswered(r) \/ ST!ReadFailed(r) \/ ST!Retry(r) \/ ST!RestoreAnswered(r)
           \/ \E a \in BOOLEAN, r \in Reads : ST!ServeRead(r, a)
    PROVE  StInv'
<1> USE DEF StInv
<1>1. ASSUME NEW r \in Reads, NEW a \in BOOLEAN, ST!ServeRead(r, a) PROVE StInv'
  <2>1. ST!OwnOf(settings) \in StOwn
    BY DEF ST!OwnOf, StServer, StRows, StOwn, ST!Sections
  <2>2. StReads'
    BY <1>1, <2>1 DEF ST!ServeRead, StReads, ST!Idle
  <2> QED BY <1>1, <2>2 DEF ST!ServeRead, StServer, StAfter, StForm, StDialog, ST!serverVars, ST!tabVars, ST!formVars, ST!dialogVars
<1>2. ASSUME NEW r \in Reads, ST!ReadAnswered(r) PROVE StInv'
  <2>1. reads[r].row \in StOwn
    BY <1>2 DEF ST!ReadAnswered, StReads
  <2>2. reads[r].row # None /\ reads[r].row \in [Own -> ST!Values] /\ \A s \in Own : reads[r].row[s] \notin {"wrong", "blank"}
    BY <2>1 DEF StConstants, StOwn, StGood, ST!Values
  <2>3. StForm'
    BY <1>2, <2>2 DEF ST!ReadAnswered, StForm, ST!tabVars
  <2>4. StReads'
    BY <1>2, <2>1 DEF ST!ReadAnswered, StReads, ST!Idle
  <2>5. StDialog'
    BY <1>2 DEF ST!ReadAnswered, ST!DialogAfter, StDialog, ST!serverVars
  <2> QED BY <1>2, <2>3, <2>4, <2>5 DEF ST!ReadAnswered, StServer, StAfter, ST!serverVars
<1>3. ASSUME NEW r \in Reads, ST!ReadFailed(r) PROVE StInv'
  <2>1. StForm'
    BY <1>3 DEF ST!ReadFailed, StForm, ST!tabVars, ST!formVars
  <2>2. StReads'
    BY <1>3 DEF ST!ReadFailed, StReads, ST!Idle
  <2>3. StDialog'
    BY <1>3 DEF ST!ReadFailed, ST!DialogAfter, StDialog, ST!serverVars
  <2> QED BY <1>3, <2>1, <2>2, <2>3 DEF ST!ReadFailed, StServer, StAfter, ST!serverVars
<1>4. ASSUME NEW r \in Reads, ST!Retry(r) PROVE StInv'
  BY <1>4 DEF ST!Retry, ST!StartedRead, ST!Idle, StServer, StAfter, StForm, StReads, StDialog, ST!serverVars, ST!tabVars, ST!formVars, ST!dialogVars
<1>5. ASSUME NEW r \in Reads, ST!RestoreAnswered(r) PROVE StInv'
  <2>1. restore' \in StRestores /\ restore'.of \in DOMAIN history'
    BY <1>5 DEF ST!RestoreAnswered, StDialog, StRestores, ST!serverVars
  <2>2. StDialog'
    BY <1>5, <2>1 DEF ST!RestoreAnswered, StDialog, ST!serverVars
  <2> QED BY <1>5, <2>2 DEF ST!RestoreAnswered, ST!StartedRead, ST!Idle, StServer, StAfter, StForm, StReads, ST!serverVars, ST!tabVars, ST!formVars
<1>6. CASE ST!Revisit
  <2>1. cache \in StOwn
    BY <1>6 DEF StConstants, ST!Revisit, StReads
  <2>2. cache \in [Own -> ST!Values] /\ \A s \in Own : cache[s] \notin {"wrong", "blank"}
    BY <2>1 DEF StOwn, StGood, ST!Values
  <2>3. StForm'
    BY <1>6, <2>2 DEF StConstants, ST!Revisit, StForm, ST!FieldsOf
  <2>4. StReads'
    BY <1>6 DEF StConstants, ST!Revisit, ST!StartedRead, ST!Idle, StReads
  <2>5. StDialog'
    BY <1>6 DEF StConstants, ST!Revisit, StDialog, ST!Idle
  <2> QED BY <1>6, <2>3, <2>4, <2>5 DEF ST!Revisit, StServer, StAfter, ST!serverVars
<1> QED BY <1>1, <1>2, <1>3, <1>4, <1>5, <1>6

LEMMA StHistory ==
    ASSUME StConstants, StInv,
           \/ ST!OpenHistory \/ ST!CloseHistory \/ ST!ListAnswered \/ ST!HandleRestore \/ ST!RestoreFailed
           \/ \E i \in 1 .. MaxVersions : ST!SetConfirmEntry(i)
           \/ \E a \in BOOLEAN : ST!ServeList(a)
    PROVE  StInv'
<1>1. StDialog'
  <2>1. CASE ST!OpenHistory \/ ST!CloseHistory \/ ST!ListAnswered \/ ST!RestoreFailed
    BY <2>1 DEF StInv, StDialog, ST!OpenHistory, ST!CloseHistory, ST!ListAnswered, ST!RestoreFailed, ST!Idle, ST!serverVars
  <2>2. CASE ST!HandleRestore
    <3>1. confirmEntry \in DOMAIN history /\ confirmEntry \in Nat
      BY <2>2 DEF ST!HandleRestore, StInv, StDialog, StServer
    <3>2. restore' \in StRestores /\ restore'.of = confirmEntry
      BY <2>2, <3>1 DEF ST!HandleRestore, StRestores
    <3> QED BY <2>2, <3>1, <3>2 DEF ST!HandleRestore, StInv, StDialog, ST!serverVars
  <2>3. ASSUME NEW i \in 1 .. MaxVersions, ST!SetConfirmEntry(i) PROVE StDialog'
    BY <2>3 DEF StInv, StDialog, ST!SetConfirmEntry, ST!serverVars
  <2>4. ASSUME NEW a \in BOOLEAN, ST!ServeList(a) PROVE StDialog'
    BY <2>4 DEF StInv, StDialog, ST!ServeList, ST!Idle, ST!VisibleHistory, ST!serverVars
  <2> QED BY <2>1, <2>2, <2>3, <2>4
<1>2. UNCHANGED ST!serverVars /\ UNCHANGED ST!formVars /\ UNCHANGED ST!readVars /\ UNCHANGED ST!tabVars /\ UNCHANGED save
  BY DEF ST!OpenHistory, ST!CloseHistory, ST!ListAnswered, ST!HandleRestore, ST!RestoreFailed, ST!SetConfirmEntry, ST!ServeList
<1> QED BY <1>1, <1>2 DEF StInv, StServer, StAfter, StForm, StReads, ST!serverVars, ST!formVars, ST!readVars, ST!tabVars

LEMMA StStep == StConstants /\ StInv /\ [ST!Next]_(ST!vars) => StInv'
<1> SUFFICES ASSUME StConstants, StInv, [ST!Next]_(ST!vars) PROVE StInv'
  OBVIOUS
<1>1. CASE UNCHANGED ST!vars
  BY <1>1 DEF ST!vars, StInv, StServer, StAfter, StForm, StReads, StDialog
<1>2. CASE ST!Next
  BY <1>2, StServed, StTyped, StSaved, StRead, StHistory DEF ST!Next
<1> QED BY <1>1, <1>2

\* Types; a save blanks no section the admin has not been shown and stores nothing invalid; neither a save nor a
\* restore changes what customers are charged, and no change leaves two snapshots (settings/page.tsx, tenants.py).
THEOREM SettingsKept ==
    ASSUME StConstants
    PROVE  ST!Spec => [](ST!TypeOK /\ ST!OncePerIntent /\ ST!ActedAsShown)
<1>1. ST!Init => StInv
  BY StInit
<1>2. StInv /\ [ST!Next]_(ST!vars) => StInv'
  BY StStep
<1>3. StInv => ST!TypeOK /\ ST!OncePerIntent /\ ST!ActedAsShown
  <2> SUFFICES ASSUME StInv PROVE ST!TypeOK /\ ST!OncePerIntent /\ ST!ActedAsShown
    OBVIOUS
  <2>1. ST!TypeOK
    BY DEF StInv, StServer, StForm, StDialog, StRows, StGood, ST!Values, ST!TypeOK
  <2>2. ST!OncePerIntent
    BY DEF StInv, StServer, StAfter, ST!OncePerIntent
  <2>3. ST!ActedAsShown
    BY DEF StInv, StServer, StForm, StRows, StGood, ST!ActedAsShown
  <2> QED BY <2>1, <2>2, <2>3
<1> QED BY <1>1, <1>2, <1>3, PTL DEF ST!Spec

\* What was typed outlives a failure and what others save; a refused form opens the section that shows what is wrong; and a
\* change of the settings leaves those before it in the history.
THEOREM SettingsTypingKept ==
    ASSUME StConstants
    PROVE  ST!Spec => [][ST!KeepsTyping]_(ST!vars)
<1>1. ST!Init => StInv
  BY StInit
<1>2. StInv /\ [ST!Next]_(ST!vars) => StInv'
  BY StStep
<1>3. StInv /\ [ST!Next]_(ST!vars) => [ST!KeepsTyping]_(ST!vars)
  <2> SUFFICES ASSUME StInv, ST!Next PROVE ST!KeepsTyping
    OBVIOUS
  <2> DEFINE Served == ST!OthersAct \/ (\E a, b \in BOOLEAN : ST!ServeSave(a, b) \/ ST!ServeRestore(a, b))
  <2>1. CASE Served
    <3>1. /\ UNCHANGED form
          /\ settings' # settings => history' # history /\ history'[Len(history')].settings = settings
      BY <2>1, StServed
    <3>2. told' = told
      BY <2>1 DEF ST!OthersAct, ST!ServeSave, ST!ServeRestore
    <3> QED BY <3>1, <3>2 DEF ST!KeepsTyping
  <2>2. CASE ST!Invalid
    <3>1. activeSection' = ST!SectionForErrors /\ UNCHANGED <<settings, form, save>> /\ ST!Wrong # {}
      BY <2>2 DEF ST!Invalid, ST!serverVars, ST!formVars
    <3> QED BY <3>1, StOpens DEF ST!KeepsTyping, StInv
  <2>3. CASE ~Served /\ ~ST!Invalid
    <3>1. settings' = settings
      BY <2>3 DEF ST!Next, ST!Revisit, ST!DiscardChanges, ST!ExecuteSave, ST!SaveAnswered, ST!SaveFailed, ST!OpenHistory,
         ST!CloseHistory, ST!ListAnswered, ST!HandleRestore, ST!RestoreFailed, ST!TypeSection, ST!SetActiveSection, ST!SetConfirmEntry,
         ST!ReadAnswered, ST!ReadFailed, ST!Retry, ST!RestoreAnswered, ST!ServeList, ST!ServeRead, ST!serverVars
    <3>3. told' = "invalid" => told' = told
      BY <2>3 DEF StConstants, ST!Next, ST!Revisit, ST!DiscardChanges, ST!ExecuteSave, ST!SaveAnswered, ST!SaveFailed, ST!OpenHistory,
         ST!CloseHistory, ST!ListAnswered, ST!HandleRestore, ST!RestoreFailed, ST!TypeSection, ST!SetActiveSection, ST!SetConfirmEntry,
         ST!ReadAnswered, ST!ReadFailed, ST!Retry, ST!RestoreAnswered, ST!ServeList, ST!ServeRead
    <3>2. save' # save /\ told' # "saved" => form' = form
      BY <2>3 DEF ST!Next, ST!Revisit, ST!DiscardChanges, ST!ExecuteSave, ST!SaveAnswered, ST!SaveFailed, ST!OpenHistory,
         ST!CloseHistory, ST!ListAnswered, ST!HandleRestore, ST!RestoreFailed, ST!TypeSection, ST!SetActiveSection, ST!SetConfirmEntry,
         ST!ReadAnswered, ST!ReadFailed, ST!Retry, ST!RestoreAnswered, ST!ServeList, ST!ServeRead, ST!formVars, ST!FormOnFailure, ST!FormStays
    <3> QED BY <3>1, <3>2, <3>3 DEF ST!KeepsTyping
  <2> QED BY <2>1, <2>2, <2>3
<1> QED BY <1>1, <1>2, <1>3, PTL DEF ST!Spec
=============================================================================
