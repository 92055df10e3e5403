------------------------------ MODULE MCShell ------------------------------
(* The way into the application and the shell around its pages, side by side: a behaviour is
   one of SignIn or one of Workspace, which share no state. *)
CONSTANTS Users, None, Slots, MaxEvents, MaxFailures, MaxSteps, MaxMoves

VARIABLES part,
    page, stored, dead, member, form, job, checks, codes, pending, arrival, chosenFor, guard, mount,
    recheck, throttled, trailing, owed, crossed, events, failures, steps,
    profile, path, going, savedFlow, storage, bar, request, chosen, moves

SI == INSTANCE SignIn
WS == INSTANCE Workspace

\* "None" stands for nothing: it is not a person, a session, a request, a flow or a page.
ASSUME NoneAssumption ==
    None \notin Users \cup SI!Sessions \cup SI!Jobs \cup [sent : BOOLEAN, as : SI!Stored]
              \cup [sent : SI!Stored] \cup WS!Flows \cup WS!Routes

signInVars == <<page, stored, dead, member, form, job, checks, codes, pending, arrival, chosenFor,
                guard, mount, recheck, throttled, trailing, owed, crossed, events, failures, steps>>
shellVars == <<profile, path, going, savedFlow, storage, bar, request, chosen, moves>>
vars == <<part, signInVars, shellVars>>

Init ==
    \/ part = "signin" /\ SI!Init
       /\ profile = None /\ path = None /\ going = None /\ savedFlow = None /\ storage = None
       /\ bar = None /\ request = None /\ chosen = None /\ moves = None
    \/ part = "shell" /\ WS!Init
       /\ page = None /\ stored = None /\ dead = None /\ member = None /\ form = None /\ job = None
       /\ checks = None /\ codes = None /\ pending = None /\ arrival = None /\ chosenFor = None
       /\ guard = None /\ mount = None /\ recheck = None /\ throttled = None /\ trailing = None
       /\ owed = None /\ crossed = None /\ events = None /\ failures = None /\ steps = None

Next ==
    \/ part = "signin" /\ SI!Next /\ UNCHANGED <<part, shellVars>>
    \/ part = "shell" /\ WS!Next /\ UNCHANGED <<part, signInVars>>

Fairness ==
    WF_vars(/\ UNCHANGED part
            /\ \/ part = "signin" /\ SI!Handled /\ UNCHANGED shellVars
               \/ part = "shell" /\ WS!BarTimer /\ UNCHANGED signInVars)

Spec == Init /\ [][Next]_vars /\ Fairness

TypeOK == IF part = "signin" THEN SI!TypeOK ELSE WS!TypeOK

\* A password chosen at the login form is given only to the person it was chosen for.
PasswordForItsOwner == part = "signin" => SI!PasswordForItsOwner

\* What the shell offers, what the page shows and what the API serves agree: the menu is the one of
\* the page's flow, each of its entries is served to the person, and a page both flows share keeps
\* the flow it was opened from.
MenusAgree == part = "shell" => WS!MenuFitsPage /\ WS!MenuMatchesApi /\ WS!SharedPageKeepsFlow

\* A failing server or network ends nobody's session.
OutageKeepsSession == SI!OutageKeepsSession

\* What must happen in the end does: a withdrawn member is shown out, a navigation's bar goes.
Settles == SI!WithdrawalNoticed /\ (part = "shell" => WS!BarEnds)
=============================================================================
