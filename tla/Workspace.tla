----------------------------- MODULE Workspace -----------------------------
(***************************************************************************)
(* The shell of the application: which of the two business flows (B2C      *)
(* Express, B2B Cargo) the menus show, which pages a person may open, and  *)
(* the bar that acknowledges a navigation. The flow follows, in this       *)
(* order, the person's service scope, the page, and the choice remembered  *)
(* in this tab and in localStorage, which other tabs write too.            *)
(***************************************************************************)
EXTENDS Naturals, FiniteSets

CONSTANTS None, MaxMoves

Flows == {"B2C", "B2B"}
Roles == {"customer", "owner", "admin", "operations_user", "support_user", "read_only_user"}
Profiles == [role : Roles, scope : Flows \cup {"BOTH"}]

\* The pages that matter: one dashboard and one deeper page of each flow, two shared ones.
Routes == {"/dashboard", "/shipments", "/b2b/dashboard", "/b2b/shipments", "/wallet",
           "/finances/remittances", "/ops", "/team"}

VARIABLES profile,    \* what AuthGuard shows of the signed-in person
          path,       \* the page on screen
          going,      \* the page router.push is loading, or None
          savedFlow,  \* the tab's remembered choice, or None
          storage,    \* localStorage's naviera-flow-<tenant>, or None
          bar,        \* the progress bar: "idle", "moving" or "finishing"
          request,    \* the dialog asking for B2B access: "closed", "open" or "sent"
          chosen,     \* the flow last switched to or entered since the page was loaded, or None
          moves

vars == <<profile, path, going, savedFlow, storage, bar, request, chosen, moves>>

-----------------------------------------------------------------------------
(* Who may do what.                                                        *)

Admins == {"owner", "admin"}
FinanceViewers == Admins \cup {"read_only_user"}
Bookers == Admins \cup {"customer", "operations_user"}
Operators == Admins \cup {"operations_user"}

\* resolveCapabilities, for the capabilities the menu asks for.
Capable(role, capability) ==
    role \in CASE capability = "isStaff" -> Roles \ {"customer"}
               [] capability = "canManageTeam" -> Admins
               [] capability = "canOperate" -> Operators
               [] capability = "canViewWallet" -> Bookers \cup FinanceViewers
               [] capability = "canViewFinanceDocuments" -> FinanceViewers \cup {"customer"}
               [] OTHER -> Roles

\* A variant for mutation testing: the finance entries are shown to whoever has a wallet.
RequiredByWallet(route) ==
    CASE route \in {"/wallet", "/finances/remittances"} -> "canViewWallet"
      [] route = "/ops" -> "canOperate"
      [] route = "/team" -> "canManageTeam"
      [] OTHER -> "none"

\* The capability of the menu entry that leads to a page.
Required(route) ==
    CASE route = "/wallet" -> "canViewWallet"
      [] route = "/finances/remittances" -> "canViewFinanceDocuments"
      [] route = "/ops" -> "canOperate"
      [] route = "/team" -> "canManageTeam"
      [] OTHER -> "none"

\* Who the API serves a page's own list to: the role checks of its services.
Served(role, route) ==
    CASE route = "/wallet" -> role \in FinanceViewers \cup Bookers
      [] route = "/finances/remittances" -> role \in FinanceViewers \/ role = "customer"
      [] route = "/ops" -> role \in Operators
      [] route = "/team" -> role \in Admins
      [] OTHER -> TRUE

\* Staff work in both flows, a customer in those of the service scope.
CanAccess(p, f) == p.role # "customer" \/ p.scope \in {f, "BOTH"}
CanSwitchFlow(p) == \A f \in Flows : CanAccess(p, f)

-----------------------------------------------------------------------------
(* The flow.                                                               *)

FlowOf(route) ==
    CASE route \in {"/b2b/dashboard", "/b2b/shipments"} -> "B2B"
      [] route \in {"/dashboard", "/shipments"} -> "B2C"
      [] OTHER -> None

Dashboard(f) == IF f = "B2B" THEN "/b2b/dashboard" ELSE "/dashboard"

LockedFlow(p) ==
    IF CanSwitchFlow(p) THEN None ELSE CHOOSE f \in Flows : CanAccess(p, f)

\* resolveActiveFlow: scope, page, remembered choice, default.
ResolveActiveFlow(p, route, saved) ==
    IF LockedFlow(p) # None THEN LockedFlow(p)
    ELSE IF FlowOf(route) # None THEN FlowOf(route)
    ELSE IF saved # None THEN saved ELSE "B2C"

ActiveFlow == ResolveActiveFlow(profile, path, savedFlow)

\* The effect on the page and the scope: a page of one flow moves a person of both into it.
Remember(p, route, saved) ==
    LET f == FlowOf(route) IN
    IF CanSwitchFlow(p) /\ f # None
    THEN savedFlow' = f /\ storage' = f
    ELSE savedFlow' = saved /\ UNCHANGED storage

\* (What the program does not keep.)
Visit(p, route, before) ==
    chosen' = IF CanSwitchFlow(p) /\ FlowOf(route) # None THEN FlowOf(route) ELSE before

Init ==
    /\ profile \in Profiles /\ path \in Routes /\ going = None
    /\ storage \in Flows \cup {None}
    /\ savedFlow = IF CanSwitchFlow(profile) /\ FlowOf(path) # None THEN FlowOf(path) ELSE storage
    /\ chosen = IF CanSwitchFlow(profile) THEN FlowOf(path) ELSE None
    /\ bar = "idle" /\ request = "closed" /\ moves = 0

Move == moves < MaxMoves /\ moves' = moves + 1

\* FlowAccessGuard: what a page of a flow shows.
Allowed(p, route) == FlowOf(route) # None => CanAccess(p, FlowOf(route))

-----------------------------------------------------------------------------
(* Steps.                                                                  *)

\* startNavigation: a link to the page on screen only flashes the bar.
StartNavigation(route) ==
    IF route = path THEN bar' = "finishing" ELSE bar' = "moving"

\* A menu entry of the active flow, or any link or address typed in (a deep link).
Click(route) ==
    /\ Move
    /\ StartNavigation(route)
    /\ going' = IF route = path THEN None ELSE route
    /\ UNCHANGED <<profile, path, savedFlow, storage, request, chosen>>

\* FlowSwitcher.handleSelect and switchFlow.
SwitchFlow(f) ==
    /\ Move /\ f # ActiveFlow
    /\ \/ /\ CanSwitchFlow(profile)
          /\ savedFlow' = f /\ storage' = f /\ chosen' = f
          /\ StartNavigation(Dashboard(f)) /\ going' = Dashboard(f)
          /\ UNCHANGED request
       \/ /\ f = "B2B" /\ ~CanAccess(profile, "B2B") /\ request = "closed"
          /\ request' = "open"
          /\ UNCHANGED <<savedFlow, storage, bar, going, chosen>>
    /\ UNCHANGED <<profile, path>>

\* RequestB2bAccessDialog, also behind FlowAccessGuard; useSingleFlight drops a second click.
SubmitRequest ==
    /\ request = "open" /\ request' = "sent"
    /\ UNCHANGED <<profile, path, going, savedFlow, storage, bar, chosen, moves>>

\* The answer closes the dialog after the profile is read again; a failure leaves it open.
RequestAnswered(p) ==
    /\ request = "sent"
    /\ \/ request' = "open" /\ UNCHANGED <<profile, savedFlow, storage, chosen>>
       \/ /\ request' = "closed"
          /\ p.role = profile.role /\ p.scope \in {profile.scope, "BOTH"}
          /\ profile' = p
          /\ Remember(p, path, savedFlow) /\ Visit(p, path, chosen)
    /\ UNCHANGED <<path, going, bar, moves>>

\* The route commits: the bar is cleared at once, and the page's flow is remembered.
Arrive ==
    /\ going # None
    /\ path' = going /\ going' = None
    /\ bar' = "idle"
    /\ Remember(profile, going, savedFlow) /\ Visit(profile, going, chosen)
    /\ UNCHANGED <<profile, request, moves>>

\* The navigation goes nowhere (a handler cancelled it, a redirect back).
GoesNowhere ==
    /\ going # None /\ going' = None
    /\ UNCHANGED <<profile, path, savedFlow, storage, bar, request, chosen, moves>>

\* The timer of a bar that is finishing (MIN_VISIBLE_MS) or stuck (SAFETY_TIMEOUT_MS).
BarTimer ==
    /\ bar # "idle" /\ bar' = "idle"
    /\ UNCHANGED <<profile, path, going, savedFlow, storage, request, chosen, moves>>

\* A re-check of access brings another role or scope; the same person, so nothing remounts.
ProfileChanges(p) ==
    /\ Move /\ profile' = p
    /\ Remember(p, path, savedFlow) /\ Visit(p, path, chosen)
    /\ UNCHANGED <<path, going, bar, request>>

\* Another tab of the tenant; this one does not listen.
OtherTab(f) ==
    /\ Move /\ storage' = f
    /\ UNCHANGED <<profile, path, going, savedFlow, bar, request, chosen>>

\* The page is loaded anew: the remembered choice is read back, then the page has its say.
Reload ==
    /\ Move
    /\ going' = None /\ bar' = "idle" /\ request' = "closed"
    /\ Remember(profile, path, storage) /\ Visit(profile, path, None)
    /\ UNCHANGED <<profile, path>>

Next ==
    \/ \E route \in Routes : Click(route)
    \/ \E f \in Flows : SwitchFlow(f) \/ OtherTab(f)
    \/ SubmitRequest \/ Arrive \/ GoesNowhere \/ BarTimer \/ Reload
    \/ \E p \in Profiles : RequestAnswered(p) \/ ProfileChanges(p)

Fairness == WF_vars(BarTimer)

Spec == Init /\ [][Next]_vars /\ Fairness

-----------------------------------------------------------------------------
(* Properties.                                                             *)

TypeOK ==
    /\ profile \in Profiles /\ path \in Routes /\ going \in Routes \cup {None}
    /\ savedFlow \in Flows \cup {None} /\ chosen \in Flows \cup {None} /\ storage \in Flows \cup {None}
    /\ bar \in {"idle", "moving", "finishing"} /\ request \in {"closed", "open", "sent"}

\* Whatever was remembered here or in another tab and however the scope changed meanwhile, the
\* menus show the flow of the page whose content is on screen.
MenuFitsPage ==
    FlowOf(path) # None /\ Allowed(profile, path) => ActiveFlow = FlowOf(path)

\* workspace-flow-provider.tsx: the flow a person of both last opened a page of, or switched to,
\* is the one the shared pages' menus show, whatever another tab remembered since.
SharedPageKeepsFlow ==
    FlowOf(path) = None /\ CanSwitchFlow(profile) /\ chosen # None => ActiveFlow = chosen

\* Every entry the menu shows leads to a page whose list the API serves to that role: the two
\* tables are kept by hand in two languages.
MenuMatchesApi ==
    \A route \in Routes :
        Capable(profile.role, Required(route)) => Served(profile.role, route)

\* A navigation that is acknowledged on screen is not acknowledged for ever.
BarEnds == bar # "idle" ~> bar = "idle"

=============================================================================
