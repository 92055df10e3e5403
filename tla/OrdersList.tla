----------------------------- MODULE OrdersList -----------------------------
(***************************************************************************)
(* Putting booked orders on a pickup: the orders pages (orders-workspace.tsx *)
(* with its add-to-pickup-bar.tsx), where rows are ticked, and the banner of  *)
(* an order just booked (next-add-to-pickup-banner.tsx).  The chosen orders   *)
(* are checked first, then added to a scheduled pickup of their place or      *)
(* handed to the form for a new one.  Each place has at most one pickup.      *)
(***************************************************************************)
EXTENDS Naturals, FiniteSets, TLC

CONSTANTS None,
    Page,           \* "list" or "order", whose page shows one order
    Parcels, At,    \* the orders and the place of each
    PageOf,         \* the page of the list each order is on
    Loads, MaxAdds, MaxOthers, MaxTurns

VARIABLES
    state, linked,  \* the server: the status of an order, the pickup it was put on and how often
    pickup,         \* the pickup of each place
    others,
    index, rows, rowsOf,        \* the page chosen; the rows shown and the page they are of
    loads, failed,  \* list reads under way; whether the last one failed with nothing shown for it
    cached,
    ticks, hidden,  \* the ticked orders, on whatever page; the rows the filters hide
    check, dialog, add,         \* the check under way, its answer on the screen, the request to add
    dismissed, adds, turns,
    left            \* where the person went on to

vars == <<state, linked, pickup, others, index, rows, rowsOf, loads, failed, cached, ticks, hidden, check, dialog, add,
          dismissed, adds, turns, left>>
serverVars == <<state, linked, pickup, others>>
listVars == <<index, rows, rowsOf, loads, failed, cached>>
choiceVars == <<ticks, hidden>>
barVars == <<check, dialog, add, dismissed, adds, left>>

Pages == {PageOf[p] : p \in Parcels}
Places == {At[p] : p \in Parcels}
Statuses == {"OPEN", "ASSIGNED", "CANCELED"}
Listed(n) == [p \in {q \in Parcels : PageOf[q] = n} |-> state[p]]
Idle == [of |-> None, rows |-> None, live |-> FALSE, cold |-> FALSE]

-----------------------------------------------------------------------------
(* The rows.                                                               *)

\* The effect of a page: the cached rows are shown at once, earlier reads count for nothing.
Fetch(n, slot) ==
    /\ loads[slot] = Idle
    /\ loads' = [m \in Loads |-> IF m = slot THEN [of |-> n, rows |-> None, live |-> TRUE, cold |-> cached[n] = None]
                                 ELSE [loads[m] EXCEPT !.live = FALSE]]
    /\ IF cached[n] # None THEN rows' = cached[n] /\ rowsOf' = n ELSE UNCHANGED <<rows, rowsOf>>

Init ==
    /\ state \in [Parcels -> {"OPEN", "ASSIGNED"}] /\ linked = [p \in Parcels |-> <<None, 0>>]
    /\ pickup \in [Places -> {"none", "SCHEDULED"}] /\ others = 0
    /\ index = 1 /\ rowsOf = 1 /\ rows = Listed(1) /\ failed = FALSE
    /\ loads = [m \in Loads |-> Idle] /\ cached = [n \in Pages |-> IF n = 1 THEN rows ELSE None]
    /\ ticks = {} /\ hidden = {} /\ check = None /\ dialog = None /\ add = None
    /\ dismissed = FALSE /\ adds = 0 /\ turns = 0 /\ left = None

TurnTo(n, slot) ==
    /\ dialog = None /\ n \in Pages \ {index} /\ turns < MaxTurns /\ turns' = turns + 1
    /\ index' = n /\ Fetch(n, slot)
    /\ UNCHANGED <<serverVars, failed, cached, choiceVars, barVars>>

ReadRows(m) ==
    /\ loads[m] # Idle /\ loads[m].rows = None /\ loads' = [loads EXCEPT ![m].rows = Listed(loads[m].of)]
    /\ UNCHANGED <<serverVars, index, rows, rowsOf, failed, cached, choiceVars, barVars, turns>>

\* Ticks are kept by order, whatever rows are read.
Pruned(m) == ticks \cap DOMAIN loads[m].rows
Kept(m) == ticks

RowsAnswered(m) ==
    /\ loads[m].rows # None /\ loads' = [loads EXCEPT ![m] = Idle] /\ ticks' = Kept(m)
    /\ cached' = [cached EXCEPT ![loads[m].of] = loads[m].rows]
    /\ IF loads[m].live THEN rows' = loads[m].rows /\ rowsOf' = loads[m].of /\ failed' = FALSE
       ELSE UNCHANGED <<rows, rowsOf, failed>>
    /\ UNCHANGED <<serverVars, index, hidden, barVars, turns>>

\* What was shown stays.
RowsFail(m) ==
    /\ loads[m] # Idle /\ loads' = [loads EXCEPT ![m] = Idle]
    /\ failed' = (failed \/ (loads[m].live /\ loads[m].cold))
    /\ UNCHANGED <<serverVars, index, rows, rowsOf, cached, choiceVars, barVars, turns>>

\* Cached rows expire and are dropped by every write.
CacheDropped ==
    /\ cached # [n \in Pages |-> None] /\ cached' = [n \in Pages |-> None]
    /\ UNCHANGED <<serverVars, index, rows, rowsOf, loads, failed, choiceVars, barVars, turns>>

-----------------------------------------------------------------------------
(* Choosing.                                                               *)

Visible == DOMAIN rows \ hidden
ReadyRows == {p \in DOMAIN rows : rows[p] = "OPEN"}

\* Only rows of the page that are ready count; the banner's order is its own selection.
Selected == IF Page = "order" THEN IF dismissed THEN {} ELSE ReadyRows ELSE ticks \cap ReadyRows

Choose(t) == dialog = None /\ Page = "list" /\ ticks' = t /\ UNCHANGED <<serverVars, listVars, hidden, barVars, turns>>

Toggle(p) == p \in Visible \cap ReadyRows /\ Choose(IF p \in ticks THEN ticks \ {p} ELSE ticks \cup {p})

ToggleMany(checked) ==
    LET ids == Visible \cap ReadyRows
    IN  ids # {} /\ Choose(IF checked THEN ticks \cup ids ELSE ticks \ ids)

Clear == Selected # {} /\ Choose({})

Filter(h) ==
    /\ dialog = None /\ Page = "list" /\ h # hidden /\ turns < MaxTurns /\ turns' = turns + 1 /\ hidden' = h
    /\ UNCHANGED <<serverVars, listVars, ticks, barVars>>

-----------------------------------------------------------------------------
(* Checking, and the dialog.                                               *)

Going(ids) == [ids |-> ids, at |-> "going"]

\* The bar goes with the last selected row, but keeps what it was told.
DialogShown == dialog # None /\ Selected # {}

AddToPickup ==
    /\ Selected # {} /\ ~DialogShown /\ check = None /\ check' = Going(Selected)
    /\ UNCHANGED <<serverVars, listVars, choiceVars, dialog, add, dismissed, adds, turns, left>>

\* Every visible ready row is ticked, and the bar's button pressed for the person.
AddAllOrdersToPickup ==
    /\ Page = "list" /\ ~DialogShown /\ Visible \cap ReadyRows # {}
    /\ ticks' = Visible \cap ReadyRows
    /\ check' = IF check = None THEN Going(Visible \cap ReadyRows) ELSE check
    /\ UNCHANGED <<serverVars, listVars, hidden, dialog, add, dismissed, adds, turns, left>>

Linkable(ids, l) == \A p \in ids : state[p] = "OPEN" /\ At[p] = l
PlaceOf(ids) == At[CHOOSE p \in ids : TRUE]

Answer(at) ==
    check' = IF at = "answered"
             THEN [check EXCEPT !.at = at] @@ [place |-> PlaceOf(check.ids),
                      pickups |-> {l \in {PlaceOf(check.ids)} : pickup[l] = "SCHEDULED"}]
             ELSE [check EXCEPT !.at = at]

\* get_pickup_candidates.
ServeCheck(answers) ==
    /\ check # None /\ check.at = "going"
    /\ Answer(IF answers /\ Linkable(check.ids, PlaceOf(check.ids)) THEN "answered" ELSE "failed")
    /\ UNCHANGED <<serverVars, listVars, choiceVars, dialog, add, dismissed, adds, turns, left>>

\* The banner goes on to the form when there is no pickup to offer, and when the check failed.
Candidates ==
    /\ check # None /\ check.at = "answered" /\ check' = None
    /\ IF Page = "order" /\ check.pickups = {}
       THEN left' = [place |-> check.place, ids |-> Selected] /\ UNCHANGED dialog
       ELSE dialog' = [place |-> check.place, pickups |-> check.pickups] /\ UNCHANGED left
    /\ UNCHANGED <<serverVars, listVars, choiceVars, add, dismissed, adds, turns>>

CheckFailed ==
    /\ check # None /\ check.at = "failed" /\ check' = None
    /\ left' = IF Page = "order" THEN [place |-> At[CHOOSE p \in check.ids : TRUE], ids |-> check.ids] ELSE left
    /\ UNCHANGED <<serverVars, listVars, choiceVars, dialog, add, dismissed, adds, turns>>

CloseDialog ==
    /\ DialogShown /\ dialog' = None
    /\ UNCHANGED <<serverVars, listVars, choiceVars, check, add, dismissed, adds, turns, left>>

CreateNew ==
    /\ DialogShown /\ add = None /\ dialog' = None /\ left' = [place |-> dialog.place, ids |-> Selected]
    /\ UNCHANGED <<serverVars, listVars, choiceVars, check, add, dismissed, adds, turns>>

\* What is sent is what is selected now, not what was checked.
AddToExisting ==
    /\ DialogShown /\ add = None /\ adds < MaxAdds /\ adds' = adds + 1
    /\ \E l \in dialog.pickups : add' = Going(Selected) @@ [pickup |-> l]
    /\ UNCHANGED <<serverVars, listVars, choiceVars, check, dialog, dismissed, turns, left>>

-----------------------------------------------------------------------------
\* add_shipments: the request locked and open, the orders ready, at its place, on no pickup.
LinkableAnywhere(ids, l) == \A p \in ids : state[p] = "OPEN"
LinkableAgain(ids, l) == \A p \in ids : At[p] = l
CanAdd(ids, l) == Linkable(ids, l)

ServeAdd(reaches, answers) ==
    /\ add # None /\ add.at = "going"
    /\ LET done == reaches /\ pickup[add.pickup] = "SCHEDULED" /\ CanAdd(add.ids, add.pickup)
       IN  /\ state' = [p \in Parcels |-> IF done /\ p \in add.ids THEN "ASSIGNED" ELSE state[p]]
           /\ linked' = [p \in Parcels |-> IF done /\ p \in add.ids THEN <<add.pickup, linked[p][2] + 1>> ELSE linked[p]]
           /\ add' = [add EXCEPT !.at = IF done /\ answers THEN "answered" ELSE "failed"]
    /\ UNCHANGED <<pickup, others, listVars, choiceVars, check, dialog, dismissed, adds, turns, left>>

\* The selection is cleared and the list read again.
Added(slot) ==
    /\ add # None /\ add.at = "answered" /\ add' = None /\ dialog' = None /\ ticks' = {}
    /\ dismissed' = (Page = "order") /\ Fetch(index, slot)
    /\ UNCHANGED <<serverVars, index, failed, cached, hidden, check, adds, turns, left>>

AddFailed ==
    /\ add # None /\ add.at = "failed" /\ add' = None
    /\ UNCHANGED <<serverVars, listVars, choiceVars, check, dialog, dismissed, adds, turns, left>>

Dismiss ==
    /\ Page = "order" /\ Selected # {} /\ ~DialogShown /\ dismissed' = TRUE
    /\ UNCHANGED <<serverVars, listVars, choiceVars, check, dialog, add, adds, turns, left>>

\* Orders are cancelled or put on pickups elsewhere; pickups are made and closed.
OthersDo ==
    /\ others < MaxOthers /\ others' = others + 1
    /\ \/ \E p \in Parcels : /\ state[p] = "OPEN"
                             /\ \E s \in {"ASSIGNED", "CANCELED"} : state' = [state EXCEPT ![p] = s]
                             /\ UNCHANGED pickup
       \/ \E l \in Places : /\ pickup' = [pickup EXCEPT ![l] = IF @ = "SCHEDULED" THEN "none" ELSE "SCHEDULED"]
                            /\ UNCHANGED state
    /\ UNCHANGED <<linked, listVars, choiceVars, barVars, turns>>

OnPage ==
    \/ \E m \in Loads : ReadRows(m) \/ RowsAnswered(m) \/ RowsFail(m) \/ Added(m) \/ \E n \in Pages : TurnTo(n, m)
    \/ \E p \in Parcels : Toggle(p)
    \/ \E checked \in BOOLEAN : ToggleMany(checked) \/ ServeCheck(checked)
    \/ \E h \in SUBSET Parcels : Filter(h)
    \/ Clear \/ CacheDropped \/ AddToPickup \/ AddAllOrdersToPickup \/ Candidates \/ CheckFailed \/ CloseDialog
    \/ CreateNew \/ AddToExisting \/ AddFailed \/ Dismiss \/ OthersDo
    \/ \E reaches, answers \in BOOLEAN : ServeAdd(reaches, answers)

Next == left = None /\ OnPage

Spec == Init /\ [][Next]_vars

-----------------------------------------------------------------------------
TypeOK ==
    /\ state \in [Parcels -> Statuses] /\ DOMAIN rows \subseteq Parcels /\ \A p \in DOMAIN rows : rows[p] \in Statuses
    /\ ticks \subseteq Parcels /\ hidden \subseteq Parcels /\ index \in Pages /\ rowsOf \in Pages
    /\ Cardinality({m \in Loads : loads[m].live}) <= 1

\* An order goes on a pickup of its own place, although the dialog may still name the place of orders
\* that were ticked before; and the rows are of the page that is chosen once it has been read.
ActedAsShown ==
    /\ \A p \in Parcels : linked[p][1] \in {None, At[p]}
    /\ ~failed /\ (\A m \in Loads : ~loads[m].live) => rowsOf = index

\* An order is put on a pickup once, although the answer is lost and the button pressed again.
OncePerIntent == \A p \in Parcels : linked[p][2] <= 1

\* The ticks are the person's until an add of theirs is answered: no read of rows changes them.
KeepsTyping == loads' # loads /\ add' = add => ticks' = ticks
=============================================================================
