----------------------------- MODULE PickupRun -----------------------------
(***************************************************************************)
(* Closing a pickup request from the two screens that can: the first-mile   *)
(* tab of the operations page (ops/page.tsx: cards with actual pieces, the   *)
(* one-tap confirmation, the checklist, Not Picked) and the pickup requests   *)
(* page (pickup-requests-list.tsx).  The seller adds, takes back and cancels  *)
(* meanwhile; answers may be lost.  One request, seen from one screen.        *)
(***************************************************************************)
EXTENDS Naturals, FiniteSets

CONSTANTS None,
    Page,        \* "ops" or "list"
    Kinds,       \* the dialogs and buttons used
    Parcels,
    Returns,     \* the parcels that are returns with a doorstep check
    Loads, MaxDialogs, MaxOthers

VARIABLES
    pur,         \* the server's row: status and linked parcels
    row, known,  \* the row on the page; the returns among the shipments it has loaded
    loads,       \* lists under way
    typed,       \* actual pieces typed on the card, kept until the page is left
    dialog,      \* the dialog open, over the row it was opened on
    measuring,   \* checklists whose piece counts are being turned into boxes
    flights,     \* the single flights of the page
    collected,   \* the handover: what was listed and chosen, what went
    asked, others

vars == <<pur, row, known, loads, typed, dialog, measuring, flights, collected, asked, others>>
serverVars == <<pur, collected, others>>
pageVars == <<row, known, typed>>

Open == {"SCHEDULED", "OUT_FOR_PICKUP"}
Outcome == [card |-> "PICKED", checklist |-> "PICKED", notPicked |-> "NOT_PICKED", cancel |-> "CANCELED",
            out |-> "OUT_FOR_PICKUP"]
Nothing == [p \in Parcels |-> 0]
Flights == IF Page = "ops" THEN {"ops", "dispatch", "notPicked"} ELSE {"dialog"}

\* The operations page guards each dialog on its own, the list all of them together.
FlightOf(kind) ==
    IF Page = "list" THEN "dialog"
    ELSE CASE kind \in {"card", "out"} -> "ops"
           [] kind = "checklist" -> "dispatch"
           [] OTHER -> "notPicked"

Init ==
    /\ pur \in [status : {"SCHEDULED"}, linked : SUBSET Parcels] /\ collected = None /\ others = 0
    /\ row = None /\ known = {} /\ loads = [l \in Loads |-> None]
    /\ typed = Nothing /\ dialog = None /\ measuring = {} /\ flights = [f \in Flights |-> None] /\ asked = 0

-----------------------------------------------------------------------------
(* The list.                                                               *)

\* A newer load of the list page makes the ones under way count for nothing (its effect's ignore);
\* the operations page shows whichever is answered last.
Started(l) ==
    [m \in Loads |-> IF m = l THEN [row |-> None, known |-> None, live |-> TRUE]
                     ELSE IF Page = "list" /\ loads[m] # None THEN [loads[m] EXCEPT !.live = FALSE] ELSE loads[m]]

Load(l) ==
    /\ loads[l] = None /\ loads' = Started(l)
    /\ UNCHANGED <<serverVars, pageVars, dialog, measuring, flights, asked>>

ReadRow(l) ==
    /\ loads[l] # None /\ loads[l].row = None /\ loads' = [loads EXCEPT ![l].row = pur]
    /\ UNCHANGED <<serverVars, pageVars, dialog, measuring, flights, asked>>

\* The shipments are read beside the requests, only on the operations page.
ReadShipments(l) ==
    /\ Page = "ops" /\ loads[l] # None /\ loads[l].known = None
    /\ loads' = [loads EXCEPT ![l].known = Returns \cap pur.linked]
    /\ UNCHANGED <<serverVars, pageVars, dialog, measuring, flights, asked>>

\* A request of the operations page awaits the load it started.
Released(l) == [f \in Flights |-> IF flights[f] # None /\ flights[f].load = l THEN None ELSE flights[f]]

LoadAnswered(l) ==
    /\ loads[l] # None /\ loads[l].row # None /\ (Page = "ops" => loads[l].known # None)
    /\ loads' = [loads EXCEPT ![l] = None] /\ flights' = Released(l)
    /\ row' = IF loads[l].live THEN loads[l].row ELSE row
    /\ known' = IF Page = "ops" THEN loads[l].known ELSE known
    /\ UNCHANGED <<serverVars, typed, dialog, measuring, asked>>

LoadFails(l) ==
    /\ loads[l] # None /\ loads' = [loads EXCEPT ![l] = None] /\ flights' = Released(l)
    /\ UNCHANGED <<serverVars, pageVars, dialog, measuring, asked>>

-----------------------------------------------------------------------------
(* The card or row, and the dialogs over it.                               *)

Shown == row # None /\ row.status \in Open
RowBusy == Page = "ops" /\ flights["ops"] # None

TypePieces(p) ==
    /\ Page = "ops" /\ "card" \in Kinds /\ Shown /\ dialog = None /\ flights["ops"] = None
    /\ p \in row.linked /\ typed' = [typed EXCEPT ![p] = 2 - @]
    /\ UNCHANGED <<serverVars, row, known, loads, dialog, measuring, flights, asked>>

\* The checklist starts with every parcel ticked; a dialog opened again starts afresh.
OpenDialog(kind) ==
    /\ kind \in Kinds /\ Shown /\ ~RowBusy /\ dialog = None /\ asked < MaxDialogs
    /\ kind = "out" => Page = "list" /\ row.status = "SCHEDULED"
    /\ kind = "cancel" => Page = "list" /\ row.status = "SCHEDULED"
    /\ kind = "card" => Page = "ops"
    /\ asked' = asked + 1
    /\ dialog' = [kind |-> kind, id |-> asked + 1, row |-> row, ticked |-> row.linked, pieces |-> Nothing,
                  otp |-> FALSE, checked |-> FALSE]
    /\ UNCHANGED <<serverVars, pageVars, loads, measuring, flights>>

Busy == flights[FlightOf(dialog.kind)] # None \/ \E m \in measuring : m.id = dialog.id

InDialog(kinds) ==
    /\ dialog # None /\ dialog.kind \in kinds
    /\ UNCHANGED <<serverVars, pageVars, loads, measuring, flights, asked>>

\* setPicked: the pieces of a parcel that stays are dropped.
Tick(p) ==
    /\ InDialog({"checklist"}) /\ p \in dialog.row.linked
    /\ dialog' = IF p \in dialog.ticked
                 THEN [dialog EXCEPT !.ticked = @ \ {p}, !.pieces[p] = 0]
                 ELSE [dialog EXCEPT !.ticked = @ \cup {p}]

EnterPieces(p) ==
    /\ InDialog({"checklist"}) /\ ~Busy /\ p \in dialog.ticked
    /\ dialog' = [dialog EXCEPT !.pieces[p] = 2 - @]

\* The seller's OTP, or an administrator's reason to do without.
EnterOtp == InDialog({"card", "checklist"}) /\ ~Busy /\ ~dialog.otp /\ dialog' = [dialog EXCEPT !.otp = TRUE]

ConfirmQc ==
    InDialog({"card"}) /\ dialog.row.linked \cap known # {} /\ dialog' = [dialog EXCEPT !.checked = ~@]

\* Escape closes a dialog whose request is under way, though its Cancel button waits.
CloseDialog == InDialog(DOMAIN Outcome) /\ dialog' = None

-----------------------------------------------------------------------------
(* Sending.                                                                *)

Body(listed, ticked, pieces) == [listed |-> listed, ticked |-> ticked, pieces |-> pieces]

Sent(kind, body, at) ==
    flights' = [flights EXCEPT ![FlightOf(kind)] =
                   [kind |-> kind, body |-> body, at |-> at, done |-> FALSE, load |-> None]]

\* handleMarkOutForPickup of the card, without a dialog.
MarkOutForPickup ==
    /\ Page = "ops" /\ "out" \in Kinds /\ Shown /\ row.status = "SCHEDULED" /\ ~RowBusy /\ dialog = None
    /\ Sent("out", Body({}, {}, Nothing), "sent")
    /\ UNCHANGED <<serverVars, pageVars, loads, dialog, measuring, asked>>

\* "Yes, all picked up": the parcels of the row the dialog was opened on, the pieces of its card.
SubmitPickupConfirm ==
    /\ dialog # None /\ dialog.kind = "card" /\ ~Busy /\ dialog.otp
    /\ dialog.row.linked \cap known # {} => dialog.checked
    /\ Sent("card", Body(dialog.row.linked, dialog.row.linked,
                         [p \in Parcels |-> IF p \in dialog.row.linked THEN typed[p] ELSE 0]), "measuring")
    /\ UNCHANGED <<serverVars, pageVars, loads, dialog, measuring, asked>>

\* The checklist turns pieces into boxes first, and sends them even if it was closed meanwhile.
SubmitChecklist ==
    /\ dialog # None /\ dialog.kind = "checklist" /\ ~Busy /\ dialog.otp
    /\ dialog.row.linked # {} => dialog.ticked # {}
    /\ measuring' = measuring \cup
           {[id |-> dialog.id, body |-> Body(dialog.row.linked, dialog.ticked, dialog.pieces)]}
    /\ UNCHANGED <<serverVars, pageVars, loads, dialog, flights, asked>>

ChecklistMeasured(m) ==
    /\ measuring' = measuring \ {m}
    /\ \/ flights[FlightOf("checklist")] = None /\ Sent("checklist", m.body, "sent")
       \/ UNCHANGED flights      \* a request is under way, or the boxes could not be read
    /\ UNCHANGED <<serverVars, pageVars, loads, dialog, asked>>

CardMeasured ==
    /\ Page = "ops" /\ flights["ops"] # None /\ flights["ops"].at = "measuring"
    /\ \E at \in {"sent", "failed"} : flights' = [flights EXCEPT !["ops"].at = at]
    /\ UNCHANGED <<serverVars, pageVars, loads, dialog, measuring, asked>>

\* Not Picked with a reason, Cancel pickup, and Out for pickup on the list page.
SubmitOther ==
    /\ dialog # None /\ dialog.kind \in {"notPicked", "cancel", "out"} /\ ~Busy
    /\ Sent(dialog.kind, Body({}, {}, Nothing), "sent")
    /\ UNCHANGED <<serverVars, pageVars, loads, dialog, measuring, asked>>

-----------------------------------------------------------------------------
(* The server.                                                             *)

\* A variant for mutation testing: parcels linked since the list was loaded go along.
WentAll(body) == pur.linked

\* No parcel ticked is sent as no list, which to the server means all of them.
Went(body) == IF body.ticked = {} THEN pur.linked ELSE body.ticked \cap pur.linked

\* A variant for mutation testing: a pickup that has ended is dispatched again.
AcceptedAgain(kind, body) == kind \in {"card", "checklist"} /\ Went(body) # {}

Accepted(kind, body) ==
    CASE kind \in {"card", "checklist"} ->
            /\ pur.status \in Open
            /\ pur.linked # {} => Went(body) # {}
            /\ \A p \in Parcels : body.pieces[p] # 0 => p \in Went(body)
      [] kind = "notPicked" -> pur.status \in Open
      [] OTHER -> pur.status = "SCHEDULED"

\* The parcels that stay go back to Ready to Ship.
Dispatch(body) ==
    /\ pur' = [status |-> "PICKED", linked |-> Went(body)]
    /\ collected' = [listed |-> body.listed, ticked |-> body.ticked, pieces |-> body.pieces, went |-> Went(body),
                     times |-> IF collected = None THEN 1 ELSE collected.times + 1]

Serve(f, reaches, answers) ==
    /\ flights[f] # None /\ flights[f].at = "sent"
    /\ LET kind == flights[f].kind
           done == reaches /\ Accepted(kind, flights[f].body)
       IN  /\ flights' = [flights EXCEPT ![f].at = IF done /\ answers THEN "ok" ELSE "failed", ![f].done = done]
           /\ CASE done /\ kind \in {"card", "checklist"} -> Dispatch(flights[f].body)
                [] done /\ kind \in {"notPicked", "cancel"} ->
                      pur' = [status |-> Outcome[kind], linked |-> {}] /\ UNCHANGED collected
                [] done /\ kind = "out" -> pur' = [pur EXCEPT !.status = Outcome[kind]] /\ UNCHANGED collected
                [] OTHER -> UNCHANGED <<pur, collected>>
    /\ UNCHANGED <<others, pageVars, loads, dialog, measuring, asked>>

\* The seller adds parcels, cancels one, or cancels the request; other staff send someone out.
Others(next) ==
    /\ others < MaxOthers /\ others' = others + 1 /\ pur' = next
    /\ UNCHANGED <<collected, pageVars, loads, dialog, measuring, flights, asked>>

SellerAdds(p) ==
    pur.status = "SCHEDULED" /\ p \notin pur.linked /\ Others([pur EXCEPT !.linked = @ \cup {p}])
SellerTakesBack(p) ==
    /\ pur.status \in Open /\ p \in pur.linked
    /\ Others([status |-> IF pur.linked = {p} /\ pur.status = "SCHEDULED" THEN "CANCELED" ELSE pur.status,
               linked |-> pur.linked \ {p}])
SellerCancels == pur.status = "SCHEDULED" /\ Others([status |-> "CANCELED", linked |-> {}])
SentOut == pur.status = "SCHEDULED" /\ Others([pur EXCEPT !.status = "OUT_FOR_PICKUP"])

-----------------------------------------------------------------------------
(* The answers.                                                            *)

\* The dialog of this request, whichever it is of by now.
ClosedBy(kind) == IF dialog # None /\ dialog.kind = kind THEN None ELSE dialog

\* The operations page keeps its buttons disabled until the load is answered.
Done(f, l) ==
    /\ flights[f] # None /\ flights[f].at = "ok" /\ loads[l] = None /\ loads' = Started(l)
    /\ dialog' = ClosedBy(flights[f].kind)
    /\ flights' = [flights EXCEPT ![f] = IF Page = "ops" THEN [@ EXCEPT !.at = "loading", !.load = l] ELSE None]
    /\ UNCHANGED <<serverVars, pageVars, measuring, asked>>

\* A variant for mutation testing: the dialog is closed whatever the answer.
AfterFailureClosed(kind) == ClosedBy(kind)

\* A failure is shown in the dialog, which stays open.
AfterFailure(kind) == dialog

Failed(f) ==
    /\ flights[f] # None /\ flights[f].at = "failed" /\ flights' = [flights EXCEPT ![f] = None]
    /\ dialog' = AfterFailure(flights[f].kind)
    /\ UNCHANGED <<serverVars, pageVars, loads, measuring, asked>>

-----------------------------------------------------------------------------
Next ==
    \/ \E l \in Loads : Load(l) \/ ReadRow(l) \/ ReadShipments(l) \/ LoadAnswered(l) \/ LoadFails(l)
    \/ \E p \in Parcels : TypePieces(p) \/ Tick(p) \/ EnterPieces(p) \/ SellerAdds(p) \/ SellerTakesBack(p)
    \/ \E kind \in Kinds : OpenDialog(kind)
    \/ EnterOtp \/ ConfirmQc \/ CloseDialog
    \/ MarkOutForPickup \/ SubmitPickupConfirm \/ SubmitChecklist \/ SubmitOther \/ CardMeasured
    \/ \E m \in measuring : ChecklistMeasured(m)
    \/ \E f \in Flights, reaches, answers \in BOOLEAN : Serve(f, reaches, answers)
    \/ SellerCancels \/ SentOut
    \/ \E f \in Flights : Failed(f) \/ \E l \in Loads : Done(f, l)

Spec == Init /\ [][Next]_vars

-----------------------------------------------------------------------------
(* Properties.                                                             *)

TypeOK ==
    /\ pur.status \in Open \cup {"PICKED", "NOT_PICKED", "CANCELED"} /\ pur.linked \subseteq Parcels
    /\ row # None => row.linked \subseteq Parcels
    /\ dialog # None => dialog.row.status \in Open /\ dialog.ticked \subseteq dialog.row.linked
    /\ \A m \in measuring : m.id \in 1..asked
    /\ \A f \in Flights : flights[f] # None /\ flights[f].load # None => loads[flights[f].load] # None

\* E-01, G1: the parcels that went are those the dialog listed and had ticked, although the seller
\* adds and takes back parcels after the list was loaded. A list that was empty is the exception.
TickedWent == collected # None /\ collected.listed # {} => collected.went \subseteq collected.ticked

\* B5: pieces are recorded, and billed, of parcels that went.
PiecesOfWhatWent ==
    collected # None => \A p \in Parcels : collected.pieces[p] # 0 => p \in collected.went

\* A pickup is handed over once, although its button is pressed again when the answer was lost.
HandedOverOnce == collected # None => collected.times = 1

\* No answer closes a dialog, with its ticks, pieces and OTP, unless its request was done.
KeepsTyping ==
    dialog # None /\ dialog' = None => flights' = flights \/ \E f \in Flights : flights[f] # None /\ flights[f].done

ActedAsShown == TickedWent /\ PiecesOfWhatWent
OncePerIntent == HandedOverOnce

=============================================================================
