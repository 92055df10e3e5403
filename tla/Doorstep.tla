------------------------------ MODULE Doorstep ------------------------------
(***************************************************************************)
(* The last-mile tab of the operations page (ops/page.tsx, ops-field.ts):   *)
(* the cards a rider works from, the OTP and receiver typed on them, the     *)
(* NDR and doorstep-QC dialogs, and what the server does with their          *)
(* requests, whose answers may be lost.  One parcel; other people move it    *)
(* and edit its cash on delivery while the rider's list is as old as its     *)
(* last load.                                                                *)
(***************************************************************************)
EXTENDS NdrRules

CONSTANTS None,
    Starts,      \* [type, status, attempts] of the parcel at first
    Jobs,        \* what the rider comes to do: "pod", "ndr", "qc", "out", "return"
    Loads,       \* list loads under way at once
    MaxMoves,    \* what other people do to the parcel
    MaxDialogs   \* how often the rider opens a dialog

Cash == {0, 1}

\* A parcel at the door for the third time, two attempts having failed: a value for Starts.
TwiceAttempted == {[type |-> "FORWARD", status |-> "OUT_FOR_DELIVERY", attempts |-> 2]}

VARIABLES
    parcel,      \* the server's row
    shown,       \* the parcel's rows on the page: it may be on both lists, or on neither
    loads,       \* per load: the lists still to be read and the rows read so far
    otp, receiver, \* typed on the card, saved in sessionStorage at every change
    dialog,      \* the dialog open, over the row it was opened on
    flights,     \* the three single flights of the page
    told,        \* the last success the rider was told of
    delivered,   \* the cash on the card and the cash on the server when it was delivered
    counted, opened, \* attempts counted for each dialog, and dialogs opened
    moves, left, limited \* moves of others; has a hold ended by an answer, or by the limit

vars == <<parcel, shown, loads, otp, receiver, dialog, flights, told, delivered, counted, opened, moves, left,
          limited>>

Dialogs == 1..MaxDialogs
Flights == {"ops", "ndr", "qc"}
ActiveList == {"OPEN", "ASSIGNED", "IN_TRANSIT", "OUT_FOR_DELIVERY", "EXCEPTION", "RTO_INITIATED",
               "RTO_IN_TRANSIT"}
DoneList == {"COMPLETED", "QC_FAILED"}
Lists == {ActiveList, DoneList}
Row == [status |-> parcel.status, cod |-> parcel.cod]

Init ==
    /\ \E s \in Starts, c \in Cash :
           parcel = [type |-> s.type, status |-> s.status, attempts |-> s.attempts,
                     held |-> NoStatus, reason |-> NoReason, cod |-> c]
    /\ shown = {} /\ loads = [l \in Loads |-> None]
    /\ otp = None /\ receiver = None /\ dialog = None /\ flights = [f \in Flights |-> None]
    /\ told = None /\ delivered = None /\ counted = [d \in Dialogs |-> 0]
    /\ opened = 0 /\ moves = 0 /\ left = FALSE /\ limited = FALSE

-----------------------------------------------------------------------------
(* The list.  It is loaded when the page opens, after every move, when the  *)
(* rider comes back to the page and by the Refresh button; loads overlap.   *)

pageVars == <<otp, receiver, dialog, told>>
serverVars == <<parcel, delivered, counted, opened, moves, left, limited>>

Loading(l) == [loads EXCEPT ![l] = [left |-> Lists, rows |-> {}]]

LoadOpsData(l) ==
    /\ loads[l] = None /\ loads' = Loading(l)
    /\ UNCHANGED <<serverVars, pageVars, shown, flights>>

\* The lists are read in parallel, each at its own time.
ReadList(l, list) ==
    /\ loads[l] # None /\ list \in loads[l].left
    /\ loads' = [loads EXCEPT ![l].left = @ \ {list},
                              ![l].rows = IF parcel.status \in list THEN @ \cup {Row} ELSE @]
    /\ UNCHANGED <<serverVars, pageVars, shown, flights>>

\* A move awaits the load it started.
Released(l) ==
    [f \in Flights |-> IF flights[f] # None /\ flights[f].load = l THEN None ELSE flights[f]]

LoadAnswered(l) ==
    /\ loads[l] # None /\ loads[l].left = {}
    /\ shown' = loads[l].rows /\ loads' = [loads EXCEPT ![l] = None] /\ flights' = Released(l)
    /\ UNCHANGED <<serverVars, pageVars>>

LoadFails(l) ==
    /\ loads[l] # None /\ loads' = [loads EXCEPT ![l] = None] /\ flights' = Released(l)
    /\ UNCHANGED <<serverVars, pageVars, shown>>

-----------------------------------------------------------------------------
(* The cards.                                                              *)

CanMoveTo(row, next) == next \in Allowed[row.status]

\* The filter chips of the tab.
InView(row) == row.status \in ActiveList \cup DoneList

OffersPod(row) == InView(row) /\ CanMoveTo(row, "COMPLETED")
OffersNdr(row) == OffersPod(row) /\ CanMoveTo(row, "EXCEPTION")
OffersOutForDelivery(row) == InView(row) /\ CanMoveTo(row, "OUT_FOR_DELIVERY") /\ row.status \notin RtoLeg
OffersReturn(row, next) == row.status \in RtoLeg /\ CanMoveTo(row, next)
OffersQcFail(row) == parcel.type = "REVERSE" /\ CanMoveTo(row, "QC_FAILED")

TypeOtp(typed) ==
    /\ "pod" \in Jobs /\ dialog = None /\ \E row \in shown : OffersPod(row)
    /\ otp' = typed
    /\ UNCHANGED <<serverVars, shown, loads, receiver, dialog, told, flights>>

TypeReceiver ==
    /\ "return" \in Jobs /\ dialog = None /\ receiver = None
    /\ \E row \in shown : OffersPod(row) \/ OffersReturn(row, "RTO_DELIVERED")
    /\ receiver' = "typed"
    /\ UNCHANGED <<serverVars, shown, loads, otp, dialog, told, flights>>

Send(flight, target, row, intent) ==
    flights' = [flights EXCEPT ![flight] =
        [target |-> target, intent |-> intent, at |-> "sent", done |-> FALSE, load |-> None,
         otp |-> IF target = "COMPLETED" THEN otp ELSE None,
         cod |-> IF target = "COMPLETED" THEN row.cod ELSE None]]

\* The buttons of every card wait for the one move under way (runOpsAction).
Press(target, row) ==
    /\ dialog = None /\ row \in shown /\ flights["ops"] = None
    /\ Send("ops", target, row, None)
    /\ UNCHANGED <<serverVars, pageVars, shown, loads>>

VerifyPodAndDeliver(row) == "pod" \in Jobs /\ OffersPod(row) /\ otp # None /\ Press("COMPLETED", row)

MarkOutForDelivery(row) == "out" \in Jobs /\ OffersOutForDelivery(row) /\ Press("OUT_FOR_DELIVERY", row)

RtoMove(row, target) ==
    /\ "return" \in Jobs /\ OffersReturn(row, target) /\ (target = "RTO_DELIVERED" => receiver # None)
    /\ Press(target, row)

\* Dialogs are modal, but can be closed, and another opened, while their request is under way.
OpenDialog(kind, row) ==
    /\ dialog = None /\ row \in shown /\ flights["ops"] = None /\ opened < MaxDialogs
    /\ opened' = opened + 1
    /\ dialog' = [kind |-> kind, row |-> row, remark |-> FALSE, intent |-> opened + 1]
    /\ UNCHANGED <<parcel, delivered, counted, moves, left, limited, shown, loads, otp, receiver, told, flights>>

OpenNdrDialog(row) == "ndr" \in Jobs /\ OffersNdr(row) /\ OpenDialog("ndr", row)
OpenQcFailDialog(row) == "qc" \in Jobs /\ OffersQcFail(row) /\ OpenDialog("qc", row)

EnterRemark ==
    /\ dialog # None /\ ~dialog.remark /\ dialog' = [dialog EXCEPT !.remark = TRUE]
    /\ UNCHANGED <<serverVars, shown, loads, otp, receiver, told, flights>>

CloseDialog ==
    /\ dialog # None /\ dialog' = None
    /\ UNCHANGED <<serverVars, shown, loads, otp, receiver, told, flights>>

\* Each dialog's button waits for its own request only; the dialog stays open meanwhile.
SubmitDialog(target) ==
    /\ dialog # None /\ dialog.remark /\ flights[dialog.kind] = None
    /\ Send(dialog.kind, target, dialog.row, dialog.intent)
    /\ UNCHANGED <<serverVars, pageVars, shown, loads>>

SubmitNdrException == dialog # None /\ dialog.kind = "ndr" /\ SubmitDialog("EXCEPTION")
SubmitQcFail == dialog # None /\ dialog.kind = "qc" /\ SubmitDialog("QC_FAILED")

-----------------------------------------------------------------------------
(* The server.                                                             *)

RiderReason == "CONSIGNEE_UNAVAILABLE"

\* A variant for mutation testing: the amount the rider saw is not compared.
CodAgreesAlways(body) == TRUE

CodAgrees(body) == body.cod = parcel.cod

\* A variant for mutation testing: a repeated raise is a new one.
NeverReplayed(body) == FALSE

\* The same reason on a parcel on hold is a repeated request: answered, and nothing changes.
Replayed(body) ==
    body.target = "EXCEPTION" /\ parcel.status = "EXCEPTION" /\ parcel.reason = RiderReason

ExitAllowed(target) ==
    LET resume == ResumeStatus(parcel.reason, parcel.type, FALSE, parcel.held)
    IN  \/ target \in {"RTO_INITIATED", "LOST", resume}
        \/ resume = "IN_TRANSIT" /\ target = "OUT_FOR_DELIVERY"

Accepted(body) ==
    /\ ValidTransition(parcel.status, body.target)
    /\ parcel.status = "EXCEPTION" /\ body.target = "EXCEPTION" => parcel.reason = RiderReason
    /\ parcel.status = "EXCEPTION" /\ body.target # "EXCEPTION" => ExitAllowed(body.target)
    /\ body.target = "COMPLETED" => body.otp = "right" /\ CodAgrees(body)
    /\ body.target = "EXCEPTION" => ~RaiseRefused(RiderReason, parcel.type, parcel.status)

Moved(status) == [parcel EXCEPT !.status = status, !.held = NoStatus, !.reason = NoReason]

\* An attempt is counted, and the third one ends the hold at once.
Raised ==
    LET hold == [parcel EXCEPT !.status = "EXCEPTION", !.held = parcel.status, !.reason = RiderReason,
                               !.attempts = @ + 1]
        forced == AttemptLimitOutcome(RiderReason, hold.type, hold.attempts, hold.held)
    IN  IF forced = NoStatus THEN hold
        ELSE [hold EXCEPT !.status = forced, !.held = NoStatus, !.reason = NoReason]

UpdateShipment(body) ==
    CASE Replayed(body) -> UNCHANGED serverVars
      [] ~Replayed(body) /\ body.target = "EXCEPTION" ->
            /\ parcel' = Raised /\ counted' = [counted EXCEPT ![body.intent] = @ + 1]
            /\ limited' = (limited \/ Raised.status # "EXCEPTION")
            /\ UNCHANGED <<delivered, opened, moves, left>>
      [] OTHER ->
            /\ parcel' = Moved(body.target)
            /\ delivered' = IF body.target = "COMPLETED" /\ parcel.status # "COMPLETED"
                            THEN [asked |-> body.cod, due |-> parcel.cod] ELSE delivered
            /\ left' = (left \/ parcel.status = "EXCEPTION")
            /\ UNCHANGED <<counted, opened, moves, limited>>

\* The request reaches the server, or not; its answer reaches the page, or not.
Serve(f, reaches, answers) ==
    /\ flights[f] # None /\ flights[f].at = "sent"
    /\ LET done == reaches /\ Accepted(flights[f])
       IN  /\ flights' = [flights EXCEPT ![f].at = IF done /\ answers THEN "ok" ELSE "failed",
                                         ![f].done = done]
           /\ IF done THEN UpdateShipment(flights[f]) ELSE UNCHANGED serverVars
    /\ UNCHANGED <<pageVars, shown, loads>>

\* Other staff, the merchant and the hourly worker.
OthersMove(status) ==
    /\ moves < MaxMoves /\ moves' = moves + 1
    /\ status \in Allowed[parcel.status] /\ (parcel.status = "EXCEPTION" => ExitAllowed(status))
    /\ parcel' = IF status = "EXCEPTION"
                 THEN [parcel EXCEPT !.status = status, !.held = parcel.status, !.reason = "EWAY_BILL_MISSING"]
                 ELSE Moved(status)
    /\ left' = (left \/ parcel.status = "EXCEPTION")
    /\ UNCHANGED <<delivered, counted, opened, limited, pageVars, shown, loads, flights>>

EditCod ==
    /\ moves < MaxMoves /\ moves' = moves + 1 /\ parcel.status \notin Terminal
    /\ parcel' = [parcel EXCEPT !.cod = 1 - @]
    /\ UNCHANGED <<delivered, counted, opened, left, limited, pageVars, shown, loads, flights>>

-----------------------------------------------------------------------------
(* What the page makes of the answer.                                      *)

\* A move awaits the load it starts before the buttons come back.
Reload(f, l) ==
    /\ loads[l] = None /\ loads' = Loading(l)
    /\ flights' = [flights EXCEPT ![f].at = "loading", ![f].load = l]

ClearDoorstepInputs == otp' = None /\ receiver' = None

MoveDone(l) ==
    /\ flights["ops"] # None /\ flights["ops"].at = "ok"
    /\ told' = flights["ops"].target /\ Reload("ops", l)
    /\ IF flights["ops"].target = "OUT_FOR_DELIVERY" THEN UNCHANGED <<otp, receiver>> ELSE ClearDoorstepInputs
    /\ UNCHANGED <<serverVars, dialog, shown>>

\* Only the delivery and the return ask whether the server has done it all the same.
AsksAgain(target) == target \in {"COMPLETED"} \cup RtoStatuses

MoveFailed ==
    /\ flights["ops"] # None /\ flights["ops"].at = "failed"
    /\ flights' = [flights EXCEPT !["ops"] =
                      IF AsksAgain(@.target) THEN [@ EXCEPT !.at = "asking"] ELSE None]
    /\ UNCHANGED <<serverVars, pageVars, shown, loads>>

\* A variant for mutation testing: any answer counts as yes.
AlreadyInStatusAssumed(target) == TRUE

\* isAlreadyInStatus: no answer counts as no.
AlreadyInStatus(target) == parcel.status = target

AlreadyDone(l) ==
    /\ flights["ops"] # None /\ flights["ops"].at = "asking" /\ AlreadyInStatus(flights["ops"].target)
    /\ told' = flights["ops"].target /\ Reload("ops", l)
    /\ IF flights["ops"].target = "COMPLETED" THEN ClearDoorstepInputs ELSE UNCHANGED <<otp, receiver>>
    /\ UNCHANGED <<serverVars, dialog, shown>>

NotDone ==
    /\ flights["ops"] # None /\ flights["ops"].at = "asking"
    /\ flights' = [flights EXCEPT !["ops"] = None]
    /\ UNCHANGED <<serverVars, pageVars, shown, loads>>

\* The dialog of the request is closed, whichever row it stands over by now.
DialogDone(f, l) ==
    /\ f # "ops" /\ flights[f] # None /\ flights[f].at = "ok"
    /\ dialog' = IF dialog # None /\ dialog.kind = f THEN None ELSE dialog
    /\ told' = flights[f].target /\ Reload(f, l)
    /\ UNCHANGED <<serverVars, otp, receiver, shown>>

DialogFailed(f) ==
    /\ f # "ops" /\ flights[f] # None /\ flights[f].at = "failed"
    /\ flights' = [flights EXCEPT ![f] = None]
    /\ UNCHANGED <<serverVars, pageVars, shown, loads>>

\* The page is loaded again (a phone that lost its signal): what was typed is read back, requests
\* under way are answered to nobody.
ReloadPage ==
    /\ \A f \in Flights : flights[f] # None => flights[f].at # "sent"
    /\ shown # {} /\ shown' = {} /\ loads' = [l \in Loads |-> None]
    /\ flights' = [f \in Flights |-> None] /\ dialog' = None /\ told' = None
    /\ UNCHANGED <<serverVars, otp, receiver>>

-----------------------------------------------------------------------------
Next ==
    \/ \E l \in Loads : LoadOpsData(l) \/ LoadAnswered(l) \/ LoadFails(l) \/ MoveDone(l) \/ AlreadyDone(l)
    \/ \E l \in Loads, list \in Lists : ReadList(l, list)
    \/ \E typed \in {"right", "wrong"} : TypeOtp(typed)
    \/ TypeReceiver \/ EnterRemark \/ CloseDialog \/ SubmitNdrException \/ SubmitQcFail
    \/ \E row \in shown :
           \/ VerifyPodAndDeliver(row) \/ MarkOutForDelivery(row)
           \/ OpenNdrDialog(row) \/ OpenQcFailDialog(row)
           \/ \E target \in RtoStatuses : RtoMove(row, target)
    \/ \E f \in Flights, reaches, answers \in BOOLEAN : Serve(f, reaches, answers)
    \/ \E status \in Statuses : OthersMove(status)
    \/ EditCod \/ MoveFailed \/ NotDone \/ ReloadPage
    \/ \E f \in Flights : DialogFailed(f) \/ \E l \in Loads : DialogDone(f, l)

Spec == Init /\ [][Next]_vars

-----------------------------------------------------------------------------
(* Properties.                                                             *)

TypeOK ==
    /\ parcel.status \in Statuses /\ parcel.cod \in Cash /\ (parcel.status = "EXCEPTION" <=> parcel.reason # NoReason)
    /\ \A row \in shown : row.status \in ActiveList \cup DoneList /\ row.cod \in Cash
    /\ otp \in {None, "right", "wrong"} /\ receiver \in {None, "typed"}
    /\ \A f \in Flights : flights[f] # None /\ flights[f].load # None => loads[flights[f].load] # None
    /\ opened \in 0..MaxDialogs /\ (dialog # None => dialog.row.status \in ActiveList)

\* E-10 and the COD check of the server: the rider hands over the parcel for the cash the card
\* showed, although the merchant may have changed it since the list was loaded.
CollectsAsShown == delivered # None => delivered.asked = delivered.due

\* A rider is told "Delivered" or "returned" only of a parcel that is, although answers get lost
\* and the status is asked for again; these are final.
ToldWhatIs == told \in {"COMPLETED", "RTO_DELIVERED"} => parcel.status = told

\* D-05: pressing the NDR dialog's button again, its answer lost, counts no second attempt while the
\* parcel is on hold.
NdrCountedOnce == ~left /\ ~limited => \A d \in Dialogs : counted[d] <= 1

\* What services/shipment.py says of it: "so the attempt counter can't jump by two".
CounterNeverJumpsByTwo == \A d \in Dialogs : counted[d] <= 1

\* E-10: what the rider typed is dropped only when the parcel has made the move it was typed for.
KeepsTyping ==
    (otp # None /\ otp' = None) \/ (receiver # None /\ receiver' = None) =>
        flights["ops"] # None /\ (flights["ops"].done \/ parcel.status = flights["ops"].target)

\* The cash on the card, and the word given to the rider, are the server's.
ActedAsShown == CollectsAsShown /\ ToldWhatIs

\* One refusal at the door is one attempt.
OncePerIntent == NdrCountedOnce

=============================================================================
