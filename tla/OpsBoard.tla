------------------------------ MODULE OpsBoard ------------------------------
(***************************************************************************)
(* The board of the operations page (ops/page.tsx, ops-field.ts): its tiles, *)
(* tabs, filters and searches over the lists of one read, what the card of a *)
(* pickup and of a parcel offers, the message to the consignee prepared from *)
(* a card (whatsapp-notify.ts) and the Not Picked dialog, while the pickup   *)
(* and the parcel on it are moved by anybody.  What the rider does at the    *)
(* door is in Doorstep and PickupRun.                                        *)
(***************************************************************************)
EXTENDS Journey, FiniteSets

CONSTANTS None,
    Kinds,            \* [type, cash, phone]: the parcels there may be
    SeesOtp,          \* the server shows this user the seller's pickup OTP
    Uses,             \* what of the board is used: tiles of Tiles, "filters", "messages", "not picked"
    MaxMoves, MaxReads, MaxTaps

VARIABLES
    kind, parcel, pickup,        \* the server's
    reading, reads, lists,       \* the read on its way and the lists of the last one
    tab, chip, filter, search,   \* what is chosen of the board
    tile, message, selected,     \* the tile pressed last, the message prepared, the row to be measured
    dialog, flight,              \* the Not Picked dialog and its request
    moves, taps

vars == <<kind, parcel, pickup, reading, reads, lists, tab, chip, filter, search, tile, message, selected, dialog, flight, moves, taps>>
serverVars == <<kind, parcel, pickup, moves>>
readVars == <<reading, reads, lists>>
boardVars == <<tab, chip, filter, search, tile, message, selected, taps>>
dialogVars == <<dialog, flight>>

Tabs == {"pickups", "deliveries", "sorter", "cash"}
Tiles == {"pickups", "out for delivery", "exceptions", "cash"}
Chips == {"ACTIVE", "IN_TRANSIT", "OUT_FOR_DELIVERY", "EXCEPTION", "RTO", "COMPLETED", "ALL"}
ToPickUp == {"SCHEDULED", "OUT_FOR_PICKUP"}
PickupStatuses == ToPickUp \cup {"PICKED", "NOT_PICKED", "CANCELED"}
Filters == PickupStatuses \cup {"ACTIVE", "ALL"}
Searches == {"", "its number", "another"}

Nothing == [pickups |-> {}, rows |-> {}]

Init ==
    /\ kind \in Kinds
    /\ parcel = [status |-> "ASSIGNED", held |-> NoStatus, pur |-> "open", remit |-> "NOT_APPLICABLE", otp |-> None]
    /\ pickup = [status |-> "SCHEDULED", picked |-> None, reason |-> None]
    /\ reading = None /\ reads = 0 /\ lists = None
    /\ tab = "pickups" /\ chip = "ACTIVE" /\ filter = "ACTIVE" /\ search = [t \in Tabs |-> ""]
    /\ tile = None /\ message = None /\ selected = FALSE /\ dialog = None /\ flight = None /\ moves = 0 /\ taps = 0

-----------------------------------------------------------------------------
(* The server.                                                               *)

Changed(row, pur) ==
    /\ moves < MaxMoves /\ moves' = moves + 1 /\ parcel' = row /\ pickup' = pur
    /\ UNCHANGED <<kind, readVars, boardVars, dialogVars>>

EnsureDeliveryOtpAgain(row) == IF row.status \in OnTheWay THEN [row EXCEPT !.otp = moves + 1] ELSE row

\* A parcel keeps the OTP it was given first.
EnsureDeliveryOtp(row) == IF row.status \in OnTheWay /\ row.otp = None THEN [row EXCEPT !.otp = moves + 1] ELSE row

\* The dispatch gives its parcels one, on hold or not.
DispatchOtp(row) == IF row.otp = None THEN [row EXCEPT !.otp = moves + 1] ELSE row

MarkOutForPickup == pickup.status = "SCHEDULED" /\ Changed(parcel, [pickup EXCEPT !.status = "OUT_FOR_PICKUP"])

DispatchPickup ==
    /\ pickup.status \in ToPickUp /\ parcel.pur = "open"
    /\ \E by \in {"otp", "override"} :
           Changed(DispatchOtp(Dispatched(parcel)), [pickup EXCEPT !.status = "PICKED", !.picked = by])

Freed == IF parcel.pur = "open" THEN Unlinked(parcel) ELSE parcel
CancelPickup == pickup.status \in ToPickUp /\ Changed(Freed, [pickup EXCEPT !.status = "CANCELED"])

\* A pickup that is still scheduled goes when its last parcel is cancelled or refused.
SyncManifest(row) ==
    IF parcel.pur = "open" /\ row.pur = "none" /\ pickup.status = "SCHEDULED" THEN [pickup EXCEPT !.status = "CANCELED"] ELSE pickup

ReverseCodFee(row) ==
    IF row.status = "RTO_INITIATED" /\ kind.cash = "cod" THEN [row EXCEPT !.remit = "FAILED_RTO"] ELSE row

MoveParcel(to) ==
    /\ MoveAllowed(parcel, to)
    /\ LET row == EnsureDeliveryOtp(ReverseCodFee(Moved(parcel, to))) IN Changed(row, SyncManifest(row))

RemitCod ==
    /\ parcel.status = "COMPLETED" /\ kind.cash = "cod" /\ parcel.remit # "REMITTED"
    /\ Changed([parcel EXCEPT !.remit = "REMITTED"], pickup)

-----------------------------------------------------------------------------
(* One read of the page is three requests at a time.                         *)

Active == {"OPEN", "ASSIGNED", "IN_TRANSIT", "OUT_FOR_DELIVERY", "EXCEPTION"} \cup RtoLeg
Done == {"COMPLETED", "QC_FAILED"}

LoadOpsData ==
    /\ reading = None /\ reads < MaxReads /\ reads' = reads + 1
    /\ reading' = [left |-> {"pickups", "active", "done"}, pickups |-> {}, rows |-> {}]
    /\ UNCHANGED <<serverVars, boardVars, dialogVars, lists>>

\* A parcel on hold is counted as picked, whether or not it has been.
CountedAsPicked == OnTheWay \cup RtoLeg \cup {"EXCEPTION", "COMPLETED", "RTO_DELIVERED", "LOST"}

PurCard ==
    [status |-> pickup.status, picked |-> pickup.picked, reason |-> pickup.reason,
     expected |-> Cardinality({p \in {parcel} : p.pur # "none"}),
     counted |-> Cardinality({p \in {parcel} : p.pur # "none" /\ p.status \in CountedAsPicked})]
Answered(list) == [reading EXCEPT !.left = @ \ {list}]

ReadManifests ==
    /\ reading # None /\ "pickups" \in reading.left
    /\ reading' = [Answered("pickups") EXCEPT !.pickups = {PurCard}]
    /\ UNCHANGED <<serverVars, boardVars, dialogVars, reads, lists>>

ReadShipments(list, statuses) ==
    /\ reading # None /\ list \in reading.left
    /\ reading' = [Answered(list) EXCEPT !.rows = IF parcel.status \in statuses THEN @ \cup {parcel} ELSE @]
    /\ UNCHANGED <<serverVars, boardVars, dialogVars, reads, lists>>

LoadAnswered ==
    /\ reading # None /\ reading.left = {} /\ reading' = None
    /\ lists' = [pickups |-> reading.pickups, rows |-> reading.rows] /\ UNCHANGED <<serverVars, boardVars, dialogVars, reads>>

\* What was read before stays.
LoadFailed == reading # None /\ reading' = None /\ UNCHANGED <<serverVars, boardVars, dialogVars, reads, lists>>

Shown == IF lists = None THEN Nothing ELSE lists

-----------------------------------------------------------------------------
(* The lists of the tabs and the numbers of the tiles.                       *)

MatchesSearch(t) == search[t] # "another"

MatchesPickupFilter(status, f) == f = "ALL" \/ (f = "ACTIVE" /\ status \in ToPickUp) \/ status = f
FilteredManifests == {m \in Shown.pickups : MatchesPickupFilter(m.status, filter) /\ MatchesSearch("pickups")}

IsForwardRunsheet(row) == row.status \in OnTheWay \cup RtoLeg
IsActiveRunsheet(row) ==
    IsForwardRunsheet(row) \/ (kind.type = "REVERSE" /\ row.status \in {"OPEN", "ASSIGNED"})

MatchesDeliveryFilter(row, c) ==
    /\ row.status \in Active \cup Done
    /\ \/ c = "ALL" \/ row.status = c
       \/ c = "ACTIVE" /\ IsActiveRunsheet(row)
       \/ c = "RTO" /\ row.status \in RtoLeg
ActiveDeliveryShipments == {row \in Shown.rows : MatchesDeliveryFilter(row, chip) /\ MatchesSearch("deliveries")}

AuditableShipments == {row \in Shown.rows : row.status # "CANCELLED" /\ MatchesSearch("sorter")}
DoorCollectionShipments == {row \in Shown.rows : kind.cash = "cod" /\ row.status # "CANCELLED"}

\* What the rider collects: the cash on delivery and freight still to pay.
DoorCollectible == kind.cash \in {"cod", "to pay"}
CashPendingToTheEnd(row) == DoorCollectible /\ row.status \in {"IN_TRANSIT", "OUT_FOR_DELIVERY", "EXCEPTION", "COMPLETED"}
IsDoorCashPending(row) == DoorCollectible /\ row.status \in {"IN_TRANSIT", "OUT_FOR_DELIVERY", "EXCEPTION"}

ScheduledPickups == {m \in Shown.pickups : m.status \in ToPickUp}
OutForDelivery == {row \in Shown.rows : row.status = "OUT_FOR_DELIVERY"}
ActiveExceptions == {row \in Shown.rows : row.status = "EXCEPTION"}
PendingDoorCollections == {row \in Shown.rows : IsDoorCashPending(row)}

CashCollectionBadge(row) ==
    CASE row.remit = "REMITTED" -> "Remitted to seller"
      [] row.remit = "FAILED_RTO" -> "Not collected (RTO)"
      [] row.remit = "NOT_APPLICABLE" /\ row.status = "COMPLETED" -> "Delivered, cash with field team"
      [] OTHER -> "To collect at door"

Tap(use) == use \in Uses /\ taps < MaxTaps /\ dialog = None /\ taps' = taps + 1
Chosen == UNCHANGED <<serverVars, readVars, dialogVars>>

PressTile(t) ==
    /\ Tap(t) /\ tile' = t
    /\ tab' = CASE t = "pickups" -> "pickups" [] t = "cash" -> "cash" [] OTHER -> "deliveries"
    /\ chip' = IF t = "exceptions" THEN "EXCEPTION" ELSE chip
    /\ UNCHANGED <<filter, search, message, selected>> /\ Chosen

PickTab(t) == Tap("filters") /\ t # tab /\ tab' = t /\ tile' = None /\ UNCHANGED <<chip, filter, search, message, selected>> /\ Chosen

SetPickupFilter(f) ==
    Tap("filters") /\ tab = "pickups" /\ f # filter /\ filter' = f /\ tile' = None /\ UNCHANGED <<tab, chip, search, message, selected>> /\ Chosen
PressChip(c) ==
    Tap("filters") /\ tab = "deliveries" /\ c # chip /\ chip' = c /\ tile' = None /\ UNCHANGED <<tab, filter, search, message, selected>> /\ Chosen
Search(text) ==
    /\ Tap("filters") /\ tab # "cash" /\ text # search[tab] /\ search' = [search EXCEPT ![tab] = text] /\ tile' = None
    /\ UNCHANGED <<tab, chip, filter, message, selected>> /\ Chosen

-----------------------------------------------------------------------------
(* The card of a pickup.                                                     *)

\* Every return of the model is to be checked at the door.
QcReturns(m) == IF m.expected > 0 /\ kind.type = "REVERSE" THEN Shown.rows ELSE {}

PickupCard(m) ==
    [counts |-> [expected |-> m.expected, picked |-> m.counted], pieces |-> m.status \in ToPickUp /\ m.expected > 0,
     qc |-> IF m.status \in ToPickUp THEN QcReturns(m) ELSE {},
     failure |-> m.reason,
     otp |-> IF m.status \notin ToPickUp THEN None ELSE IF SeesOtp THEN "shown" ELSE "ask the seller",
     verified |-> IF m.status = "PICKED" THEN m.picked ELSE None,
     offers |-> {"run sheet"} \cup (IF m.status = "SCHEDULED" THEN {"out for pickup"} ELSE {})
                \cup (IF m.status \in ToPickUp THEN {"confirm", "checklist", "not picked"} ELSE {})]

OpenNotPickedDialog(m) ==
    /\ tab = "pickups" /\ m \in FilteredManifests /\ "not picked" \in PickupCard(m).offers /\ Tap("not picked")
    /\ dialog' = [reason |-> "closed"]
    /\ UNCHANGED <<serverVars, readVars, tab, chip, filter, search, tile, message, selected, flight>>

\* One of the reasons offered, or one typed; the field may be emptied too.
GiveReason(reason) ==
    /\ dialog # None /\ reason # dialog.reason /\ dialog' = [reason |-> reason]
    /\ UNCHANGED <<serverVars, readVars, boardVars, flight>>

CloseNotPicked == dialog # None /\ dialog' = None /\ UNCHANGED <<serverVars, readVars, boardVars, flight>>

SubmitNotPicked ==
    /\ dialog # None /\ dialog.reason # "" /\ flight = None
    /\ flight' = [reason |-> dialog.reason, at |-> "sent"]
    /\ UNCHANGED <<serverVars, readVars, boardVars, dialog>>

ServeNotPicked ==
    /\ flight # None /\ flight.at = "sent"
    /\ IF pickup.status \in ToPickUp
       THEN /\ pickup' = [pickup EXCEPT !.status = "NOT_PICKED", !.reason = flight.reason] /\ parcel' = Freed
            /\ flight' = [flight EXCEPT !.at = "done"]
       ELSE UNCHANGED <<parcel, pickup>> /\ flight' = [flight EXCEPT !.at = "refused"]
    /\ UNCHANGED <<kind, moves, readVars, boardVars, dialog>>

\* A success closes the dialog that is open and reads the lists again; the next submit waits for them.
NotPickedDone ==
    /\ flight # None /\ flight.at = "done" /\ reading = None /\ dialog' = None /\ flight' = [flight EXCEPT !.at = "reading"]
    /\ reading' = [left |-> {"pickups", "active", "done"}, pickups |-> {}, rows |-> {}]
    /\ UNCHANGED <<serverVars, boardVars, reads, lists>>

ListsReadAgain == flight # None /\ flight.at = "reading" /\ reading = None /\ flight' = None /\ UNCHANGED <<serverVars, readVars, boardVars, dialog>>

\* The answer is a refusal, or it is lost.
NotPickedFailed ==
    /\ flight # None /\ flight.at \in {"refused", "done"} /\ flight' = None
    /\ UNCHANGED <<serverVars, readVars, boardVars, dialog>>

-----------------------------------------------------------------------------
(* The card of a parcel and the message to its consignee.                    *)

CanMoveTo(row, next) == next \in Allowed[row.status] /\ ~(row.status = "ASSIGNED" /\ row.pur # "none" /\ next = "IN_TRANSIT")

Offers(row) ==
    (IF CanMoveTo(row, "OUT_FOR_DELIVERY") /\ row.status \notin RtoLeg THEN {"out for delivery"} ELSE {})
    \cup (IF CanMoveTo(row, "COMPLETED") THEN {"delivered"} \cup (IF CanMoveTo(row, "EXCEPTION") THEN {"ndr"} ELSE {}) ELSE {})
    \cup (IF kind.type = "REVERSE" /\ CanMoveTo(row, "QC_FAILED") THEN {"fail qc"} ELSE {})
    \cup (IF row.status \in RtoLeg THEN {to \in {"RTO_IN_TRANSIT", "RTO_DELIVERED"} : CanMoveTo(row, to)} ELSE {})

StageOnTheWay(status) ==
    CASE status \in PrePickup -> "BOOKED" [] status \in OnTheWay -> "OUT_FOR_DELIVERY"
      [] status = "COMPLETED" -> "DELIVERED" [] status = "EXCEPTION" -> "EXCEPTION" [] OTHER -> None

\* No message for a return, or for a parcel that is lost or closed.
ConsigneeStageForStatus(status) ==
    CASE status \in PrePickup -> "BOOKED" [] status \in OnTheWay -> status
      [] status = "COMPLETED" -> "DELIVERED" [] status = "EXCEPTION" -> "EXCEPTION" [] OTHER -> None

\* Ten digits, eleven with a leading 0, or any longer number as it stands.
NormalizePhone(phone) == IF phone \in {"ten digits", "0 and ten digits"} THEN "91 and ten digits" ELSE phone
HasWhatsAppPhone(phone) == NormalizePhone(phone) \in {"91 and ten digits", "longer"}

BuildMessage(row) ==
    [stage |-> ConsigneeStageForStatus(row.status),
     otp |-> IF ConsigneeStageForStatus(row.status) = "OUT_FOR_DELIVERY" /\ row.status = "OUT_FOR_DELIVERY" THEN row.otp ELSE None]

DeliveryCard(row) ==
    [collect |-> DoorCollectible, otp |-> row.otp, offers |-> Offers(row),
     callout |-> kind.type = "REVERSE",
     banner |-> IF row.status \in {"QC_FAILED", "COMPLETED", "EXCEPTION"} THEN row.status ELSE None,
     whatsapp |-> IF ConsigneeStageForStatus(row.status) = None THEN "none"
                  ELSE IF HasWhatsAppPhone(kind.phone) THEN "link" ELSE "no mobile number"]

\* The message is sent from WhatsApp or the mail program, whenever.
NotifyConsignee(row, by) ==
    /\ Tap("messages") /\ tab = "deliveries" /\ row \in ActiveDeliveryShipments
    /\ IF by = "whatsapp" THEN DeliveryCard(row).whatsapp = "link" ELSE DeliveryCard(row).whatsapp # "none"
    /\ message' = [by |-> by, text |-> BuildMessage(row), row |-> row]
    /\ UNCHANGED <<tab, chip, filter, search, tile, selected>> /\ Chosen

\* The rows of the hub's tab; the first 20 of them are shown.
SorterRow(row) == [status |-> row.status, chosen |-> selected]
SelectAudit(row) ==
    /\ Tap("filters") /\ tab = "sorter" /\ row \in AuditableShipments /\ ~SorterRow(row).chosen /\ selected' = TRUE
    /\ UNCHANGED <<tab, chip, filter, search, tile, message>> /\ Chosen

CashRow(row) == [badge |-> CashCollectionBadge(row), remitted |-> row.remit = "REMITTED"]

-----------------------------------------------------------------------------

Next ==
    \/ MarkOutForPickup \/ DispatchPickup \/ CancelPickup \/ RemitCod
    \/ \E to \in Statuses : MoveParcel(to)
    \/ LoadOpsData \/ ReadManifests \/ ReadShipments("active", Active) \/ ReadShipments("done", Done) \/ LoadAnswered \/ LoadFailed
    \/ \E t \in Tiles : PressTile(t)
    \/ \E t \in Tabs : PickTab(t)
    \/ \E f \in Filters : SetPickupFilter(f)
    \/ \E c \in Chips : PressChip(c)
    \/ \E text \in Searches : Search(text)
    \/ \E m \in Shown.pickups : OpenNotPickedDialog(m)
    \/ \E reason \in {"closed", "not ready", ""} : GiveReason(reason)
    \/ CloseNotPicked \/ SubmitNotPicked \/ ServeNotPicked \/ NotPickedDone \/ ListsReadAgain \/ NotPickedFailed
    \/ \E row \in Shown.rows, by \in {"whatsapp", "mail"} : NotifyConsignee(row, by)
    \/ \E row \in Shown.rows : SelectAudit(row)

Spec == Init /\ [][Next]_vars

TypeOK ==
    /\ kind \in Kinds /\ parcel.status \in Statuses /\ pickup.status \in PickupStatuses /\ reads \in 0 .. MaxReads
    /\ tab \in Tabs /\ chip \in Chips /\ filter \in Filters /\ search \in [Tabs -> Searches]
    /\ selected \in BOOLEAN /\ moves \in 0 .. MaxMoves /\ taps \in 0 .. MaxTaps

\* A message tells the consignee to expect the rider only of a parcel that was out for delivery on the card, goes by WhatsApp only
\* to a full number, and the OTP in it opens the door however late it is read: no later move gives the parcel another one
\* (whatsapp-notify.ts:21-33, ops/page.tsx:1714-1747, shipment.py:1791-1803).
MessageFits ==
    message # None =>
        /\ message.text.stage = "OUT_FOR_DELIVERY" <=> message.row.status = "OUT_FOR_DELIVERY"
        /\ message.text.otp # None => message.text.otp = parcel.otp /\ message.row.status = "OUT_FOR_DELIVERY"
        /\ message.by = "whatsapp" => kind.phone # "short"

\* What a tile counts is listed under it while nothing is searched for, unless a filter chosen before leaves it out; the
\* tile of the exceptions sets the filter itself (ops/page.tsx:541-570, 1142-1210).
TilesFit ==
    /\ tile = "exceptions" /\ search["deliveries"] = "" => ActiveDeliveryShipments = ActiveExceptions
    /\ tile = "out for delivery" /\ search["deliveries"] = "" /\ chip \in {"ACTIVE", "OUT_FOR_DELIVERY", "ALL"} => OutForDelivery \subseteq ActiveDeliveryShipments
    /\ tile = "pickups" /\ search["pickups"] = "" /\ filter \in {"ACTIVE", "ALL"} => ScheduledPickups \subseteq FilteredManifests

\* Cash counted as still to be collected is listed so in the cash tab, but for a return on hold or found again, and
\* for freight to pay that carries no cash on delivery (ops-field.ts:154-194).
CashFits ==
    \A row \in PendingDoorCollections :
        \/ kind.cash = "to pay" \/ row.remit = "FAILED_RTO"
        \/ row \in DoorCollectionShipments /\ CashRow(row).badge = "To collect at door"

\* A parcel the rider is offered anything on is on the run sheet of the day or among the exceptions (ops-field.ts:57-133).
NoWorkHidden ==
    \A row \in Shown.rows : DeliveryCard(row).offers # {} => MatchesDeliveryFilter(row, "ACTIVE") \/ MatchesDeliveryFilter(row, "EXCEPTION")

\* A pickup tells why it was not picked only when it was not, and how its OTP was checked only when it was picked.
PickupsFit ==
    \A m \in Shown.pickups :
        /\ PickupCard(m).failure # None => "confirm" \notin PickupCard(m).offers /\ PickupCard(m).verified = None
        /\ PickupCard(m).verified # None => PickupCard(m).otp = None /\ PickupCard(m).qc = {}

ActedAsShown == MessageFits /\ TilesFit /\ CashFits /\ NoWorkHidden /\ PickupsFit

=============================================================================
