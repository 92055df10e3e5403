------------------------------ MODULE Tracking ------------------------------
(***************************************************************************)
(* The journey of a parcel as two pages tell it: the buyer's tracking page   *)
(* (track/[tracking_id]) and the stepper of the seller's (shipments/[id]).   *)
(* Both read a status and a log that are moved meanwhile: the buyer's page   *)
(* the one after the other, the seller's in two requests at a time.          *)
(***************************************************************************)
EXTENDS Journey, Sequences, SequencesExt

CONSTANTS None,
    Reader,                 \* who reads: "buyer", "staff" or "seller"
    MaxMoves, MaxReads

VARIABLES
    row, log, left,         \* the parcel: its row, its log, and whether it has left the seller
    box, asked, reads,      \* the number typed and the one looked for
    going, page             \* the read on its way and the page as shown

vars == <<row, log, left, box, asked, reads, going, page>>
parcelVars == <<row, log, left>>
pageVars == <<box, asked, reads, going, page>>

Awb == "awb"
Loosely == "awb with spaces in lower case"
Unknown == "unknown"

Row(status, held, pur) == [status |-> status, held |-> held, pur |-> pur]
Created == [to |-> None, shown |-> TRUE, time |-> 1]

NothingRead == [row |-> None, acts |-> None, left |-> None]
Page(at, read) == [at |-> at, read |-> read]
Loading == Page("loading", NothingRead)

Init ==
    /\ row = Row("OPEN", NoStatus, "none") /\ log = <<Created>> /\ left = FALSE
    /\ box = None /\ asked = None /\ reads = 0 /\ going = None /\ page = None

-----------------------------------------------------------------------------
(* The journey. A row and its log are written together.                      *)

\* A move by staff is shown to the seller if they tick so.
Ticks == IF Reader = "seller" THEN BOOLEAN ELSE {TRUE}

MovedTo(new, to, shown) ==
    /\ Len(log) <= MaxMoves
    /\ row' = new /\ log' = Append(log, [to |-> to, shown |-> shown \/ to = "COMPLETED", time |-> Len(log) + 1])
    /\ left' = (left \/ (new.status \in OnTheWay /\ row.status # "EXCEPTION"))
    /\ UNCHANGED pageVars

Link == row.status = "OPEN" /\ row.pur = "none" /\ MovedTo(Linked(row), "ASSIGNED", FALSE)
Release == row.pur = "open" /\ MovedTo(Unlinked(row), Unlinked(row).status, FALSE)
LeaveBehind == row.pur = "open" /\ MovedTo(LeftBehind(row), "OPEN", FALSE)

\* The log says "In transit" of a parcel on hold too.
Dispatch == row.pur = "open" /\ MovedTo(Dispatched(row), "IN_TRANSIT", TRUE)

StatusMoves(to, shown) == MoveAllowed(row, to) /\ MovedTo(Moved(row, to), to, shown)

-----------------------------------------------------------------------------
(* The stage of a status: how many steps of the stepper it has reached.        *)

ReadyToShip == 1
PickupScheduled == 2
InTransit == 3
OutForDelivery == 4

AtStage(stages) == [s \in Statuses |-> CHOOSE n \in 0 .. 4 : s \in stages[n + 1]]
LostAtTheStart ==
    AtStage(<<{"DRAFT", "CANCELLED", "QC_FAILED", "REJECTED_AT_PICKUP", "LOST"}, {"OPEN"}, {"ASSIGNED"},
              {"IN_TRANSIT", "EXCEPTION"} \cup RtoStatuses, {"OUT_FOR_DELIVERY", "COMPLETED"}>>)
ShipmentStages ==
    AtStage(<<{"DRAFT", "CANCELLED", "QC_FAILED", "REJECTED_AT_PICKUP"}, {"OPEN"}, {"ASSIGNED"},
              {"IN_TRANSIT", "EXCEPTION", "LOST"} \cup RtoStatuses, {"OUT_FOR_DELIVERY", "COMPLETED"}>>)
ShipmentStage == ShipmentStages

IsClosed(status) == status \in Terminal \cup RtoStatuses \cup {"LOST"}
IsStepperStageReached(status, step) == ShipmentStage[status] >= step
IsShipmentPickedUp(status) == IsStepperStageReached(status, InTransit)
IsRtoTrack(status) == status \in RtoStatuses

ShipmentStatusLabel(status) == IF status = "COMPLETED" THEN "Delivered" ELSE status
ClosingStepLabel(status) == IF IsClosed(status) THEN ShipmentStatusLabel(status) ELSE "Delivered"

-----------------------------------------------------------------------------
(* The buyer's page. Only milestones with wording of their own are told.       *)

PublicStatusLabel(status) ==
    CASE status \in {"DRAFT", "OPEN"} -> "Order placed"
      [] status = "ASSIGNED" -> "Pickup scheduled"
      [] status = "COMPLETED" -> "Delivered"
      [] status = "EXCEPTION" -> "Shipment on hold"
      [] status \in RtoLeg -> "Returning to seller"
      [] status = "RTO_DELIVERED" -> "Returned to seller"
      [] status \in {"QC_FAILED", "REJECTED_AT_PICKUP"} -> "Pickup not completed"
      [] OTHER -> status

Step(label, reached, alert) == [label |-> label, reached |-> reached, alert |-> alert]
PublicTrackingSteps(status) ==
    <<Step("Booked", TRUE, FALSE), Step("Picked up", IsShipmentPickedUp(status), FALSE), Step("In transit", IsShipmentPickedUp(status), FALSE),
      Step("Out for delivery", IsStepperStageReached(status, OutForDelivery), FALSE),
      Step(IF IsClosed(status) THEN PublicStatusLabel(status) ELSE ClosingStepLabel(status), IsClosed(status), IsClosed(status) /\ status # "COMPLETED")>>

ContiguousProgress(steps) ==
    CHOOSE n \in 1 .. Len(steps) : (\A i \in 1 .. n : steps[i].reached) /\ (n = Len(steps) \/ ~steps[n + 1].reached)

PublicTitles(to) ==
    CASE to = None \/ to = "OPEN" -> "Order placed"
      [] to = "RTO_INITIATED" -> "Return to seller started"
      [] to = "RTO_IN_TRANSIT" -> "Return in transit"
      [] OTHER -> PublicStatusLabel(to)

\* Two alike in a row are told once.
PublicTimeline(acts) ==
    FoldLeft(LAMBDA told, act : IF told # <<>> /\ Last(told) = PublicTitles(act.to) THEN told ELSE Append(told, PublicTitles(act.to)),
             <<>>, acts)

EventStyling(title) ==
    CASE title = "Returned to seller" -> "alert"
      [] title = "Delivered" -> "tick"
      [] title \in {"IN_TRANSIT", "Return in transit", "OUT_FOR_DELIVERY"} -> "truck"
      [] title \in {"Pickup scheduled", "Pickup not completed"} -> "pin"
      [] title = "CANCELLED" -> "alert"
      [] OTHER -> "package"

StepBubble(step) == IF ~step.reached THEN "grey" ELSE IF step.alert THEN "red" ELSE "brand"
TrackingStepper(steps) == [filled |-> ContiguousProgress(steps), bubbles |-> [i \in DOMAIN steps |-> StepBubble(steps[i])]]

TrackingTimeline(data) ==
    LET told == PublicTimeline(data.acts)
    IN  [badge |-> PublicStatusLabel(data.row.status), told |-> told, icons |-> [i \in DOMAIN told |-> EventStyling(told[i])],
         stepper |-> TrackingStepper(PublicTrackingSteps(data.row.status))]

NormalizeTrackingId(typed) == IF typed = Loosely THEN Awb ELSE typed

TypeTrackingId(id) ==
    /\ Reader = "buyer" /\ box # id /\ box' = id /\ UNCHANGED <<parcelVars, asked, reads, going, page>>

\* Another number is another page, with that number in its box.
LookFor(id) ==
    /\ Reader = "buyer" /\ id # None /\ id # asked /\ reads < MaxReads
    /\ asked' = id /\ box' = id /\ page' = Loading /\ going' = NothingRead /\ reads' = reads + 1
    /\ UNCHANGED parcelVars

\* From the page that only asks for a number, and from the box above a parcel.
HandleSubmit == asked = None /\ LookFor(NormalizeTrackingId(box))
HandleNewSearch == asked # None /\ LookFor(NormalizeTrackingId(box))

TryAgain ==
    /\ Reader = "buyer" /\ page # None /\ page.at = "unavailable" /\ reads < MaxReads
    /\ page' = Loading /\ going' = NothingRead /\ reads' = reads + 1 /\ UNCHANGED <<parcelVars, box, asked>>

HistoryFirst == TRUE
RowFirst == going.row # None
ReadInOrder == Reader = "buyer" => asked = Awb /\ RowFirst

ReadShipment ==
    /\ going # None /\ going.row = None /\ (Reader = "buyer" => asked = Awb)
    /\ going' = [going EXCEPT !.row = row, !.left = left] /\ UNCHANGED <<parcelVars, box, asked, reads, page>>

ShownToReader(acts) == IF Reader = "seller" THEN SelectSeq(acts, LAMBDA act : act.shown) ELSE acts

ReadHistory ==
    /\ going # None /\ going.acts = None /\ ReadInOrder
    /\ going' = [going EXCEPT !.acts = ShownToReader(log)] /\ UNCHANGED <<parcelVars, box, asked, reads, page>>

ReadAnswered ==
    /\ going # None /\ going.row # None /\ going.acts # None
    /\ page' = Page("shown", going) /\ going' = None /\ UNCHANGED <<parcelVars, box, asked, reads>>

\* Only a number nobody knows is "not found"; a read that fails may be tried again.
ClassifyTrackingError ==
    /\ Reader = "buyer" /\ going # None /\ going' = None
    /\ \E at \in {"unavailable"} \cup (IF asked = Unknown THEN {"not found"} ELSE {}) : page' = Page(at, NothingRead)
    /\ UNCHANGED <<parcelVars, box, asked, reads>>

-----------------------------------------------------------------------------
(* The seller's page. It is opened and reloaded; a failed reload leaves it.     *)

FetchDetails ==
    /\ Reader # "buyer" /\ reads < MaxReads /\ going = None
    /\ going' = NothingRead /\ reads' = reads + 1
    /\ page' = (IF page = None THEN Loading ELSE page) /\ UNCHANGED <<parcelVars, box, asked>>

FetchFailed == Reader # "buyer" /\ going # None /\ going' = None /\ UNCHANGED <<parcelVars, box, asked, reads, page>>

LatestTime(acts, status) ==
    LET at == {i \in DOMAIN acts : acts[i].to = status}
    IN  IF at = {} THEN None ELSE acts[CHOOSE i \in at : \A j \in at : i >= j].time

\* The first time the parcel came to a status, as far as the log shows it.
FirstTime(acts, status) ==
    LET at == {i \in DOMAIN acts : acts[i].to = status}
    IN  IF at = {} THEN None ELSE acts[CHOOSE i \in at : \A j \in at : i <= j].time

Stage(id, completed, time) == [id |-> id, completed |-> completed, time |-> time]
OrElse(x, y) == IF x = None THEN y ELSE x

BuildTrackingStages(r, acts) ==
    LET status == r.status
        ready == IsStepperStageReached(status, ReadyToShip)
    IN  <<Stage("manifested", TRUE, 1),
          Stage("ready", ready, IF ready THEN OrElse(FirstTime(acts, "OPEN"), 1) ELSE None),
          Stage("pickup_scheduled", r.pur # "none" \/ IsStepperStageReached(status, PickupScheduled), FirstTime(acts, "ASSIGNED")),
          Stage("in_transit", IsShipmentPickedUp(status), FirstTime(acts, "IN_TRANSIT")),
          Stage("out_for_delivery", IsStepperStageReached(status, OutForDelivery), FirstTime(acts, "OUT_FOR_DELIVERY")),
          Stage(IF IsRtoTrack(status) THEN "rto" ELSE "delivered", IsClosed(status),
                IF ~IsClosed(status) THEN None ELSE OrElse(FirstTime(acts, status), IF acts = <<>> THEN None ELSE Last(acts).time))>>

\* The line from a step to the next is coloured when that next one is reached.
StepperLines(stages) == [i \in 1 .. Len(stages) - 1 |-> stages[i + 1].completed]

-----------------------------------------------------------------------------

Next ==
    \/ Link \/ Release \/ LeaveBehind \/ Dispatch
    \/ \E to \in Statuses, shown \in Ticks : StatusMoves(to, shown)
    \/ \E id \in {Loosely, Unknown} : TypeTrackingId(id)
    \/ HandleSubmit \/ HandleNewSearch \/ TryAgain \/ ReadShipment \/ ReadHistory \/ ReadAnswered \/ ClassifyTrackingError \/ FetchDetails \/ FetchFailed

Spec == Init /\ [][Next]_vars

TypeOK ==
    /\ row.status \in Statuses /\ row.held \in Statuses \cup {NoStatus} /\ row.pur \in {"none", "open", "picked"}
    /\ Len(log) \in 1 .. MaxMoves + 1 /\ left \in BOOLEAN
    /\ {box, asked} \subseteq {None, Awb, Loosely, Unknown} /\ asked # Loosely /\ reads \in 0 .. MaxReads
    /\ page # None => page.at \in {"loading", "shown", "not found", "unavailable"}

HeldAtPickup(r) == r.status = "EXCEPTION" /\ ~IsPickedUp(r.held)

\* What the buyer reads is one story: the badge is among the milestones told below it, although the parcel moves between the
\* two reads, and the parcel is shown as picked up when it has left the seller, but for one on hold at the pickup
\* (tracking-display.ts:6-8, shipment.py:298-350).
BuyerIsTold ==
    LET status == page.read.row.status
        shown == TrackingTimeline(page.read)
        green == {i \in 1 .. 5 : shown.stepper.bubbles[i] = "brand"}
    IN  /\ \E i \in DOMAIN shown.told : shown.told[i] = PublicTitles(status)
        /\ 2 \in green <=> page.read.left \/ HeldAtPickup(page.read.row)
        /\ 5 \in green <=> status = "COMPLETED"
        /\ 5 \in green => \E i \in DOMAIN shown.told : shown.icons[i] = "tick"
        /\ shown.stepper.filled \in green

\* What the seller reads agrees with what the buyer is told of the same status, its steps are reached one after the other,
\* and their times go forward when all is shown and read no earlier than the row (page.tsx:205-307).
SellerIsTold ==
    LET stages == BuildTrackingStages(page.read.row, page.read.acts)
        steps == PublicTrackingSteps(page.read.row.status)
    IN  /\ stages[4].completed = steps[2].reached /\ stages[5].completed = steps[4].reached /\ stages[6].completed = steps[5].reached
        /\ \A i \in 1 .. 4 : StepperLines(stages)[i] => stages[i].completed
        /\ Reader = "staff" => \A i, j \in 3 .. 5 : i < j /\ stages[i].time # None /\ stages[j].time # None => stages[i].time < stages[j].time

ActedAsShown == page # None /\ page.at = "shown" => IF Reader = "buyer" THEN BuyerIsTold ELSE SellerIsTold

=============================================================================
