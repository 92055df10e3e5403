---------------------------- MODULE ShipmentPage ----------------------------
(***************************************************************************)
(* The page of one shipment (shipments/[id]/page.tsx) and what it can do to  *)
(* the parcel: cancel it, which after pickup is a return that costs money,    *)
(* move it (update-status-dialog.tsx) and record what it measures             *)
(* (measurement-dialog.tsx), while the page is read again and others act.     *)
(***************************************************************************)
EXTENDS Naturals, Sequences, NdrRules

CONSTANTS None,
    Starts,         \* the statuses the parcel may have at first
    Moves,          \* the statuses other people move it to
    MayReturn,      \* canCancelPostPickup: the shipper, the owner or an admin
    Dialogs,        \* the dialogs used: "cancel", "update", "measure"
    Bodies,         \* measurements that may be typed
    Loads, MaxMoves, MaxOpens

VARIABLES
    status, held, refunds, returns, recorded, claims, moves,    \* the server; claims: the body answered under a key
    shown, cached, loads,                               \* the page and its reads
    cancelOpen, preview, cancelling, toldCancel,        \* the cancel dialog
    updateOpen, form, updating,                         \* UpdateStatusDialog
    measureOpen, opens, body, measuring                 \* MeasurementDialog, mounted anew at each opening

vars == <<status, held, refunds, returns, recorded, claims, moves, shown, cached, loads, cancelOpen, preview, cancelling,
          toldCancel, updateOpen, form, updating, measureOpen, opens, body, measuring>>
serverVars == <<status, held, refunds, returns, recorded, claims, moves>>
pageVars == <<shown, cached, loads>>
cancelVars == <<cancelOpen, preview, cancelling, toldCancel>>
updateVars == <<updateOpen, form, updating>>
measureVars == <<measureOpen, opens, body, measuring>>

Keys == 1..MaxOpens
Idle == [live |-> FALSE, read |-> None]
Reasons == {None, "CONSIGNEE_REFUSED", "FREIGHT_COLLECTION"}

-----------------------------------------------------------------------------
(* The server.                                                             *)

AfterPickup == status \in OnTheWay \cup RtoStatuses \cup {"COMPLETED"} \/ (status = "EXCEPTION" /\ IsPickedUp(held))

\* apply_rto_charges does nothing when the bill carries the return already.
BilledAgain == TRUE
RtoDue == returns = 0

Becomes(s) ==
    /\ status' = s /\ held' = IF s = "EXCEPTION" THEN status ELSE NoStatus
    /\ returns' = IF s = "RTO_INITIATED" /\ RtoDue THEN returns + 1 ELSE returns
    /\ refunds' = IF s = "CANCELLED" THEN refunds + 1 ELSE refunds

\* _validate_status_transition and _assert_exception_exit.
Accepts(s) ==
    /\ s # status /\ ValidTransition(status, s)
    /\ status = "EXCEPTION" => s \in {"RTO_INITIATED", "CANCELLED"} \/ s = ResumeStatus("DAMAGED", "FORWARD", TRUE, held)

\* cancel_shipment: what becomes of the parcel, None when it is refused.
CancelledAs ==
    CASE status \in Terminal -> None
      [] status \notin Terminal /\ AfterPickup -> IF MayReturn THEN "RTO_INITIATED" ELSE None
      [] status \notin Terminal /\ ~AfterPickup -> IF status \in PrePickup THEN "CANCELLED" ELSE None

\* Staff, the rider, or the merchant on another screen.
OthersMove ==
    /\ moves < MaxMoves /\ moves' = moves + 1
    /\ \E s \in Moves : Accepts(s) /\ (s = "CANCELLED" => ~AfterPickup) /\ Becomes(s)
    /\ UNCHANGED <<recorded, claims, pageVars, cancelVars, updateVars, measureVars>>

-----------------------------------------------------------------------------
(* The page.                                                               *)

IsPostPickupCancel(s) == s \in OnTheWay

\* useRepricePreview of the return: asked for when the dialog shows one, dropped when it does not.
PreviewOf(open, s) ==
    LET enabled(o, x) == o /\ IsPostPickupCancel(x) /\ MayReturn
    IN  IF ~enabled(open, s) THEN "idle" ELSE IF enabled(cancelOpen, shown) THEN preview ELSE "loading"

FormOf(s) == [first |-> s, status |-> s, reason |-> None, charge |-> FALSE, otp |-> FALSE]

\* The dialogs are mounted with the first details shown; later ones leave what they hold.
FormFollows(s) == FormOf(s)
FormKept(s) == IF form = None THEN FormOf(s) ELSE form

Show(s, open) == shown' = s /\ cancelOpen' = open /\ preview' = PreviewOf(open, s) /\ form' = FormKept(s)

\* fetchDetails: cached details are shown at once.
Fetch(slot, s, open) ==
    /\ loads[slot] = Idle /\ loads' = [loads EXCEPT ![slot] = [live |-> TRUE, read |-> None]]
    /\ Show(s, open)

Init ==
    /\ status \in Starts /\ held = NoStatus /\ refunds = 0 /\ returns = 0 /\ moves = 0
    /\ recorded = [k \in Keys |-> <<>>] /\ claims = [k \in Keys |-> None]
    /\ cached \in {None, status} /\ shown = cached
    /\ \E slot \in Loads : loads = [m \in Loads |-> IF m = slot THEN [live |-> TRUE, read |-> None] ELSE Idle]
    /\ cancelOpen = FALSE /\ preview = "idle" /\ cancelling = None /\ toldCancel = None
    /\ updateOpen = FALSE /\ form = (IF shown = None THEN None ELSE FormOf(shown)) /\ updating = None
    /\ measureOpen = FALSE /\ opens = 0 /\ body = None /\ measuring = [k \in Keys |-> None]

ReadDetails(m) ==
    /\ loads[m].live /\ loads[m].read = None /\ loads' = [loads EXCEPT ![m].read = status]
    /\ UNCHANGED <<serverVars, shown, cached, cancelVars, updateVars, measureVars>>

\* Whichever answer comes last is the one that stays.
DetailsAnswered(m) ==
    /\ loads[m].read # None /\ loads' = [loads EXCEPT ![m] = Idle]
    /\ cached' = loads[m].read /\ Show(loads[m].read, cancelOpen)
    /\ UNCHANGED <<serverVars, cancelling, toldCancel, updateOpen, updating, measureVars>>

DetailsFail(m) ==
    /\ loads[m].live /\ loads' = [loads EXCEPT ![m] = Idle]
    /\ UNCHANGED <<serverVars, shown, cached, cancelVars, updateVars, measureVars>>

-----------------------------------------------------------------------------
(* Cancel Order.                                                           *)

\* The dialog is part of the button: it goes with it, and comes back open.
OffersCancel == "cancel" \in Dialogs /\ shown \in PrePickup \cup OnTheWay

\* Trigger, Keep Order (not while cancelling) or Escape.
ToggleCancel ==
    /\ OffersCancel /\ Show(shown, ~cancelOpen)
    /\ UNCHANGED <<serverVars, cached, loads, cancelling, toldCancel, updateOpen, updating, measureVars>>

\* A price that cannot be worked out is told, and does not hold the order back.
PreviewAnswered ==
    /\ preview = "loading" /\ preview' \in {"answered", "failed"}
    /\ UNCHANGED <<serverVars, pageVars, cancelOpen, cancelling, toldCancel, updateVars, measureVars>>

WithoutWaiting == IsPostPickupCancel(shown) => MayReturn
MayConfirm == IsPostPickupCancel(shown) => MayReturn /\ preview # "loading"

HandleCancelOrder ==
    /\ OffersCancel /\ cancelOpen /\ cancelling = None /\ MayConfirm
    /\ cancelling' = [return |-> IsPostPickupCancel(shown), price |-> preview, at |-> "going"] /\ toldCancel' = None
    /\ UNCHANGED <<serverVars, pageVars, cancelOpen, preview, updateVars, measureVars>>

ServeCancel(reaches, answers) ==
    /\ cancelling # None /\ cancelling.at = "going"
    /\ IF reaches /\ CancelledAs # None
       THEN Becomes(CancelledAs) /\ cancelling' = [cancelling EXCEPT !.at = IF answers THEN CancelledAs ELSE "failed"]
       ELSE cancelling' = [cancelling EXCEPT !.at = "failed"] /\ UNCHANGED <<status, held, returns, refunds>>
    /\ UNCHANGED <<recorded, claims, moves, pageVars, cancelOpen, preview, toldCancel, updateVars, measureVars>>

\* The toast, whatever the dialog had said before.
ConvertedAsShown == cancelling.return
ConvertedToRto == cancelling.at = "RTO_INITIATED" \/ cancelling.return

\* Every write that may have happened drops the cached details.
CancelAnswered(slot) ==
    /\ cancelling # None /\ cancelling.at \in Statuses /\ cancelling' = None /\ cached' = None
    /\ toldCancel' = IF ConvertedToRto THEN "return" ELSE "refund"
    /\ Fetch(slot, cancelling.at, FALSE)
    /\ UNCHANGED <<serverVars, updateOpen, updating, measureVars>>

CancelFailed ==
    /\ cancelling # None /\ cancelling.at = "failed" /\ cancelling' = None /\ cached' \in {cached, None}
    /\ UNCHANGED <<serverVars, shown, loads, cancelOpen, preview, toldCancel, updateVars, measureVars>>

-----------------------------------------------------------------------------
(* Update Status.                                                          *)

\* buildStatusSelectOptions.
Offered == ((Allowed[shown] \ (IF MayReturn THEN {"LOST"} ELSE {"LOST", "RTO_INITIATED"})) \cup {shown}) \cap (Moves \cup {shown})

\* The trigger; Cancel and Escape leave the form as it is.
ToggleUpdate ==
    /\ "update" \in Dialogs /\ shown # None /\ updateOpen' = ~updateOpen
    /\ UNCHANGED <<serverVars, pageVars, cancelVars, form, updating, measureVars>>

ChooseStatus ==
    /\ updateOpen /\ \E s \in Offered \ {form.status} : form' = [form EXCEPT !.status = s]
    /\ UNCHANGED <<serverVars, pageVars, cancelVars, updateOpen, updating, measureVars>>

\* Only the fields of the status chosen are on the screen.
TypeDetails ==
    /\ updateOpen
    /\ \/ form.status = "COMPLETED" /\ form' = [form EXCEPT !.otp = ~@]
       \/ form.status = "EXCEPTION" /\ \E r \in Reasons \ {form.reason} : form' = [form EXCEPT !.reason = r]
       \/ /\ form.status = "EXCEPTION" /\ form.reason = "FREIGHT_COLLECTION" /\ form' = [form EXCEPT !.charge = ~@]
    /\ UNCHANGED <<serverVars, pageVars, cancelVars, updateOpen, updating, measureVars>>

\* updateStatusSchema.
Complete ==
    /\ form.status = "COMPLETED" => form.otp
    /\ form.status = "EXCEPTION" => form.reason # None /\ (form.reason \in ChargeReasons => form.charge)

Unmasked == [form EXCEPT !.first = None]
Sent ==
    LET exception == form.status = "EXCEPTION"
    IN  [first |-> None, status |-> form.status, otp |-> form.otp /\ form.status = "COMPLETED",
         reason |-> IF exception THEN form.reason ELSE None,
         charge |-> form.charge /\ exception /\ form.reason \in ChargeReasons]

SubmitStatus ==
    /\ updateOpen /\ updating = None /\ Complete /\ updating' = [sent |-> Sent, at |-> "going"]
    /\ UNCHANGED <<serverVars, pageVars, cancelVars, updateOpen, form, measureVars>>

\* update_shipment: the status the parcel has already changes nothing, a cancel after pickup returns it.
ServeUpdate(accepted, answers) ==
    /\ updating # None /\ updating.at = "going"
    /\ LET wanted == updating.sent.status
           s == IF wanted = "CANCELLED" /\ AfterPickup THEN "RTO_INITIATED" ELSE wanted
           done == accepted /\ (s = status \/ (Accepts(s) /\ (s = "RTO_INITIATED" => MayReturn)))
       IN  /\ IF done /\ s # status THEN Becomes(s) ELSE UNCHANGED <<status, held, returns, refunds>>
           /\ updating' = [updating EXCEPT !.at = IF done /\ answers THEN "answered" ELSE "failed"]
    /\ UNCHANGED <<recorded, claims, moves, pageVars, cancelVars, updateOpen, form, measureVars>>

\* form.reset() goes back to the status the page was first shown with.
UpdateAnswered(slot) ==
    /\ updating # None /\ updating.at = "answered" /\ updating' = None /\ updateOpen' = FALSE /\ cached' = None
    /\ loads[slot] = Idle /\ loads' = [loads EXCEPT ![slot].live = TRUE] /\ form' = FormOf(form.first)
    /\ UNCHANGED <<serverVars, shown, cancelVars, measureVars>>

FormAfterRefusal == form
UpdateFailed ==
    /\ updating # None /\ updating.at = "failed" /\ updating' = None /\ form' = FormAfterRefusal
    /\ cached' \in {cached, None}
    /\ UNCHANGED <<serverVars, shown, loads, cancelVars, updateOpen, measureVars>>

-----------------------------------------------------------------------------
(* Record measurement.                                                     *)

\* A dialog mounted anew, with a key of its own and an empty form.
OpenMeasurement ==
    /\ "measure" \in Dialogs /\ shown # None /\ ~measureOpen /\ opens < MaxOpens
    /\ measureOpen' = TRUE /\ opens' = opens + 1 /\ body' = None
    /\ UNCHANGED <<serverVars, pageVars, cancelVars, updateVars, measuring>>

CloseMeasurement ==
    /\ measureOpen /\ measureOpen' = FALSE
    /\ UNCHANGED <<serverVars, pageVars, cancelVars, updateVars, opens, body, measuring>>

TypeMeasurement ==
    /\ measureOpen /\ body' \in Bodies \ {body}
    /\ UNCHANGED <<serverVars, pageVars, cancelVars, updateVars, measureOpen, opens, measuring>>

SubmitMeasurement ==
    /\ measureOpen /\ body # None /\ measuring[opens] = None
    /\ measuring' = [measuring EXCEPT ![opens] = [body |-> body, at |-> "going"]]
    /\ UNCHANGED <<serverVars, pageVars, cancelVars, updateVars, measureOpen, opens, body>>

\* RepricingService.apply: the adjustment of a key that was billed already is answered again.
Unseen(k) == TRUE
Unbilled(k) == recorded[k] = <<>>

\* require_idempotency around it: another body than the one claimed is refused. The claim is released
\* when its response cannot be stored, although it was billed.
ServeMeasurement(k, reaches, answers) ==
    /\ measuring[k] # None /\ measuring[k].at = "going"
    /\ LET b == measuring[k].body
           done == reaches /\ claims[k] \in {None, b}
           bills == done /\ claims[k] = None /\ Unbilled(k)
       IN  /\ recorded' = IF bills THEN [recorded EXCEPT ![k] = Append(@, b)] ELSE recorded
           /\ \/ done /\ claims' = [claims EXCEPT ![k] = b]
              \/ ~(done /\ answers) /\ claims' = claims
           /\ measuring' = [measuring EXCEPT ![k].at = IF done /\ answers THEN "answered" ELSE "failed"]
    /\ UNCHANGED <<status, held, refunds, returns, moves, pageVars, cancelVars, updateVars, measureOpen, opens, body>>

\* Also the answer to a dialog already closed closes the one now open.
MeasurementAnswered(k, slot) ==
    /\ measuring[k] # None /\ measuring[k].at = "answered" /\ measuring' = [measuring EXCEPT ![k] = None]
    /\ measureOpen' = FALSE /\ cached' = None /\ loads[slot] = Idle /\ loads' = [loads EXCEPT ![slot].live = TRUE]
    /\ UNCHANGED <<serverVars, shown, cancelVars, updateVars, opens, body>>

MeasurementFailed(k) ==
    /\ measuring[k] # None /\ measuring[k].at = "failed" /\ measuring' = [measuring EXCEPT ![k] = None]
    /\ cached' \in {cached, None}
    /\ UNCHANGED <<serverVars, shown, loads, cancelVars, updateVars, measureOpen, opens, body>>

Next ==
    \/ OthersMove \/ ToggleCancel \/ PreviewAnswered \/ HandleCancelOrder \/ CancelFailed
    \/ ToggleUpdate \/ ChooseStatus \/ TypeDetails \/ SubmitStatus \/ UpdateFailed
    \/ OpenMeasurement \/ CloseMeasurement \/ TypeMeasurement \/ SubmitMeasurement
    \/ \E m \in Loads : ReadDetails(m) \/ DetailsAnswered(m) \/ DetailsFail(m) \/ CancelAnswered(m) \/ UpdateAnswered(m)
    \/ \E a, b \in BOOLEAN : ServeCancel(a, b) \/ ServeUpdate(a, b) \/ \E k \in Keys : ServeMeasurement(k, a, b)
    \/ \E k \in Keys : MeasurementFailed(k) \/ \E m \in Loads : MeasurementAnswered(k, m)

Spec == Init /\ [][Next]_vars

-----------------------------------------------------------------------------
TypeOK ==
    /\ status \in Statuses /\ held \in Statuses \cup {NoStatus} /\ shown \in Statuses \cup {None}
    /\ preview \in {"idle", "loading", "answered", "failed"} /\ (form = None) = (shown = None)
    /\ toldCancel \in {None, "refund", "return"} /\ body \in Bodies \cup {None} /\ (measureOpen => opens > 0)

\* A return that costs money is confirmed by someone who may, once its price has been worked out or
\* could not be; what the toast says of the money is what happened to it, however often the parcel
\* moved since the dialog was read; and no field of a status that is not on the screen is sent.
ActedAsShown ==
    /\ cancelling # None /\ cancelling.return => MayReturn /\ cancelling.price \in {"answered", "failed"}
    /\ (toldCancel = "refund" => refunds = 1) /\ (toldCancel = "return" => returns = 1 /\ refunds = 0)
    /\ updating # None =>
          /\ updating.sent.otp = (updating.sent.status = "COMPLETED")
          /\ (updating.sent.reason # None) = (updating.sent.status = "EXCEPTION")
          /\ updating.sent.charge = (updating.sent.reason \in ChargeReasons)

\* A parcel is refunded or returned, once, and a measurement is billed once for each opening of its
\* dialog, although answers are lost or cannot be stored and buttons are pressed again.
OncePerIntent == refunds + returns <= 1 /\ \A k \in Keys : Len(recorded[k]) <= 1

\* Neither a read of the page nor a request that fails changes an open form.
KeepsTyping ==
    /\ form # None
    /\ loads' # loads \/ (updating # None /\ updating' = None /\ updating.at = "failed")
    /\ UNCHANGED <<cancelling, measuring>> /\ (updating' = updating \/ updating.at = "failed")
    => UNCHANGED <<form, body, updateOpen, measureOpen>>
=============================================================================
