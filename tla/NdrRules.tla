------------------------------ MODULE NdrRules ------------------------------
(***************************************************************************)
(* The pure rules every handler of a shipment consults: the transition     *)
(* table of services/shipment_lifecycle.py and the delivery-exception      *)
(* (NDR) rules of services/ndr_rules.py.  They hold no state; Shipment     *)
(* calls them the way the services do.                                     *)
(*                                                                         *)
(* NoReason and NoStatus are the None of an unset ndr_reason and of an     *)
(* unknown held_from (the status the parcel was held from).                *)
(***************************************************************************)
EXTENDS Naturals

ShipmentTypes == {"FORWARD", "REVERSE"}
NoReason == "NO_REASON"
NoStatus == "NO_STATUS"

(******************************* the lifecycle *****************************)

PrePickup == {"DRAFT", "OPEN", "ASSIGNED"}
OnTheWay == {"IN_TRANSIT", "OUT_FOR_DELIVERY"}
RtoLeg == {"RTO_INITIATED", "RTO_IN_TRANSIT"}
RtoStatuses == RtoLeg \cup {"RTO_DELIVERED"}
Terminal == {"COMPLETED", "RTO_DELIVERED", "CANCELLED", "QC_FAILED", "REJECTED_AT_PICKUP"}
Statuses == PrePickup \cup OnTheWay \cup RtoStatuses \cup Terminal \cup {"EXCEPTION", "LOST"}

Allowed ==
    [s \in Statuses |->
        CASE s = "DRAFT" -> {"OPEN", "CANCELLED"}
          [] s = "OPEN" -> {"ASSIGNED", "CANCELLED", "QC_FAILED", "REJECTED_AT_PICKUP"}
          [] s = "ASSIGNED" -> {"IN_TRANSIT", "CANCELLED", "EXCEPTION", "QC_FAILED",
                                "REJECTED_AT_PICKUP"}
          [] s = "IN_TRANSIT" -> {"OUT_FOR_DELIVERY", "COMPLETED", "RTO_INITIATED",
                                  "EXCEPTION", "LOST"}
          [] s = "OUT_FOR_DELIVERY" -> {"COMPLETED", "RTO_INITIATED", "EXCEPTION", "LOST"}
          [] s = "EXCEPTION" -> {"OPEN", "ASSIGNED", "IN_TRANSIT", "OUT_FOR_DELIVERY",
                                 "RTO_INITIATED", "RTO_IN_TRANSIT", "CANCELLED", "LOST"}
          [] s = "RTO_INITIATED" -> {"RTO_IN_TRANSIT", "RTO_DELIVERED", "EXCEPTION", "LOST"}
          [] s = "RTO_IN_TRANSIT" -> {"RTO_DELIVERED", "EXCEPTION", "LOST"}
          [] s = "LOST" -> {"IN_TRANSIT", "RTO_INITIATED"}
          [] OTHER -> {}]

\* validate_transition raises 400 unless this holds.
ValidTransition(current, new) ==
    \/ current = new
    \/ /\ current \notin Terminal
       /\ ~(current \in RtoStatuses /\ new = "COMPLETED")
       /\ new \in Allowed[current]

(******************************** the reasons ******************************)

DeliveryAttemptReasons == {"CONSIGNEE_REFUSED", "CONSIGNEE_UNAVAILABLE", "DELIVERY_RESCHEDULED"}
AttemptCountingReasons == DeliveryAttemptReasons \cup {"PICKUP_FAILED"}
ChargeReasons == {"FREIGHT_COLLECTION", "ADDITIONAL_CHARGES"}
LiabilityReasons == {"DAMAGED", "SHORT_SHIPMENT"}
AllReasons == AttemptCountingReasons \cup ChargeReasons \cup LiabilityReasons \cup
    {"CUSTOMER_UNAVAILABLE", "EWAY_BILL_MISSING", "DOCUMENT_NEEDED", "APPOINTMENT_NEEDED",
     "WEIGHT_DISCREPANCY", "CONSIGNEE_DETAILS_REQUIRED", "PAYMENT_DISPUTE"}

Canonical(reason) ==
    IF reason = "CUSTOMER_UNAVAILABLE" THEN "CONSIGNEE_UNAVAILABLE" ELSE reason

CountsAsAttempt(reason) == Canonical(reason) \in AttemptCountingReasons

IsPickedUp(held) == held # NoStatus /\ held \notin PrePickup

IsRtoLeg(held) == held \in RtoLeg

\* raise_rejection returns a message: a reason that contradicts the parcel's stage.
RaiseRefused(reason, type, held) ==
    \/ Canonical(reason) = "PICKUP_FAILED" /\ IsPickedUp(held)
    \/ /\ ~IsPickedUp(held) /\ type = "FORWARD"
       /\ Canonical(reason) \in DeliveryAttemptReasons

\* Without held_from (legacy rows) the reason alone decides.
IsPickupStage(reason, type, held) ==
    IF held # NoStatus
    THEN ~IsPickedUp(held) /\ CountsAsAttempt(reason)
    ELSE \/ Canonical(reason) = "PICKUP_FAILED"
         \/ type = "REVERSE" /\ Canonical(reason) \in DeliveryAttemptReasons

(******************************** the actions ******************************)

MaxNdrAttempts == 3

AwaitingOpsActions == {"HOLD", "DISPUTE_WEIGHT"}
RetryActions == {"REATTEMPT", "RESCHEDULE_PICKUP"}
PickupStageActions == {"RESCHEDULE_PICKUP", "CANCEL_PICKUP"}
RtoLegExcluded == {"RETURN_TO_ORIGIN", "UPDATE_PAYMENT_MODE"}

\* The two forward matrices; a reason without a row gets no action.
ForwardActions(reason, isB2B) ==
    CASE reason = "EWAY_BILL_MISSING" ->
            {"UPDATE_EWAY_BILL"} \cup (IF isB2B THEN {} ELSE {"RETURN_TO_ORIGIN"})
      [] reason = "DOCUMENT_NEEDED" -> {"UPLOAD_DOCUMENT"}
      [] reason = "APPOINTMENT_NEEDED" -> {"BOOK_APPOINTMENT", "DELIVER_WITHOUT_APPOINTMENT"}
      [] reason = "SHORT_SHIPMENT" -> {"PARTIAL_DELIVERY", "HOLD"}
      [] reason \in ChargeReasons -> {"ACKNOWLEDGE_CHARGES"}
      [] reason = "WEIGHT_DISCREPANCY" -> {"ACCEPT_WEIGHT", "DISPUTE_WEIGHT"}
      [] reason = "DAMAGED" ->
            {"RETURN_TO_ORIGIN", IF isB2B THEN "REPACK_AND_DELIVER" ELSE "REATTEMPT"}
      [] reason = "CONSIGNEE_DETAILS_REQUIRED" ->
            {"UPDATE_CONSIGNEE", IF isB2B THEN "REATTEMPT" ELSE "RETURN_TO_ORIGIN"}
      [] reason = "PAYMENT_DISPUTE" ->
            {"UPDATE_PAYMENT_MODE", IF isB2B THEN "REATTEMPT" ELSE "RETURN_TO_ORIGIN"}
      [] reason \in DeliveryAttemptReasons ->
            {"REATTEMPT", "RETURN_TO_ORIGIN"} \cup (IF isB2B THEN {} ELSE {"UPDATE_CONSIGNEE"})
      [] OTHER -> {}

AllowedActions(reason, type, isB2B, held) ==
    CASE reason = NoReason -> {}
      [] reason # NoReason /\ IsPickupStage(reason, type, held) -> PickupStageActions
      [] OTHER -> ForwardActions(Canonical(reason), isB2B)
                  \ (   (IF IsRtoLeg(held) THEN RtoLegExcluded ELSE {})
                     \cup (IF type = "REVERSE" \/ (held # NoStatus /\ ~IsPickedUp(held))
                           THEN {"RETURN_TO_ORIGIN"} ELSE {}))

\* The status the system forces at the attempt limit, NoStatus while attempts remain.
AttemptLimitOutcome(reason, type, attempts, held) ==
    CASE ~CountsAsAttempt(reason) \/ attempts < MaxNdrAttempts \/ IsRtoLeg(held) -> NoStatus
      [] CountsAsAttempt(reason) /\ attempts >= MaxNdrAttempts /\ ~IsRtoLeg(held) ->
            IF IsPickupStage(reason, type, held) THEN "CANCELLED"
            ELSE IF type = "REVERSE" THEN NoStatus ELSE "RTO_INITIATED"

\* Mutant: a resolved exception resumes by its reason alone.
ResumeStatusByReason(reason, type, linked, held) ==
    IF IsPickupStage(reason, type, NoStatus)
    THEN IF linked THEN "ASSIGNED" ELSE "OPEN"
    ELSE "IN_TRANSIT"

\* Where a resolved exception resumes: linked says whether a pickup request holds it.
ResumeStatus(reason, type, linked, held) ==
    LET stillHere == IF linked THEN "ASSIGNED" ELSE "OPEN"
    IN  CASE held = NoStatus -> IF IsPickupStage(reason, type, NoStatus) THEN stillHere ELSE "IN_TRANSIT"
          [] held \in PrePickup -> stillHere
          [] held \in RtoLeg -> held
          [] OTHER -> "IN_TRANSIT"
=============================================================================
