------------------------------ MODULE Shipment ------------------------------
(***************************************************************************)
(* One wallet-billed shipment from booking to its end: the status the      *)
(* courier staff move it through (services/shipment.py), the delivery      *)
(* exceptions the merchant answers (services/exceptions.py), the bill and  *)
(* the money taken for it (services/repricing.py), the weight dispute on   *)
(* it (services/delhivery_modules.py), the pickup request it rides on      *)
(* (repositories/manifests.py) and the hourly worker                       *)
(* (scripts/temporal_hooks_worker.py).                                     *)
(*                                                                         *)
(* Every handler but one reads the shipment under SELECT ... FOR UPDATE    *)
(* and keeps the row to its commit, so it is one step.  update_appointment *)
(* takes no lock: it is a read step and a write step.                      *)
(***************************************************************************)
EXTENDS NdrRules, Integers

CONSTANTS
    Types,        \* the shipment types booked
    Flows,        \* the flows booked: TRUE is B2B (the SQL classifier's verdict)
    Freight,      \* forward freight the quote engine may return
    RtoCharge,    \* the RTO surcharge it adds on the return leg
    CodFee,       \* the fee it adds for cash on delivery
    Charge,       \* a charge ops enter on an exception
    Reasons,      \* the NDR reasons raised
    Ops,          \* the operations users issue
    AttemptBound, \* bound: failed attempts recorded
    ChargeBound   \* bound: total of the charges ops enter

Operations ==
    {"pur", "purOnHold", "patch", "override", "raise", "worker", "ndr", "waive", "cancel",
     "measure", "edit", "editLost", "cod", "claim", "claimLost", "reason", "appointment"}

ASSUME MoneyAssumption == /\ Freight \subseteq Nat \ {0} /\ Freight # {}
                          /\ RtoCharge \in Nat \ {0} /\ CodFee \in Nat \ {0}
                          /\ Charge \in Nat \ {0}
ASSUME BookingAssumption == /\ Types \subseteq ShipmentTypes /\ Types # {}
                            /\ Flows \subseteq BOOLEAN /\ Flows # {}
ASSUME InputAssumption == Reasons \subseteq AllReasons /\ Ops \subseteq Operations
ASSUME BoundAssumption == AttemptBound \in Nat /\ ChargeBound \in Nat

VARIABLES
    sh,           \* the shipment row and what its activity log says
    bill,         \* payment_details and the wallet rows of the shipment
    claim,        \* its weight_disputes row
    appt,         \* what an update_appointment in flight has read
    moved,        \* history: the parcel has been handed to the courier
    waived        \* history: its return was accepted as "Logismart liable"

vars == <<sh, bill, claim, appt, moved, waived>>

PurStatuses == {"NONE", "SCHEDULED", "OUT_FOR_PICKUP", "PICKED"}
OpenPur == {"SCHEDULED", "OUT_FOR_PICKUP"}
FullRefund == {"CANCELLED", "QC_FAILED", "REJECTED_AT_PICKUP"}

\* held is get_held_from_status; pur the status of the linked pickup request.
ShipmentRow == [type: ShipmentTypes, b2b: BOOLEAN, status: Statuses, reason: AllReasons \cup {NoReason},
                held: Statuses \cup {NoStatus}, attempts: Nat, awaiting: BOOLEAN,
                pur: PurStatuses, otp: BOOLEAN, cod: BOOLEAN]

\* fwd, leg and fee are the breakdown of the last quote, extra and wadj the adjustments
\* on top (wadj the weight ones); paid is net_debited of the wallet rows, rtoRows how
\* many of them are RTO_FREIGHT.
Bill == [fwd: Nat, leg: Nat, fee: Nat, extra: Nat, wadj: Nat, total: Nat, paid: Nat,
         rtoRows: Nat]

Dispute == [st: {"NO_ROW", "NONE", "CLAIM_RAISED", "ACCEPTED", "REJECTED"},
            cost: Nat, diff: Nat]
NoDispute == [st |-> "NO_ROW", cost |-> 0, diff |-> 0]

Snapshot == [busy: BOOLEAN, reason: AllReasons \cup {NoReason}, linked: BOOLEAN, otp: BOOLEAN]
NoSnapshot == [busy |-> FALSE, reason |-> NoReason, linked |-> FALSE, otp |-> FALSE]

AtLeast(a, b) == IF a > b THEN a ELSE b
AtMost(a, b) == IF a < b THEN a ELSE b

(********************************* the bill ********************************)

\* The RTO leg stays on the bill once it is there; a COD fee is never quoted for a
\* parcel in an RTO status.
QuotedLeg(b, status) == IF status \in RtoStatuses \/ b.leg > 0 THEN RtoCharge ELSE 0
QuotedFee(cod, status) == IF cod /\ status \notin RtoStatuses THEN CodFee ELSE 0

QuoteTotal(b) == b.fwd + b.leg + b.fee + b.extra + b.wadj

\* _settle brings what was paid to the new total: one debit or one refund.
Settled(b, total) == [b EXCEPT !.total = total, !.paid = total]

Repriced(b, cod, status) ==
    LET quote == [b EXCEPT !.leg = QuotedLeg(b, status), !.fee = QuotedFee(cod, status)]
    IN  Settled(quote, QuoteTotal(quote))

\* Mutant: the bill is zeroed and the wallet keeps what it took.
RefundedToZeroUnpaid(b) == [b EXCEPT !.total = 0]

\* refund_all: a cancellation or a refusal at pickup zeroes the bill, LOST keeps it.
RefundedToZero(b) == [b EXCEPT !.total = 0, !.paid = 0]

RefundedLost(b) == [b EXCEPT !.paid = 0]

\* The COD fee is credited first, with the leg left as it is.
CodFeeReversed(b, cod) ==
    IF ~cod THEN b
    ELSE LET quote == [b EXCEPT !.leg = IF @ > 0 THEN RtoCharge ELSE 0, !.fee = 0]
         IN  Settled(quote, QuoteTotal(quote))

\* One RTO_FREIGHT row per shipment: a second upward movement is booked as SPEND.
RtoRows(before, after) ==
    IF after.total > before.paid /\ before.rtoRows = 0 THEN 1 ELSE before.rtoRows

RtoCharged(b, cod, waive) ==
    LET credited == CodFeeReversed(b, cod)
        quote == [credited EXCEPT !.leg = IF waive THEN 0 ELSE RtoCharge, !.fee = 0]
        after == Settled(quote, QuoteTotal(quote))
    IN  [after EXCEPT !.rtoRows = RtoRows(credited, after)]

\* record_weight_audit_dispute: cost_diff is cumulative against the first bill.
DisputeAfter(old, new) ==
    IF new.fwd = old.fwd /\ new.total = old.total THEN claim
    ELSE IF claim.st # "NO_ROW"
         THEN [claim EXCEPT !.cost = new.total,
                            !.diff = AtLeast(0, new.total - (claim.cost - claim.diff))]
    ELSE IF new.total > old.total \/ new.fwd > old.fwd
         THEN [st |-> "NONE", cost |-> new.total, diff |-> AtLeast(0, new.total - old.total)]
    ELSE claim

(******************************* small helpers *****************************)

Released(row) == [row EXCEPT !.pur = "NONE"]
WithOtp(row) == [row EXCEPT !.otp = @ \/ row.status \in OnTheWay]
Cleared(row, status) ==
    WithOtp([row EXCEPT !.status = status, !.reason = NoReason, !.awaiting = FALSE])

\* Mutant: a parcel on hold always counts as not picked up.
AfterPickupStatusOnly == sh.status \in OnTheWay \cup RtoStatuses \cup {"LOST", "COMPLETED"}

AfterPickup ==
    \/ sh.status \in OnTheWay \cup RtoStatuses \cup {"LOST", "COMPLETED"}
    \/ /\ sh.status = "EXCEPTION"
       /\ IF sh.held # NoStatus THEN IsPickedUp(sh.held)
          ELSE ~IsPickupStage(sh.reason, sh.type, sh.held)

Resume == ResumeStatus(sh.reason, sh.type, sh.pur # "NONE", sh.held)

Init ==
    /\ \E type \in Types, b2b \in Flows, f \in Freight, cod \in BOOLEAN :
          LET b == [fwd |-> f, leg |-> 0, fee |-> QuotedFee(cod, "OPEN"), extra |-> 0,
                    wadj |-> 0, total |-> 0, paid |-> 0, rtoRows |-> 0]
          IN  /\ bill = Settled(b, QuoteTotal(b))
              /\ sh = [type |-> type, b2b |-> b2b, status |-> "OPEN", reason |-> NoReason, held |-> NoStatus,
                       attempts |-> 0, awaiting |-> FALSE, pur |-> "NONE", otp |-> FALSE,
                       cod |-> cod]
    /\ claim = NoDispute /\ appt = NoSnapshot /\ moved = FALSE /\ waived = FALSE

(**************************** the pickup request ***************************)

\* A pickup request may act on a linked shipment that is not Ready for Pickup.
PurMayAct == "pur" \in Ops /\ (sh.status # "ASSIGNED" => "purOnHold" \in Ops)

LinkToPur ==
    /\ "pur" \in Ops /\ sh.status = "OPEN" /\ sh.pur = "NONE"
    /\ sh' = [sh EXCEPT !.status = "ASSIGNED", !.pur = "SCHEDULED"]
    /\ UNCHANGED <<bill, claim, appt, moved, waived>>

MarkOutForPickup ==
    /\ "pur" \in Ops /\ sh.pur = "SCHEDULED"
    /\ sh' = [sh EXCEPT !.pur = "OUT_FOR_PICKUP"]
    /\ UNCHANGED <<bill, claim, appt, moved, waived>>

ReleasedByPur == [sh EXCEPT !.pur = "NONE", !.status = IF @ = "ASSIGNED" THEN "OPEN" ELSE @]

CancelPur ==
    /\ PurMayAct /\ sh.pur \in OpenPur
    /\ sh' = ReleasedByPur
    /\ UNCHANGED <<bill, claim, appt, moved, waived>>

\* The activity it writes for a shipment on hold says EXCEPTION -> EXCEPTION, which
\* get_held_from_status then reads and parse_held_from drops.
MarkNotPicked ==
    /\ PurMayAct /\ sh.pur \in OpenPur
    /\ sh' = [ReleasedByPur EXCEPT !.held = IF sh.status = "EXCEPTION" THEN NoStatus ELSE @]
    /\ UNCHANGED <<bill, claim, appt, moved, waived>>

\* Mutant: no OTP is issued at the pickup.
DispatchPickedNoOtp ==
    /\ PurMayAct /\ sh.pur \in OpenPur
    /\ sh' = [sh EXCEPT !.pur = "PICKED", !.status = IF @ \in PrePickup THEN "IN_TRANSIT" ELSE @]
    /\ moved' = TRUE
    /\ UNCHANGED <<bill, claim, appt, waived>>

DispatchPicked ==
    /\ PurMayAct /\ sh.pur \in OpenPur
    /\ sh' = [sh EXCEPT !.pur = "PICKED", !.otp = TRUE,
                        !.status = IF @ \in PrePickup THEN "IN_TRANSIT" ELSE @]
    /\ moved' = TRUE
    /\ UNCHANGED <<bill, claim, appt, waived>>

\* The shipments left behind at a partial pickup go back to OPEN, whatever they were.
DispatchUnpicked ==
    /\ PurMayAct /\ sh.pur \in OpenPur
    /\ sh' = [sh EXCEPT !.pur = "NONE", !.status = "OPEN"]
    /\ UNCHANGED <<bill, claim, appt, moved, waived>>

(******************************** exceptions *******************************)

\* Mutants: the limit is not enforced; the forced return is not billed.
LimitNotEnforced(row) == [row |-> row, bill |-> bill]
LimitEnforcedUnbilled(row) ==
    LET forced == AttemptLimitOutcome(row.reason, row.type, row.attempts, row.held)
    IN  CASE forced = NoStatus -> [row |-> row, bill |-> bill]
          [] forced = "CANCELLED" -> [row |-> Released(Cleared(row, "CANCELLED")),
                                      bill |-> RefundedToZero(bill)]
          [] OTHER -> [row |-> Cleared(row, "RTO_INITIATED"), bill |-> bill]

\* enforce_ndr_attempt_limit, with the row and the bill the raise left behind.
LimitEnforced(row) ==
    LET forced == AttemptLimitOutcome(row.reason, row.type, row.attempts, row.held)
    IN  CASE forced = NoStatus -> [row |-> row, bill |-> bill]
          [] forced = "CANCELLED" -> [row |-> Released(Cleared(row, "CANCELLED")),
                                      bill |-> RefundedToZero(bill)]
          [] OTHER -> [row |-> Cleared(row, "RTO_INITIATED"),
                       bill |-> RtoCharged(bill, row.cod, FALSE)]

\* Mutant: the update clears the reason of the exception it raises.
OnHoldLosingReason(reason, counted) ==
    [sh EXCEPT !.status = "EXCEPTION", !.reason = NoReason, !.held = sh.status,
               !.awaiting = FALSE, !.attempts = @ + (IF counted THEN 1 ELSE 0)]

OnHold(reason, counted) ==
    [sh EXCEPT !.status = "EXCEPTION", !.reason = reason, !.held = sh.status,
               !.awaiting = FALSE, !.attempts = @ + (IF counted THEN 1 ELSE 0)]

\* PATCH status=EXCEPTION; on a shipment already on hold it changes nothing (a replay).
RaiseException(reason) ==
    /\ "raise" \in Ops /\ sh.status # "EXCEPTION" /\ ValidTransition(sh.status, "EXCEPTION")
    /\ ~RaiseRefused(reason, sh.type, sh.status)
    /\ CountsAsAttempt(reason) => sh.attempts < AttemptBound
    /\ LET result == LimitEnforced(OnHold(reason, CountsAsAttempt(reason)))
       IN  sh' = result.row /\ bill' = result.bill
    /\ UNCHANGED <<claim, appt, moved, waived>>

\* check_appointments and check_eway_bills of the hourly worker: no attempt is counted.
WorkerHold(reason) ==
    /\ "worker" \in Ops
    /\ \/ reason = "APPOINTMENT_NEEDED" /\ sh.status \in OnTheWay
       \/ reason = "EWAY_BILL_MISSING" /\ sh.status = "IN_TRANSIT"
    /\ sh' = OnHold(reason, FALSE)
    /\ UNCHANGED <<bill, claim, appt, moved, waived>>

\* A PATCH of ndr_reason alone, on a shipment on hold.
EditReason(reason) ==
    /\ "reason" \in Ops /\ sh.status = "EXCEPTION" /\ reason \notin ChargeReasons
    /\ sh' = [sh EXCEPT !.reason = reason]
    /\ UNCHANGED <<bill, claim, appt, moved, waived>>

(************************* the merchant's NDR action ***********************)

\* Where the action sends the shipment; NoStatus leaves it on hold.
ActionTarget(action) ==
    LET forced == AttemptLimitOutcome(sh.reason, sh.type, sh.attempts, sh.held)
    IN  CASE action \in AwaitingOpsActions -> NoStatus
          [] action = "RETURN_TO_ORIGIN" -> "RTO_INITIATED"
          [] action = "CANCEL_PICKUP" -> "CANCELLED"
          [] action \in RetryActions /\ forced # NoStatus -> forced
          [] OTHER -> Resume

\* UPDATE_PAYMENT_MODE: the COD fee follows the mode.
PaymentModeBills == {[cod |-> c, bill |-> Repriced(bill, c, sh.status)] : c \in BOOLEAN}

\* ACKNOWLEDGE_CHARGES: freight still due goes into the bill, union charges stay outside it.
ChargeBills ==
    {[cod |-> sh.cod,
      bill |-> IF Canonical(sh.reason) = "FREIGHT_COLLECTION"
               THEN Repriced([bill EXCEPT !.extra = @ + Charge], sh.cod, sh.status) ELSE bill]}

\* ACCEPT_WEIGHT: the measured freight, or the weight charge ops entered.
WeightBills ==
    {[cod |-> sh.cod, bill |-> Repriced(b, sh.cod, sh.status)] :
        b \in {[bill EXCEPT !.fwd = f] : f \in Freight} \cup {[bill EXCEPT !.wadj = @ + Charge]}}

\* PARTIAL_DELIVERY: a revised COD amount re-prices the shipment.
PartialBills ==
    {[cod |-> sh.cod, bill |-> b] :
        b \in {bill} \cup (IF sh.cod THEN {Repriced(bill, sh.cod, sh.status)} ELSE {})}

\* The bills an action can leave before its outcome is applied, and the COD mode with it.
ActionBills(action) ==
    CASE action = "UPDATE_PAYMENT_MODE" -> PaymentModeBills
      [] action = "ACKNOWLEDGE_CHARGES" -> ChargeBills
      [] action = "ACCEPT_WEIGHT" -> WeightBills
      [] action = "PARTIAL_DELIVERY" -> PartialBills
      [] OTHER -> {[cod |-> sh.cod, bill |-> bill]}

\* _finalize_action: the transition, the release of a cancelled shipment, the RTO charge,
\* the refund.
Finalized(row, b, target, waive) ==
    CASE target = NoStatus -> [row |-> [row EXCEPT !.awaiting = TRUE], bill |-> b]
      [] target = "CANCELLED" -> [row |-> Released(Cleared(row, target)),
                                  bill |-> RefundedToZero(b)]
      [] target = "RTO_INITIATED" -> [row |-> Cleared(row, target),
                                      bill |-> RtoCharged(b, row.cod, waive)]
      [] OTHER -> [row |-> Cleared(row, target), bill |-> b]

NdrAction(action) ==
    /\ "ndr" \in Ops /\ sh.status = "EXCEPTION" /\ ~sh.awaiting
    /\ action \in AllowedActions(sh.reason, sh.type, sh.b2b, sh.held)
    /\ bill.extra + bill.wadj < ChargeBound \/ action \notin {"ACKNOWLEDGE_CHARGES", "ACCEPT_WEIGHT"}
    /\ LET target == ActionTarget(action)
       IN  \E priced \in ActionBills(action), waive \in BOOLEAN :
              /\ waive => /\ "waive" \in Ops /\ action = "RETURN_TO_ORIGIN"
                          /\ Canonical(sh.reason) \in LiabilityReasons
              /\ target # NoStatus => ValidTransition(sh.status, target)
              /\ LET result == Finalized([sh EXCEPT !.cod = priced.cod], priced.bill, target, waive)
                 IN  sh' = result.row /\ bill' = result.bill
              /\ claim' = IF action = "ACCEPT_WEIGHT" THEN DisputeAfter(bill, priced.bill)
                          ELSE claim
              /\ waived' = (waived \/ waive)
    /\ UNCHANGED <<appt, moved>>

(******************************* staff updates *****************************)

\* A cancel after pickup becomes a return to origin.
CancelConverted(target) ==
    IF target = "CANCELLED" /\ AfterPickup THEN "RTO_INITIATED" ELSE target

\* Mutant: any allowed transition leaves a hold.
ExitAllowedAny(target) == TRUE

\* _assert_exception_exit: back to the stage the parcel was held from.
ExitAllowed(target) ==
    \/ target \in {"RTO_INITIATED", "CANCELLED", "LOST"}
    \/ target = Resume
    \/ Resume = "IN_TRANSIT" /\ target = "OUT_FOR_DELIVERY"

\* Mutant: a found parcel is not billed again.
StatusBillNoRebill(target) ==
    CASE target = "RTO_INITIATED" -> RtoCharged(bill, sh.cod, FALSE)
      [] target \in FullRefund -> RefundedToZero(bill)
      [] target = "LOST" -> RefundedLost(bill)
      [] OTHER -> bill

\* The charges of a status change: a found parcel is billed again before its return is
\* charged; cancelled, refused and lost ones are refunded.
StatusBill(target) ==
    LET found == IF sh.status = "LOST" THEN Repriced(bill, sh.cod, target) ELSE bill
    IN  CASE target = "RTO_INITIATED" -> RtoCharged(found, sh.cod, FALSE)
          [] target \in FullRefund -> RefundedToZero(found)
          [] target = "LOST" -> RefundedLost(found)
          [] OTHER -> found

\* What a PATCH of the status by an owner or admin is checked for.  "override" are the exits
\* from a hold that the merchant is never offered before pickup.
PatchAccepted(target) ==
    /\ sh.status \notin Terminal
    /\ target \notin {"EXCEPTION", sh.status} /\ ValidTransition(sh.status, target)
    /\ ~(sh.status = "ASSIGNED" /\ target = "IN_TRANSIT" /\ sh.pur \in OpenPur)
    /\ sh.status = "EXCEPTION" =>
          /\ ExitAllowed(target)
          /\ target \in {"RTO_INITIATED", "LOST"} /\ ~IsPickedUp(sh.held) => "override" \in Ops
    /\ target = "COMPLETED" => sh.otp

PatchStatus(requested) ==
    LET target == CancelConverted(requested)
    IN  /\ "patch" \in Ops /\ PatchAccepted(target)
        /\ sh' = LET row == Cleared(sh, target)
                 IN  IF target \in FullRefund THEN Released(row) ELSE row
        /\ bill' = StatusBill(target)
        /\ moved' = (moved \/ (target \in OnTheWay /\ sh.status # "EXCEPTION"))
        /\ UNCHANGED <<claim, appt, waived>>

\* Mutant: a delivered or returned parcel can be cancelled.
CancelShipmentAnyStatus ==
    /\ "cancel" \in Ops /\ AfterPickup
    /\ sh' = Cleared(sh, "RTO_INITIATED")
    /\ bill' = RtoCharged(bill, sh.cod, FALSE)
    /\ UNCHANGED <<claim, appt, moved, waived>>

\* POST /cancel by the merchant or an admin; no transition is validated on the way to RTO.
CancelShipment ==
    /\ "cancel" \in Ops /\ sh.status \notin Terminal
    /\ \/ /\ AfterPickup
          /\ sh' = Cleared(sh, "RTO_INITIATED")
          /\ bill' = RtoCharged(bill, sh.cod, FALSE)
       \/ /\ ~AfterPickup /\ sh.status \in PrePickup
          /\ sh' = Released([sh EXCEPT !.status = "CANCELLED"])
          /\ bill' = RefundedToZero(bill)
    /\ UNCHANGED <<claim, appt, moved, waived>>

\* record_measurement: the measured freight becomes the basis of the bill.
RecordMeasurement(f) ==
    /\ "measure" \in Ops /\ sh.status \notin FullRefund \cup {"LOST"}
    /\ bill' = Repriced([bill EXCEPT !.fwd = f], sh.cod, sh.status)
    /\ claim' = DisputeAfter(bill, bill')
    /\ UNCHANGED <<sh, appt, moved, waived>>

\* A PATCH that changes a price input; staff may send one until the shipment is terminal.
EditPrice(f) ==
    /\ "edit" \in Ops /\ sh.status \notin Terminal
    /\ sh.status = "LOST" => "editLost" \in Ops
    /\ f # bill.fwd
    /\ bill' = Repriced([bill EXCEPT !.fwd = f], sh.cod, sh.status)
    /\ UNCHANGED <<sh, claim, appt, moved, waived>>

\* COD is editable up to and including In transit, and on hold.
EditCod ==
    /\ "cod" \in Ops /\ sh.status \in PrePickup \cup {"IN_TRANSIT", "EXCEPTION"}
    /\ sh' = [sh EXCEPT !.cod = ~@]
    /\ bill' = Repriced(bill, ~sh.cod, sh.status)
    /\ UNCHANGED <<claim, appt, moved, waived>>

(****************************** weight mismatch ****************************)

RaiseClaim ==
    /\ "claim" \in Ops /\ claim.st = "NONE" /\ claim.diff > 0
    /\ claim' = [claim EXCEPT !.st = "CLAIM_RAISED"]
    /\ UNCHANGED <<sh, bill, appt, moved, waived>>

\* Mutant: the claim is settled at the new quote when that is lower.
ClaimBillUnfloored(f) ==
    LET quote == [bill EXCEPT !.fwd = f, !.wadj = 0, !.leg = QuotedLeg(bill, sh.status),
                              !.fee = QuotedFee(sh.cod, sh.status)]
    IN  Settled(quote, AtMost(QuoteTotal(quote), bill.total))

\* The accepted claim's bill: weight adjustments dropped, never above the old bill and
\* never more than the recorded difference below it.
ClaimBill(f) ==
    LET quote == [bill EXCEPT !.fwd = f, !.wadj = 0, !.leg = QuotedLeg(bill, sh.status),
                              !.fee = QuotedFee(sh.cod, sh.status)]
    IN  Settled(quote, AtLeast(AtMost(QuoteTotal(quote), bill.total),
                               AtLeast(0, bill.total - claim.diff)))

\* A cancelled shipment is not re-priced: the whole request fails and the claim stays.
AcceptClaim(f) ==
    /\ "claim" \in Ops /\ claim.st = "CLAIM_RAISED" /\ sh.status # "CANCELLED"
    /\ sh.status = "LOST" => "claimLost" \in Ops
    /\ claim' = [claim EXCEPT !.st = "ACCEPTED"]
    /\ bill' = ClaimBill(f)
    /\ UNCHANGED <<sh, appt, moved, waived>>

RejectClaim ==
    /\ "claim" \in Ops /\ claim.st = "CLAIM_RAISED"
    /\ claim' = [claim EXCEPT !.st = "REJECTED"]
    /\ UNCHANGED <<sh, bill, appt, moved, waived>>

(*************************** update_appointment ****************************)

\* The unlocked read: an appointment is booked on a hold for APPOINTMENT_NEEDED.
ReadForAppointment ==
    /\ "appointment" \in Ops /\ ~appt.busy
    /\ sh.status = "EXCEPTION" /\ Canonical(sh.reason) = "APPOINTMENT_NEEDED"
    /\ appt' = [busy |-> TRUE, reason |-> sh.reason, linked |-> sh.pur # "NONE", otp |-> sh.otp]
    /\ UNCHANGED <<sh, bill, claim, moved, waived>>

\* The UPDATE writes status and reason over whatever was committed since; held_from is
\* queried at this point.
WriteAppointment ==
    LET resumed == ResumeStatus(appt.reason, sh.type, appt.linked, sh.held)
    IN  /\ appt.busy
        /\ sh' = [sh EXCEPT !.status = resumed, !.reason = NoReason, !.awaiting = FALSE,
                            !.otp = @ \/ (resumed \in OnTheWay /\ ~appt.otp)]
        /\ appt' = NoSnapshot
        /\ UNCHANGED <<bill, claim, moved, waived>>

Next ==
    \/ LinkToPur \/ MarkOutForPickup \/ CancelPur \/ MarkNotPicked
    \/ DispatchPicked \/ DispatchUnpicked
    \/ \E r \in Reasons : RaiseException(r) \/ WorkerHold(r) \/ EditReason(r)
    \/ \E a \in AllowedActions(sh.reason, sh.type, sh.b2b, sh.held) : NdrAction(a)
    \/ \E s \in Statuses : PatchStatus(s)
    \/ CancelShipment
    \/ \E f \in Freight : RecordMeasurement(f) \/ EditPrice(f) \/ AcceptClaim(f)
    \/ EditCod \/ RaiseClaim \/ RejectClaim
    \/ ReadForAppointment \/ WriteAppointment

Spec == Init /\ [][Next]_vars

(******************************** properties *******************************)

\* Rows, bill and dispute are well formed; a refunded booking owes nothing and has no
\* exception open.
TypeOK ==
    /\ sh \in ShipmentRow /\ bill \in Bill /\ claim \in Dispute /\ appt \in Snapshot
    /\ moved \in BOOLEAN /\ waived \in BOOLEAN
    /\ sh.status = "EXCEPTION" => sh.reason # NoReason

\* What the wallet paid for a shipment is its bill, through every re-price, exception
\* charge, return, claim and recovery; a cancelled or refused one is refunded to zero.
\* (services/repricing.py, checked after the fact by services/integrity_audit.py.)
BillSettled ==
    /\ sh.status \in FullRefund => bill.paid = 0 /\ bill.total = 0
    /\ sh.status \notin FullRefund \cup {"LOST"} => bill.paid = bill.total /\ bill.total > 0

\* Whatever is issued, in whatever order, the wallet is never down for more than the bill.
SellerNeverOverpays == bill.paid <= bill.total

\* The RTO leg is booked as RTO_FREIGHT at most once however often the parcel turns back
\* (ONCE_PER_SHIPMENT_TXN_TYPES; the database has a unique index on it).
RtoFreightOnce == bill.rtoRows <= 1

\* A parcel on its way back is billed for the return, unless the courier took the blame.
ReturnIsBilled == sh.status \in RtoStatuses /\ ~waived => bill.leg > 0

\* A return is paid for, and paid for once.
ReturnFreightOnce == RtoFreightOnce /\ ReturnIsBilled

\* A shipment on its way to the buyer carries a delivery OTP, so it can be delivered, and a
\* delivered one was.
OnTheWayHasOtp == sh.status \in OnTheWay \cup {"COMPLETED"} => sh.otp

\* What holds of a shipment whatever is issued to it out of turn: the seller is never down for
\* more than the bill, the return is booked once, a parcel on its way can be delivered.
HoldsOutOfTurn == SellerNeverOverpays /\ RtoFreightOnce /\ OnTheWayHasOtp

\* No shipment rests on hold with its attempts used up: the third failed attempt returns it
\* (or cancels a pickup that keeps failing), except on the return leg and for a reverse
\* parcel already picked up.
AttemptLimit ==
    /\ sh.status = "EXCEPTION" /\ Canonical(sh.reason) \in AttemptCountingReasons
    /\ sh.held \notin RtoLeg
    /\ sh.type = "FORWARD" \/ sh.held \in PrePickup
    => sh.attempts < 3

\* A booking whose freight is refunded in full never left the seller.
RefundedNeverMoved == sh.status \in FullRefund => ~moved

\* "H-6 terminal states. Nothing leaves these."
TerminalStays == [][sh.status \in Terminal => sh'.status = sh.status]_vars

\* A hold ends In transit only for a parcel the courier really has.
ResumeToStage ==
    [][sh.status = "EXCEPTION" /\ sh'.status \in OnTheWay => moved]_vars

\* Accepting a weight claim never takes money, and never gives back more than the
\* difference the measurements caused.
ClaimNeverDebits ==
    [][claim.st = "CLAIM_RAISED" /\ claim'.st = "ACCEPTED"
           => bill'.paid <= bill.paid /\ bill.paid - bill'.paid <= claim.diff]_vars

(************************ the contract it implements ***********************)

StagePlace(status) ==
    CASE status \in PrePickup \cup {NoStatus} -> "seller"
      [] status \in OnTheWay -> "courier"
      [] status \in RtoLeg -> "returning"
      [] status = "COMPLETED" -> "delivered"
      [] status = "RTO_DELIVERED" -> "returned"
      [] status \in FullRefund -> "withdrawn"
      [] OTHER -> "lost"

\* On hold, the parcel is where it was held.
Contract == INSTANCE Custody WITH
    place <- StagePlace(IF sh.status = "EXCEPTION" THEN sh.held ELSE sh.status),
    charged <- bill.paid > 0

\* The status machine, the exceptions and the billing together keep the contract.
KeepsContract == Contract!Spec
=============================================================================
