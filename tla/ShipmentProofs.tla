--------------------------- MODULE ShipmentProofs ---------------------------
(***************************************************************************)
(* Proofs about Shipment for any shipment types, flows, freights, charges, *)
(* reasons and bounds.                                                     *)
(*                                                                         *)
(* Whatever operations users issue, in any order: rows and bills are well  *)
(* formed, the seller is never down for more than the bill, a return is    *)
(* billed and its freight booked once, a parcel on its way has its OTP.    *)
(* The rest needs some operations to stay away, each theorem says which:   *)
(* pickup requests that act on shipments on hold ("purOnHold") and         *)
(* appointments written over what was committed since ("appointment") do   *)
(* break it, as the run shipment_out_of_turn lets them.                    *)
(*                                                                         *)
(* And Shipment implements Custody: every step is a step of the contract   *)
(* or leaves it alone, while nobody acts on a shipment behind its hold, no *)
(* admin overrides an exit before the pickup, and the bill of a lost       *)
(* parcel is left as the refund left it.                                   *)
(***************************************************************************)
EXTENDS Shipment, TLAPS

(******************************** invariants *******************************)

\* A bill the engine quoted, refunded or not.
Sound(b) == b \in Bill /\ b.fwd > 0 /\ b.paid <= b.total /\ b.rtoRows <= 1
Paid(b) == Sound(b) /\ b.paid = b.total /\ b.total > 0
Refunded(b) == Sound(b) /\ b.paid = 0 /\ b.total = 0

\* The return leg stays on the bill of a parcel that has ever been on it.
LegBilled == sh.status \in RtoStatuses \/ sh.held \in RtoLeg => waived \/ bill.leg > 0

\* The OTP an appointment in flight has seen is still there when it writes.
OtpKept == appt.busy /\ appt.otp => sh.otp

AnyInv == TypeOK /\ Sound(bill) /\ LegBilled /\ OnTheWayHasOtp /\ OtpKept

\* Nobody acts on a shipment behind the back of the handler that has it on hold.
InTurn == "purOnHold" \notin Ops /\ "appointment" \notin Ops

\* What is on hold was held from a stage it can return to, and the parcel has moved exactly
\* when that stage is past the pickup.
Whereabouts ==
    /\ sh.status = "EXCEPTION" => sh.held \in {"ASSIGNED"} \cup OnTheWay \cup RtoLeg
    /\ LET stage == IF sh.status = "EXCEPTION" THEN sh.held ELSE sh.status
       IN  /\ stage \in PrePickup \cup FullRefund => ~moved
           /\ stage \in OnTheWay => moved

TurnInv == InTurn /\ AnyInv /\ BillSettled /\ Whereabouts /\ ~appt.busy

(******************************** the bills ********************************)

LEMMA BillFields ==
    ASSUME NEW b \in Bill
    PROVE  /\ b.fwd \in Nat /\ b.leg \in Nat /\ b.fee \in Nat /\ b.extra \in Nat
           /\ b.wadj \in Nat /\ b.total \in Nat /\ b.paid \in Nat /\ b.rtoRows \in Nat
BY DEF Bill

LEMMA FreightPositive == \A f \in Freight : f \in Nat /\ f > 0
BY MoneyAssumption

LEMMA SettledFields ==
    ASSUME NEW q \in Bill, NEW t \in Nat
    PROVE  /\ Settled(q, t) \in Bill /\ Settled(q, t).total = t /\ Settled(q, t).paid = t
           /\ Settled(q, t).fwd = q.fwd /\ Settled(q, t).leg = q.leg
           /\ Settled(q, t).rtoRows = q.rtoRows
BY DEF Settled, Bill

\* Settling a quote pays it, and a quote is never below its freight.
LEMMA SettledQuote ==
    ASSUME NEW q \in Bill, q.fwd > 0, q.rtoRows <= 1
    PROVE  /\ Paid(Settled(q, QuoteTotal(q)))
           /\ Settled(q, QuoteTotal(q)).leg = q.leg /\ Settled(q, QuoteTotal(q)).rtoRows = q.rtoRows
<1>1. QuoteTotal(q) \in Nat /\ QuoteTotal(q) > 0
  BY BillFields DEF QuoteTotal
<1> DEFINE b == Settled(q, QuoteTotal(q))
<1>2. /\ b \in Bill /\ b.total = QuoteTotal(q) /\ b.paid = QuoteTotal(q)
      /\ b.fwd = q.fwd /\ b.leg = q.leg /\ b.rtoRows = q.rtoRows
  BY <1>1, SettledFields
<1> HIDE DEF b
<1>3. Paid(b)
  BY <1>1, <1>2 DEF Paid, Sound
<1> QED BY <1>2, <1>3 DEF b

LEMMA RepricedBill ==
    ASSUME NEW b, Sound(b), NEW cod, NEW status
    PROVE  /\ Paid(Repriced(b, cod, status))
           /\ b.leg > 0 \/ status \in RtoStatuses => Repriced(b, cod, status).leg > 0
<1> DEFINE q == [b EXCEPT !.leg = QuotedLeg(b, status), !.fee = QuotedFee(cod, status)]
<1>1. QuotedLeg(b, status) \in Nat /\ QuotedFee(cod, status) \in Nat
  BY MoneyAssumption DEF QuotedLeg, QuotedFee
<1>2. /\ q \in Bill /\ q.fwd = b.fwd /\ q.rtoRows = b.rtoRows /\ q.leg = QuotedLeg(b, status)
  BY <1>1 DEF Sound, Bill
<1>3. b.leg > 0 \/ status \in RtoStatuses => q.leg > 0
  BY <1>2, MoneyAssumption DEF QuotedLeg
<1>4. Repriced(b, cod, status) = Settled(q, QuoteTotal(q))
  BY DEF Repriced
<1> HIDE DEF q
<1> QED BY <1>2, <1>3, <1>4, SettledQuote DEF Sound

LEMMA CreditedBill ==
    ASSUME NEW b, Sound(b), NEW cod
    PROVE  Sound(CodFeeReversed(b, cod))
<1>1. CASE ~cod
  BY <1>1 DEF CodFeeReversed
<1>2. CASE cod
  <2> DEFINE q == [b EXCEPT !.leg = IF b.leg > 0 THEN RtoCharge ELSE 0, !.fee = 0]
  <2>1. q \in Bill /\ q.fwd = b.fwd /\ q.rtoRows = b.rtoRows
    BY MoneyAssumption DEF Sound, Bill
  <2>2. CodFeeReversed(b, cod) = Settled(q, QuoteTotal(q))
    BY <1>2 DEF CodFeeReversed
  <2> HIDE DEF q
  <2> QED BY <2>1, <2>2, SettledQuote DEF Sound, Paid
<1> QED BY <1>1, <1>2

\* A return is billed and paid, its freight booked at most once.
LEMMA RtoChargedBill ==
    ASSUME NEW b, Sound(b), NEW cod, NEW waive
    PROVE  /\ Paid(RtoCharged(b, cod, waive))
           /\ ~waive => RtoCharged(b, cod, waive).leg > 0
<1> DEFINE credited == CodFeeReversed(b, cod)
           q == [credited EXCEPT !.leg = IF waive THEN 0 ELSE RtoCharge, !.fee = 0]
           after == Settled(q, QuoteTotal(q))
<1>1. Sound(credited)
  BY CreditedBill
<1> HIDE DEF credited
<1>2. /\ q \in Bill /\ q.fwd = credited.fwd /\ q.rtoRows = credited.rtoRows
      /\ q.leg = IF waive THEN 0 ELSE RtoCharge
  BY <1>1, MoneyAssumption DEF Sound, Bill
<1>3. RtoCharged(b, cod, waive) = [after EXCEPT !.rtoRows = RtoRows(credited, after)]
  BY DEF RtoCharged, credited
<1> HIDE DEF q
<1>4. Paid(after) /\ after.leg = q.leg /\ after.rtoRows = credited.rtoRows
  BY <1>1, <1>2, SettledQuote DEF Sound
<1> HIDE DEF after
<1>5. RtoRows(credited, after) \in Nat /\ RtoRows(credited, after) <= 1
  BY <1>1 DEF RtoRows, Sound, Bill
<1> QED BY <1>2, <1>3, <1>4, <1>5, MoneyAssumption DEF Paid, Sound, Bill

LEMMA RefundedBill ==
    ASSUME NEW b, Sound(b)
    PROVE  /\ Refunded(RefundedToZero(b)) /\ RefundedToZero(b).leg = b.leg
           /\ Sound(RefundedLost(b)) /\ RefundedLost(b).paid = 0 /\ RefundedLost(b).leg = b.leg
<1>1. b \in Bill /\ b.fwd \in Nat /\ b.total \in Nat /\ b.rtoRows \in Nat
  BY DEF Sound, Bill
<1>2. /\ RefundedToZero(b) \in Bill /\ RefundedToZero(b).total = 0 /\ RefundedToZero(b).paid = 0
      /\ RefundedToZero(b).fwd = b.fwd /\ RefundedToZero(b).leg = b.leg
      /\ RefundedToZero(b).rtoRows = b.rtoRows
  BY <1>1 DEF RefundedToZero, Bill
<1>3. /\ RefundedLost(b) \in Bill /\ RefundedLost(b).total = b.total /\ RefundedLost(b).paid = 0
      /\ RefundedLost(b).fwd = b.fwd /\ RefundedLost(b).leg = b.leg
      /\ RefundedLost(b).rtoRows = b.rtoRows
  BY <1>1 DEF RefundedLost, Bill
<1> QED BY <1>1, <1>2, <1>3 DEF Refunded, Sound

\* A bill with another freight, extra charge or weight adjustment is as sound.
LEMMA ChangedBill ==
    ASSUME NEW b, Sound(b), NEW f \in Freight
    PROVE  /\ Sound([b EXCEPT !.fwd = f]) /\ [b EXCEPT !.fwd = f].leg = b.leg
           /\ Sound([b EXCEPT !.extra = @ + Charge]) /\ [b EXCEPT !.extra = @ + Charge].leg = b.leg
           /\ Sound([b EXCEPT !.wadj = @ + Charge]) /\ [b EXCEPT !.wadj = @ + Charge].leg = b.leg
BY FreightPositive, MoneyAssumption DEF Sound, Bill

\* Whatever the merchant's answer bills, a paid bill stays paid and a billed return billed.
LEMMA ActionBill ==
    ASSUME Sound(bill), sh.cod \in BOOLEAN, NEW action, NEW priced \in ActionBills(action)
    PROVE  /\ priced.cod \in BOOLEAN /\ Sound(priced.bill)
           /\ Paid(bill) => Paid(priced.bill)
           /\ bill.leg > 0 => priced.bill.leg > 0
<1>1. CASE action = "UPDATE_PAYMENT_MODE"
  BY <1>1, RepricedBill DEF ActionBills, PaymentModeBills, Paid
<1>2. CASE action = "ACKNOWLEDGE_CHARGES"
  <2> DEFINE b == [bill EXCEPT !.extra = @ + Charge]
  <2>1. Sound(b) /\ b.leg = bill.leg
    <3>1. PICK f : f \in Freight
      BY MoneyAssumption
    <3> QED BY <3>1, ChangedBill
  <2>2. priced.cod = sh.cod /\ priced.bill \in {Repriced(b, sh.cod, sh.status), bill}
    BY <1>2 DEF ActionBills, ChargeBills
  <2> HIDE DEF b
  <2> QED BY <2>1, <2>2, RepricedBill DEF Paid
<1>3. CASE action = "ACCEPT_WEIGHT"
  <2>1. PICK b \in {[bill EXCEPT !.fwd = f] : f \in Freight} \cup {[bill EXCEPT !.wadj = @ + Charge]} :
            priced = [cod |-> sh.cod, bill |-> Repriced(b, sh.cod, sh.status)]
    BY <1>3 DEF ActionBills, WeightBills
  <2>2. Sound(b) /\ b.leg = bill.leg
    <3>1. CASE \E f \in Freight : b = [bill EXCEPT !.fwd = f]
      BY <3>1, ChangedBill
    <3>2. PICK f : f \in Freight
      BY MoneyAssumption
    <3>3. CASE b = [bill EXCEPT !.wadj = @ + Charge]
      BY <3>2, <3>3, ChangedBill
    <3> QED BY <2>1, <3>1, <3>3
  <2> QED BY <2>1, <2>2, RepricedBill DEF Paid
<1>4. CASE action = "PARTIAL_DELIVERY"
  BY <1>4, RepricedBill DEF ActionBills, PartialBills, Paid
<1>5. CASE action \notin {"UPDATE_PAYMENT_MODE", "ACKNOWLEDGE_CHARGES", "ACCEPT_WEIGHT", "PARTIAL_DELIVERY"}
  BY <1>5 DEF ActionBills
<1> QED BY <1>1, <1>2, <1>3, <1>4, <1>5

LEMMA StatusBilled ==
    ASSUME Sound(bill), NEW target
    PROVE  /\ Sound(StatusBill(target))
           /\ target = "RTO_INITIATED" => Paid(StatusBill(target)) /\ StatusBill(target).leg > 0
           /\ target \in FullRefund => Refunded(StatusBill(target))
           /\ target = "LOST" => StatusBill(target).paid = 0
           /\ target \notin FullRefund \cup {"LOST"} /\ (Paid(bill) \/ sh.status = "LOST")
                 => Paid(StatusBill(target))
           /\ bill.leg > 0 => StatusBill(target).leg > 0
<1> DEFINE found == IF sh.status = "LOST" THEN Repriced(bill, sh.cod, target) ELSE bill
<1>1. /\ Sound(found)
      /\ Paid(bill) \/ sh.status = "LOST" => Paid(found)
      /\ bill.leg > 0 => found.leg > 0
  BY RepricedBill DEF Paid
<1>2. StatusBill(target) = CASE target = "RTO_INITIATED" -> RtoCharged(found, sh.cod, FALSE)
          [] target \in FullRefund -> RefundedToZero(found)
          [] target = "LOST" -> RefundedLost(found)
          [] OTHER -> found
  BY DEF StatusBill
<1> HIDE DEF found
<1>3. CASE target = "RTO_INITIATED"
  BY <1>1, <1>2, <1>3, RtoChargedBill DEF Paid, FullRefund
<1>4. CASE target \in FullRefund
  BY <1>1, <1>2, <1>4, RefundedBill DEF Refunded, FullRefund
<1>5. CASE target = "LOST"
  BY <1>1, <1>2, <1>5, RefundedBill DEF FullRefund
<1>6. CASE target \notin FullRefund \cup {"LOST", "RTO_INITIATED"}
  BY <1>1, <1>2, <1>6 DEF FullRefund
<1> QED BY <1>3, <1>4, <1>5, <1>6

\* An accepted claim settles the bill at what the claim allows.
LEMMA ClaimedBill ==
    ASSUME Sound(bill), claim.diff \in Nat, NEW f \in Freight
    PROVE  /\ Sound(ClaimBill(f)) /\ ClaimBill(f).paid = ClaimBill(f).total
           /\ bill.total > 0 => ClaimBill(f).total > 0
           /\ bill.total = 0 => ClaimBill(f).total = 0
           /\ ClaimBill(f).total <= bill.total /\ bill.total - ClaimBill(f).total <= claim.diff
           /\ bill.leg > 0 => ClaimBill(f).leg > 0
<1> DEFINE q == [bill EXCEPT !.fwd = f, !.wadj = 0, !.leg = QuotedLeg(bill, sh.status),
                             !.fee = QuotedFee(sh.cod, sh.status)]
           t == AtLeast(AtMost(QuoteTotal(q), bill.total), AtLeast(0, bill.total - claim.diff))
<1>1. QuotedLeg(bill, sh.status) \in Nat /\ QuotedFee(sh.cod, sh.status) \in Nat
      /\ (bill.leg > 0 => QuotedLeg(bill, sh.status) > 0)
  BY MoneyAssumption DEF QuotedLeg, QuotedFee
<1>2. /\ q \in Bill /\ q.fwd = f /\ q.fwd > 0 /\ q.rtoRows = bill.rtoRows
      /\ q.leg = QuotedLeg(bill, sh.status)
  BY <1>1, FreightPositive DEF Sound, Bill
<1>3. ClaimBill(f) = Settled(q, t)
  BY DEF ClaimBill
<1> HIDE DEF q
<1>4. QuoteTotal(q) \in Nat /\ QuoteTotal(q) > 0
  BY <1>2, BillFields DEF QuoteTotal
<1>5. bill.total \in Nat
  BY DEF Sound, Bill
<1>6. /\ t \in Nat /\ (bill.total > 0 => t > 0) /\ (bill.total = 0 => t = 0)
      /\ t <= bill.total /\ bill.total - t <= claim.diff
  BY <1>4, <1>5 DEF AtLeast, AtMost
<1> HIDE DEF t
<1>7. /\ Settled(q, t) \in Bill /\ Settled(q, t).total = t /\ Settled(q, t).paid = t
      /\ Settled(q, t).fwd = q.fwd /\ Settled(q, t).leg = q.leg /\ Settled(q, t).rtoRows = q.rtoRows
  BY <1>2, <1>6, SettledFields
<1> QED BY <1>1, <1>2, <1>3, <1>6, <1>7 DEF Sound

(******************************** the rules ********************************)

LEMMA RowFields ==
    ASSUME NEW row \in ShipmentRow
    PROVE  /\ row.type \in ShipmentTypes /\ row.b2b \in BOOLEAN /\ row.status \in Statuses
           /\ row.reason \in AllReasons \cup {NoReason} /\ row.held \in Statuses \cup {NoStatus}
           /\ row.attempts \in Nat /\ row.awaiting \in BOOLEAN /\ row.pur \in PurStatuses
           /\ row.otp \in BOOLEAN /\ row.cod \in BOOLEAN
BY DEF ShipmentRow

\* A row whose exception is resolved, and one that leaves its pickup request.
LEMMA ClearedRow ==
    ASSUME NEW row \in ShipmentRow, NEW status \in Statuses
    PROVE  LET c == Cleared(row, status)
           IN  /\ c \in ShipmentRow /\ c.status = status /\ c.held = row.held /\ c.pur = row.pur
               /\ c.type = row.type /\ c.attempts = row.attempts
               /\ c.otp = (row.otp \/ status \in OnTheWay)
BY RowFields DEF Cleared, WithOtp, ShipmentRow

LEMMA ReleasedRow ==
    ASSUME NEW row \in ShipmentRow
    PROVE  LET c == Released(row)
           IN  /\ c \in ShipmentRow /\ c.status = row.status /\ c.held = row.held /\ c.pur = "NONE"
               /\ c.type = row.type /\ c.attempts = row.attempts /\ c.otp = row.otp
BY DEF Released, ShipmentRow, PurStatuses

LEMMA OnHoldRow ==
    ASSUME sh \in ShipmentRow, NEW reason \in AllReasons, NEW counted \in BOOLEAN
    PROVE  LET c == OnHold(reason, counted)
           IN  /\ c \in ShipmentRow /\ c.status = "EXCEPTION" /\ c.reason = reason
               /\ c.held = sh.status /\ c.pur = sh.pur /\ c.type = sh.type /\ c.otp = sh.otp
<1> DEFINE n == sh.attempts + (IF counted THEN 1 ELSE 0)
<1>1. n \in Nat
  BY RowFields
<1>2. OnHold(reason, counted) = [sh EXCEPT !.status = "EXCEPTION", !.reason = reason,
                                           !.held = sh.status, !.awaiting = FALSE, !.attempts = n]
  BY DEF OnHold
<1> HIDE DEF n
<1>3. "EXCEPTION" \in Statuses
  BY DEF Statuses
<1> DEFINE c == [sh EXCEPT !.status = "EXCEPTION", !.reason = reason, !.held = sh.status,
                           !.awaiting = FALSE, !.attempts = n]
<1>4. /\ c.type = sh.type /\ c.b2b = sh.b2b /\ c.status = "EXCEPTION" /\ c.reason = reason
      /\ c.held = sh.status /\ c.attempts = n /\ c.awaiting = FALSE /\ c.pur = sh.pur
      /\ c.otp = sh.otp /\ c.cod = sh.cod
  BY DEF ShipmentRow
<1>5. c \in ShipmentRow
  BY <1>1, <1>3, RowFields DEF ShipmentRow
<1> QED BY <1>2, <1>4, <1>5

\* What the transition table lets happen.
LEMMA Transitions ==
    ASSUME NEW current \in Statuses, NEW new \in Statuses, current # new,
           ValidTransition(current, new)
    PROVE  /\ current \notin Terminal
           /\ new = "EXCEPTION" => current \in {"ASSIGNED"} \cup OnTheWay \cup RtoLeg
           /\ new = "RTO_INITIATED" => current \in OnTheWay \cup {"EXCEPTION", "LOST"}
           /\ new = "RTO_IN_TRANSIT" => current \in {"RTO_INITIATED", "EXCEPTION"}
           /\ new = "RTO_DELIVERED" => current \in RtoLeg
           /\ new = "COMPLETED" => current \in OnTheWay
           /\ new \in {"QC_FAILED", "REJECTED_AT_PICKUP"} => current \in PrePickup
           /\ new = "CANCELLED" => current \in PrePickup \cup {"EXCEPTION"}
           /\ new \in OnTheWay => current \in {"ASSIGNED", "EXCEPTION", "LOST"} \cup OnTheWay
           /\ new \in PrePickup => current \in PrePickup \cup {"EXCEPTION"}
           /\ new = "LOST" => current \in OnTheWay \cup RtoLeg \cup {"EXCEPTION"}
BY DEF ValidTransition, Allowed, Statuses, PrePickup, OnTheWay, RtoStatuses, RtoLeg, Terminal

LEMMA Resumes ==
    ASSUME NEW reason, NEW type, NEW linked, NEW held \in Statuses \cup {NoStatus}
    PROVE  LET r == ResumeStatus(reason, type, linked, held)
           IN  /\ r \in {"OPEN", "ASSIGNED", "IN_TRANSIT"} \cup RtoLeg
               /\ r \in RtoLeg => r = held
               /\ held \in PrePickup => r \in PrePickup
               /\ held \in OnTheWay => r = "IN_TRANSIT"
               /\ held \in RtoLeg => r = held
BY DEF ResumeStatus, RtoLeg, PrePickup, OnTheWay, NoStatus

LEMMA Limit ==
    ASSUME NEW reason, NEW type, NEW attempts \in Nat, NEW held
    PROVE  LET forced == AttemptLimitOutcome(reason, type, attempts, held)
           IN  /\ forced \in {NoStatus, "CANCELLED", "RTO_INITIATED"}
               /\ forced = "CANCELLED" => IsPickupStage(reason, type, held)
               /\ forced = "RTO_INITIATED" =>
                     /\ CountsAsAttempt(reason) /\ ~IsPickupStage(reason, type, held)
                     /\ type # "REVERSE" /\ held \notin RtoLeg
BY DEF AttemptLimitOutcome, IsRtoLeg, NoStatus, MaxNdrAttempts

\* Where an answer of the merchant sends a shipment on hold.
LEMMA Targets ==
    ASSUME sh \in ShipmentRow, NEW action
    PROVE  /\ ActionTarget(action) \in
                  {NoStatus, "CANCELLED", "OPEN", "ASSIGNED", "IN_TRANSIT"} \cup RtoLeg
           /\ ActionTarget(action) = "RTO_IN_TRANSIT" => sh.held = "RTO_IN_TRANSIT"
<1>1. Resume \in {"OPEN", "ASSIGNED", "IN_TRANSIT"} \cup RtoLeg /\ (Resume \in RtoLeg => Resume = sh.held)
  BY RowFields, Resumes DEF Resume
<1> DEFINE forced == AttemptLimitOutcome(sh.reason, sh.type, sh.attempts, sh.held)
<1>2. forced \in {NoStatus, "CANCELLED", "RTO_INITIATED"}
  BY RowFields, Limit
<1>3. ActionTarget(action) \in {NoStatus, "RTO_INITIATED", "CANCELLED", forced, Resume}
  BY DEF ActionTarget
<1> QED BY <1>1, <1>2, <1>3 DEF RtoLeg, NoStatus

LEMMA StatusKinds ==
    /\ RtoLeg \subseteq Statuses /\ OnTheWay \subseteq Statuses /\ PrePickup \subseteq Statuses
    /\ {"CANCELLED", "EXCEPTION", "LOST", "OPEN", "ASSIGNED", "IN_TRANSIT"} \subseteq Statuses
    /\ NoStatus \notin Statuses /\ RtoLeg \subseteq RtoStatuses
BY DEF RtoLeg, OnTheWay, PrePickup, Statuses, RtoStatuses, NoStatus, Terminal

\* The outcome of an answer: the parcel where it is sent, the bill that goes with it.
LEMMA FinalizedRow ==
    ASSUME NEW row \in ShipmentRow, NEW b, Sound(b), NEW waive,
           NEW target \in Statuses \cup {NoStatus}
    PROVE  LET result == Finalized(row, b, target, waive)
           IN  /\ result.row \in ShipmentRow /\ Sound(result.bill)
               /\ result.row.held = row.held /\ result.row.type = row.type
               /\ result.row.attempts = row.attempts
               /\ target # NoStatus => result.row.status = target
               /\ target = NoStatus => result.row.status = row.status /\ result.row.reason = row.reason
               /\ result.row.otp = (row.otp \/ target \in OnTheWay)
               /\ target = "CANCELLED" => Refunded(result.bill)
               /\ target = "RTO_INITIATED" => Paid(result.bill) /\ (~waive => result.bill.leg > 0)
               /\ target # "RTO_INITIATED" => result.bill.leg = b.leg
               /\ target \notin {"CANCELLED", "RTO_INITIATED"} => result.bill = b
<1>1. CASE target = NoStatus
  BY <1>1, RowFields DEF Finalized, ShipmentRow, OnTheWay, NoStatus
<1>2. CASE target = "CANCELLED"
  <2>1. Finalized(row, b, target, waive) = [row |-> Released(Cleared(row, target)), bill |-> RefundedToZero(b)]
    BY <1>2 DEF Finalized, NoStatus
  <2>2. target \in Statuses /\ target \notin OnTheWay
    BY <1>2, StatusKinds DEF OnTheWay
  <2> QED BY <1>2, <2>1, <2>2, ClearedRow, ReleasedRow, RefundedBill DEF Refunded, NoStatus
<1>3. CASE target = "RTO_INITIATED"
  <2>1. Finalized(row, b, target, waive) = [row |-> Cleared(row, target), bill |-> RtoCharged(b, row.cod, waive)]
    BY <1>3 DEF Finalized, NoStatus
  <2>2. target \in Statuses
    BY <1>3, StatusKinds DEF RtoLeg
  <2> QED BY <1>3, <2>1, <2>2, ClearedRow, RtoChargedBill DEF Paid, NoStatus
<1>4. CASE target \notin {NoStatus, "CANCELLED", "RTO_INITIATED"}
  <2>1. Finalized(row, b, target, waive) = [row |-> Cleared(row, target), bill |-> b]
    BY <1>4 DEF Finalized
  <2> QED BY <1>4, <2>1, ClearedRow
<1> QED BY <1>1, <1>2, <1>3, <1>4

\* The attempt limit, on a shipment just put on hold.
LEMMA LimitedRow ==
    ASSUME NEW row \in ShipmentRow, Sound(bill)
    PROVE  LET result == LimitEnforced(row)
               forced == AttemptLimitOutcome(row.reason, row.type, row.attempts, row.held)
           IN  /\ result.row \in ShipmentRow /\ Sound(result.bill) /\ result.row.held = row.held
               /\ result.row.otp = row.otp /\ result.row.type = row.type
               /\ forced = NoStatus => result.row = row /\ result.bill = bill
               /\ forced # NoStatus => result.row.status = forced
               /\ forced = "CANCELLED" => Refunded(result.bill) /\ result.bill.leg = bill.leg
               /\ forced = "RTO_INITIATED" => Paid(result.bill) /\ result.bill.leg > 0
<1> DEFINE forced == AttemptLimitOutcome(row.reason, row.type, row.attempts, row.held)
<1>1. forced \in {NoStatus, "CANCELLED", "RTO_INITIATED"}
  BY RowFields, Limit
<1>2. LimitEnforced(row) =
        CASE forced = NoStatus -> [row |-> row, bill |-> bill]
          [] forced = "CANCELLED" -> [row |-> Released(Cleared(row, "CANCELLED")),
                                      bill |-> RefundedToZero(bill)]
          [] OTHER -> [row |-> Cleared(row, "RTO_INITIATED"),
                       bill |-> RtoCharged(bill, row.cod, FALSE)]
  BY DEF LimitEnforced
<1>3. CASE forced = NoStatus
  BY <1>2, <1>3 DEF NoStatus
<1>4. CASE forced = "CANCELLED"
  <2>1. LimitEnforced(row) = [row |-> Released(Cleared(row, "CANCELLED")), bill |-> RefundedToZero(bill)]
    BY <1>2, <1>4 DEF NoStatus
  <2>2. "CANCELLED" \in Statuses /\ "CANCELLED" \notin OnTheWay
    BY StatusKinds DEF OnTheWay
  <2> DEFINE c == Released(Cleared(row, "CANCELLED"))
             b == RefundedToZero(bill)
  <2>3. /\ c \in ShipmentRow /\ c.status = "CANCELLED" /\ c.held = row.held /\ c.type = row.type
        /\ c.otp = (row.otp \/ FALSE)
    BY <2>2, ClearedRow, ReleasedRow
  <2>4. Refunded(b) /\ b.leg = bill.leg
    BY RefundedBill
  <2> HIDE DEF c, b
  <2>5. LimitEnforced(row).row = c /\ LimitEnforced(row).bill = b
    BY <2>1 DEF b, c
  <2>6. c.otp = row.otp
    BY <2>3, RowFields
  <2> QED BY <1>4, <2>3, <2>4, <2>5, <2>6 DEF Refunded, NoStatus
<1>5. CASE forced = "RTO_INITIATED"
  <2>1. LimitEnforced(row) = [row |-> Cleared(row, "RTO_INITIATED"), bill |-> RtoCharged(bill, row.cod, FALSE)]
    BY <1>2, <1>5 DEF NoStatus
  <2>2. "RTO_INITIATED" \in Statuses /\ "RTO_INITIATED" \notin OnTheWay
    BY StatusKinds DEF OnTheWay, RtoLeg
  <2> DEFINE c == Cleared(row, "RTO_INITIATED")
             b == RtoCharged(bill, row.cod, FALSE)
  <2>3. /\ c \in ShipmentRow /\ c.status = "RTO_INITIATED" /\ c.held = row.held /\ c.type = row.type
        /\ c.otp = (row.otp \/ FALSE)
    BY <2>2, ClearedRow
  <2>4. Paid(b) /\ b.leg > 0
    BY RtoChargedBill
  <2> HIDE DEF c, b
  <2>5. LimitEnforced(row).row = c /\ LimitEnforced(row).bill = b
    BY <2>1 DEF b, c
  <2>6. c.otp = row.otp
    BY <2>3, RowFields
  <2> QED BY <1>5, <2>3, <2>4, <2>5, <2>6 DEF Paid, NoStatus
<1> QED BY <1>1, <1>3, <1>4, <1>5

LEMMA DisputeType ==
    ASSUME claim \in Dispute, NEW old \in Bill, NEW new \in Bill
    PROVE  DisputeAfter(old, new) \in Dispute
<1>1. /\ claim.cost \in Nat /\ claim.diff \in Nat
      /\ old.total \in Nat /\ new.total \in Nat
  BY BillFields DEF Dispute
<1>2. /\ AtLeast(0, new.total - (claim.cost - claim.diff)) \in Nat
      /\ AtLeast(0, new.total - old.total) \in Nat
  BY <1>1 DEF AtLeast
<1> DEFINE grown == [claim EXCEPT !.cost = new.total,
                                  !.diff = AtLeast(0, new.total - (claim.cost - claim.diff))]
           opened == [st |-> "NONE", cost |-> new.total, diff |-> AtLeast(0, new.total - old.total)]
<1>3. grown \in Dispute /\ opened \in Dispute
  BY <1>1, <1>2 DEF Dispute
<1>4. DisputeAfter(old, new) \in {claim, grown, opened}
  BY DEF DisputeAfter
<1> QED BY <1>3, <1>4

(*********************** any operation, in any order ***********************)

\* What a step may do to a shipment, whoever takes it.
LEMMA AnyFrom ==
    ASSUME AnyInv, sh' \in ShipmentRow, Sound(bill'), claim' \in Dispute, appt' \in Snapshot,
           moved' \in BOOLEAN, waived' \in BOOLEAN,
           sh'.status = "EXCEPTION" => sh'.reason # NoReason,
           waived => waived', bill.leg > 0 => bill'.leg > 0 \/ waived',
           sh'.status \in RtoStatuses =>
              sh.status \in RtoStatuses \/ sh.held \in RtoLeg \/ bill'.leg > 0 \/ waived',
           sh'.held \in RtoLeg => sh.held \in RtoLeg \/ sh.status \in RtoStatuses,
           sh'.status \in OnTheWay \cup {"COMPLETED"} => sh'.otp,
           sh.otp => sh'.otp,
           appt'.busy /\ appt'.otp => (appt.busy /\ appt.otp) \/ sh'.otp
    PROVE  AnyInv'
BY DEF AnyInv, TypeOK, LegBilled, OnTheWayHasOtp, OtpKept, Sound

LEMMA PurAny ==
    ASSUME AnyInv,
           LinkToPur \/ MarkOutForPickup \/ CancelPur \/ MarkNotPicked \/ DispatchPicked \/ DispatchUnpicked
    PROVE  AnyInv'
<1>1. sh \in ShipmentRow /\ moved \in BOOLEAN /\ waived \in BOOLEAN /\ claim \in Dispute
      /\ appt \in Snapshot /\ (sh.status = "EXCEPTION" => sh.reason # NoReason) /\ OnTheWayHasOtp
  BY DEF AnyInv, TypeOK
<1>2. UNCHANGED <<bill, claim, appt, waived>> /\ moved' \in BOOLEAN
  BY <1>1 DEF LinkToPur, MarkOutForPickup, CancelPur, MarkNotPicked, DispatchPicked, DispatchUnpicked
<1>3. Sound(bill')
  BY <1>2 DEF AnyInv
<1>4. /\ "OPEN" \in Statuses /\ "ASSIGNED" \in Statuses /\ "IN_TRANSIT" \in Statuses
      /\ {"OPEN", "ASSIGNED"} \cap (OnTheWay \cup RtoStatuses \cup {"COMPLETED", "EXCEPTION"}) = {}
      /\ "IN_TRANSIT" \notin RtoStatuses /\ NoStatus \notin RtoLeg
  BY DEF Statuses, PrePickup, OnTheWay, RtoStatuses, RtoLeg, NoStatus
<1>5. CASE LinkToPur
  <2>1. sh' = [sh EXCEPT !.status = "ASSIGNED", !.pur = "SCHEDULED"]
    BY <1>5 DEF LinkToPur
  <2>2. sh' \in ShipmentRow /\ sh'.status = "ASSIGNED" /\ sh'.held = sh.held /\ sh'.otp = sh.otp
    BY <1>1, <1>4, <2>1 DEF ShipmentRow, PurStatuses
  <2> QED BY <1>1, <1>2, <1>3, <1>4, <2>2, AnyFrom
<1>6. CASE MarkOutForPickup
  <2>1. sh' = [sh EXCEPT !.pur = "OUT_FOR_PICKUP"]
    BY <1>6 DEF MarkOutForPickup
  <2>2. /\ sh' \in ShipmentRow /\ sh'.status = sh.status /\ sh'.held = sh.held /\ sh'.otp = sh.otp
        /\ sh'.reason = sh.reason
    BY <1>1, <2>1 DEF ShipmentRow, PurStatuses
  <2> QED BY <1>1, <1>2, <1>3, <2>2, AnyFrom DEF OnTheWayHasOtp
<1>7. CASE CancelPur \/ MarkNotPicked
  <2>1. /\ ReleasedByPur \in ShipmentRow /\ ReleasedByPur.status \in {sh.status, "OPEN"}
        /\ ReleasedByPur.held = sh.held /\ ReleasedByPur.otp = sh.otp
        /\ ReleasedByPur.reason = sh.reason
    BY <1>1, <1>4 DEF ReleasedByPur, ShipmentRow, PurStatuses
  <2>2. /\ sh' \in ShipmentRow /\ sh'.status \in {sh.status, "OPEN"} /\ sh'.held \in {sh.held, NoStatus}
        /\ sh'.otp = sh.otp /\ sh'.reason = sh.reason
    BY <1>7, <2>1 DEF CancelPur, MarkNotPicked, ShipmentRow
  <2> QED BY <1>1, <1>2, <1>3, <1>4, <2>2, AnyFrom DEF OnTheWayHasOtp
<1>8. CASE DispatchPicked
  <2>1. sh' = [sh EXCEPT !.pur = "PICKED", !.otp = TRUE,
                         !.status = IF @ \in PrePickup THEN "IN_TRANSIT" ELSE @]
    BY <1>8 DEF DispatchPicked
  <2>2. /\ sh' \in ShipmentRow /\ sh'.status \in {sh.status, "IN_TRANSIT"} /\ sh'.held = sh.held
        /\ sh'.otp = TRUE /\ sh'.reason = sh.reason
    BY <1>1, <1>4, <2>1 DEF ShipmentRow, PurStatuses
  <2> QED BY <1>1, <1>2, <1>3, <1>4, <2>2, AnyFrom
<1>9. CASE DispatchUnpicked
  <2>1. sh' = [sh EXCEPT !.pur = "NONE", !.status = "OPEN"]
    BY <1>9 DEF DispatchUnpicked
  <2>2. /\ sh' \in ShipmentRow /\ sh'.status = "OPEN" /\ sh'.held = sh.held /\ sh'.otp = sh.otp
    BY <1>1, <1>4, <2>1 DEF ShipmentRow, PurStatuses
  <2> QED BY <1>1, <1>2, <1>3, <1>4, <2>2, AnyFrom
<1> QED BY <1>5, <1>6, <1>7, <1>8, <1>9

LEMMA RaiseAny ==
    ASSUME AnyInv, NEW reason \in Reasons, RaiseException(reason)
    PROVE  AnyInv'
<1> DEFINE row == OnHold(reason, CountsAsAttempt(reason))
           forced == AttemptLimitOutcome(row.reason, row.type, row.attempts, row.held)
<1>1. sh \in ShipmentRow /\ reason \in AllReasons /\ Sound(bill) /\ CountsAsAttempt(reason) \in BOOLEAN
  BY InputAssumption DEF AnyInv, TypeOK, CountsAsAttempt
<1>2. /\ row \in ShipmentRow /\ row.status = "EXCEPTION" /\ row.reason = reason
      /\ row.held = sh.status /\ row.otp = sh.otp
  BY <1>1, OnHoldRow
<1>3. sh' = LimitEnforced(row).row /\ bill' = LimitEnforced(row).bill
      /\ UNCHANGED <<claim, appt, moved, waived>>
  BY DEF RaiseException
<1>4. row.attempts \in Nat
  BY <1>2, RowFields
<1> HIDE DEF row
<1>5. forced \in {NoStatus, "CANCELLED", "RTO_INITIATED"}
  BY <1>4, Limit
<1>6. /\ sh' \in ShipmentRow /\ Sound(bill') /\ sh'.held = sh.status /\ sh'.otp = sh.otp
      /\ forced = NoStatus => sh' = row /\ bill' = bill
      /\ forced # NoStatus => sh'.status = forced
      /\ forced = "CANCELLED" => bill'.leg = bill.leg
      /\ forced = "RTO_INITIATED" => bill'.leg > 0
  BY <1>1, <1>2, <1>3, LimitedRow
<1> HIDE DEF forced
<1>7. /\ sh'.status = "EXCEPTION" => sh'.reason # NoReason
      /\ sh'.status \in RtoStatuses => bill'.leg > 0
      /\ sh'.status \notin OnTheWay \cup {"COMPLETED"}
  BY <1>1, <1>2, <1>5, <1>6 DEF NoReason, AllReasons, AttemptCountingReasons, DeliveryAttemptReasons,
     ChargeReasons, LiabilityReasons, RtoStatuses, RtoLeg, OnTheWay, NoStatus
<1>8. bill.leg > 0 => bill'.leg > 0
  BY <1>5, <1>6
<1>9. sh'.held \in RtoLeg => sh.status \in RtoStatuses
  BY <1>6, StatusKinds
<1> QED BY <1>3, <1>6, <1>7, <1>8, <1>9, AnyFrom DEF AnyInv, TypeOK

LEMMA HoldAny ==
    ASSUME AnyInv, NEW reason \in Reasons, WorkerHold(reason) \/ EditReason(reason)
    PROVE  AnyInv'
<1>1. sh \in ShipmentRow /\ reason \in AllReasons /\ reason # NoReason
  BY InputAssumption DEF AnyInv, TypeOK, NoReason, AllReasons, AttemptCountingReasons,
     DeliveryAttemptReasons, ChargeReasons, LiabilityReasons
<1>2. UNCHANGED <<bill, claim, appt, moved, waived>>
  BY DEF WorkerHold, EditReason
<1>3. "EXCEPTION" \notin OnTheWay \cup {"COMPLETED"} /\ "EXCEPTION" \notin RtoStatuses
  BY DEF OnTheWay, RtoStatuses, RtoLeg
<1>4. CASE WorkerHold(reason)
  <2>1. sh' = OnHold(reason, FALSE)
    BY <1>4 DEF WorkerHold
  <2>2. /\ sh' \in ShipmentRow /\ sh'.status = "EXCEPTION" /\ sh'.reason = reason
        /\ sh'.held = sh.status /\ sh'.otp = sh.otp
    BY <1>1, <2>1, OnHoldRow
  <2> QED BY <1>1, <1>2, <1>3, <2>2, StatusKinds, AnyFrom DEF AnyInv, TypeOK
<1>5. CASE EditReason(reason)
  <2>1. sh' = [sh EXCEPT !.reason = reason] /\ sh.status = "EXCEPTION"
    BY <1>5 DEF EditReason
  <2>2. /\ sh' \in ShipmentRow /\ sh'.status = "EXCEPTION" /\ sh'.reason = reason
        /\ sh'.held = sh.held /\ sh'.otp = sh.otp
    BY <1>1, <2>1 DEF ShipmentRow
  <2> QED BY <1>1, <1>2, <1>3, <2>2, AnyFrom DEF AnyInv, TypeOK
<1> QED BY <1>4, <1>5

\* The answer of the merchant, with the bill it leaves before its outcome.
LEMMA NdrParts ==
    ASSUME AnyInv, NEW action, NdrAction(action)
    PROVE  \E priced \in ActionBills(action), waive \in BOOLEAN :
              LET target == ActionTarget(action)
                  row == [sh EXCEPT !.cod = priced.cod]
                  result == Finalized(row, priced.bill, target, waive)
              IN  /\ sh' = result.row /\ bill' = result.bill /\ waived' = (waived \/ waive)
                  /\ row \in ShipmentRow /\ row.status = sh.status /\ row.held = sh.held
                  /\ row.otp = sh.otp /\ row.reason = sh.reason /\ row.attempts = sh.attempts
                  /\ row.type = sh.type
                  /\ Sound(priced.bill) /\ (Paid(bill) => Paid(priced.bill))
                  /\ bill.leg > 0 => priced.bill.leg > 0
                  /\ target \in Statuses \cup {NoStatus}
                  /\ waive => action = "RETURN_TO_ORIGIN"
                  /\ claim' \in Dispute
<1>1. PICK priced \in ActionBills(action), waive \in BOOLEAN :
          LET target == ActionTarget(action)
              result == Finalized([sh EXCEPT !.cod = priced.cod], priced.bill, target, waive)
          IN  /\ sh' = result.row /\ bill' = result.bill
              /\ claim' = IF action = "ACCEPT_WEIGHT" THEN DisputeAfter(bill, priced.bill) ELSE claim
              /\ waived' = (waived \/ waive)
              /\ waive => action = "RETURN_TO_ORIGIN"
  BY DEF NdrAction
<1>2. sh \in ShipmentRow /\ Sound(bill) /\ claim \in Dispute /\ sh.cod \in BOOLEAN
  BY RowFields DEF AnyInv, TypeOK
<1>3. /\ priced.cod \in BOOLEAN /\ Sound(priced.bill)
      /\ Paid(bill) => Paid(priced.bill)
      /\ bill.leg > 0 => priced.bill.leg > 0
  BY <1>2, ActionBill
<1> DEFINE row == [sh EXCEPT !.cod = priced.cod]
<1>4. /\ row \in ShipmentRow /\ row.status = sh.status /\ row.held = sh.held
      /\ row.otp = sh.otp /\ row.reason = sh.reason /\ row.attempts = sh.attempts
      /\ row.type = sh.type
  BY <1>2, <1>3 DEF ShipmentRow
<1>5. ActionTarget(action) \in Statuses \cup {NoStatus}
  BY <1>2, Targets, StatusKinds
<1>6. claim' \in Dispute
  BY <1>1, <1>2, <1>3, DisputeType DEF Sound
<1> QED BY <1>1, <1>3, <1>4, <1>5, <1>6

LEMMA NdrAny ==
    ASSUME AnyInv, NEW action, NdrAction(action)
    PROVE  AnyInv'
<1>1. PICK priced \in ActionBills(action), waive \in BOOLEAN :
          LET target == ActionTarget(action)
              row == [sh EXCEPT !.cod = priced.cod]
              result == Finalized(row, priced.bill, target, waive)
          IN  /\ sh' = result.row /\ bill' = result.bill /\ waived' = (waived \/ waive)
              /\ row \in ShipmentRow /\ row.status = sh.status /\ row.held = sh.held
              /\ row.otp = sh.otp /\ row.reason = sh.reason
              /\ Sound(priced.bill) /\ (bill.leg > 0 => priced.bill.leg > 0)
              /\ target \in Statuses \cup {NoStatus} /\ claim' \in Dispute
  BY NdrParts
<1> DEFINE target == ActionTarget(action)
           row == [sh EXCEPT !.cod = priced.cod]
<1>2. sh.status = "EXCEPTION" /\ sh.reason # NoReason /\ sh \in ShipmentRow /\ waived \in BOOLEAN
      /\ appt' = appt /\ moved' = moved /\ appt \in Snapshot /\ moved \in BOOLEAN
  BY DEF NdrAction, AnyInv, TypeOK
<1>3. /\ sh' \in ShipmentRow /\ Sound(bill') /\ sh'.held = sh.held
      /\ target # NoStatus => sh'.status = target
      /\ target = NoStatus => sh'.status = sh.status /\ sh'.reason = sh.reason
      /\ sh'.otp = (sh.otp \/ target \in OnTheWay)
      /\ target = "RTO_INITIATED" => (~waive => bill'.leg > 0)
      /\ target # "RTO_INITIATED" => bill'.leg = priced.bill.leg
  <2> HIDE DEF target, row
  <2>1. /\ sh' = Finalized(row, priced.bill, target, waive).row
        /\ bill' = Finalized(row, priced.bill, target, waive).bill
    BY <1>1 DEF target, row
  <2>2. /\ row \in ShipmentRow /\ row.status = sh.status /\ row.held = sh.held
        /\ row.otp = sh.otp /\ row.reason = sh.reason /\ Sound(priced.bill)
        /\ target \in Statuses \cup {NoStatus}
    BY <1>1 DEF target, row
  <2> QED BY <2>1, <2>2, FinalizedRow
<1>4. /\ target \in {NoStatus, "CANCELLED", "OPEN", "ASSIGNED", "IN_TRANSIT"} \cup RtoLeg
      /\ target = "RTO_IN_TRANSIT" => sh.held = "RTO_IN_TRANSIT"
  BY <1>2, Targets
<1> HIDE DEF target, row
<1>5. /\ sh'.status = "EXCEPTION" => sh'.reason # NoReason
      /\ sh'.status \in RtoStatuses => sh.held \in RtoLeg \/ bill'.leg > 0 \/ waived'
      /\ sh'.status \in OnTheWay \cup {"COMPLETED"} => sh'.otp
  BY <1>1, <1>2, <1>3, <1>4 DEF RtoStatuses, RtoLeg, OnTheWay, NoStatus
<1>6. bill.leg > 0 => bill'.leg > 0 \/ waived'
  BY <1>1, <1>3
<1> QED BY <1>1, <1>2, <1>3, <1>5, <1>6, AnyFrom

\* A status set by staff: what was checked, the row it leaves and the bill.
LEMMA PatchParts ==
    ASSUME AnyInv, NEW requested \in Statuses, PatchStatus(requested)
    PROVE  LET target == CancelConverted(requested)
           IN  /\ target \in Statuses \ {"EXCEPTION", sh.status} /\ PatchAccepted(target)
               /\ sh.status \notin Terminal /\ ValidTransition(sh.status, target)
               /\ sh.status = "EXCEPTION" => ExitAllowed(target)
               /\ sh' \in ShipmentRow /\ sh'.status = target /\ sh'.held = sh.held
               /\ sh'.type = sh.type
               /\ sh'.otp = (sh.otp \/ target \in OnTheWay)
               /\ bill' = StatusBill(target) /\ UNCHANGED <<claim, appt, waived>>
<1> DEFINE target == CancelConverted(requested)
<1>1. target \in Statuses
  BY StatusKinds DEF CancelConverted, RtoLeg
<1>2. sh \in ShipmentRow
  BY DEF AnyInv, TypeOK
<1>3. /\ PatchAccepted(target) /\ bill' = StatusBill(target) /\ UNCHANGED <<claim, appt, waived>>
      /\ sh' \in {Cleared(sh, target), Released(Cleared(sh, target))}
  BY DEF PatchStatus
<1> HIDE DEF target
<1>4. /\ target \notin {"EXCEPTION", sh.status} /\ ValidTransition(sh.status, target)
      /\ sh.status \notin Terminal /\ (sh.status = "EXCEPTION" => ExitAllowed(target))
  BY <1>3 DEF PatchAccepted
<1> DEFINE c == Cleared(sh, target)
<1>5. /\ c \in ShipmentRow /\ c.status = target /\ c.held = sh.held /\ c.type = sh.type
      /\ c.otp = (sh.otp \/ target \in OnTheWay)
  BY <1>1, <1>2, ClearedRow
<1> HIDE DEF c
<1>6. /\ Released(c) \in ShipmentRow /\ Released(c).status = target /\ Released(c).held = sh.held
      /\ Released(c).type = sh.type /\ Released(c).otp = c.otp
  BY <1>5, ReleasedRow
<1>7. sh' = c \/ sh' = Released(c)
  BY <1>3 DEF c
<1>8. /\ sh' \in ShipmentRow /\ sh'.status = target /\ sh'.held = sh.held /\ sh'.type = sh.type
      /\ sh'.otp = (sh.otp \/ target \in OnTheWay)
  BY <1>5, <1>6, <1>7
<1> QED BY <1>1, <1>3, <1>4, <1>8 DEF target

\* An exit from a hold ends the journey or goes back to the stage of the hold.
LEMMA Exits ==
    ASSUME sh \in ShipmentRow, NEW target, ExitAllowed(target)
    PROVE  /\ target \in RtoLeg => target = "RTO_INITIATED" \/ sh.held \in RtoLeg
           /\ target \in {"RTO_INITIATED", "CANCELLED", "LOST", "OPEN", "ASSIGNED"} \cup RtoLeg \cup OnTheWay
           /\ target \in OnTheWay \cup PrePickup => sh.held \notin RtoLeg
           /\ target \in PrePickup => Resume \in PrePickup
           /\ target \in OnTheWay => Resume = "IN_TRANSIT"
<1>1. Resume \in {"OPEN", "ASSIGNED", "IN_TRANSIT"} \cup RtoLeg /\ (Resume \in RtoLeg => Resume = sh.held)
      /\ (sh.held \in RtoLeg => Resume = sh.held)
  BY RowFields, Resumes DEF Resume
<1> QED BY <1>1 DEF ExitAllowed, RtoLeg, OnTheWay, PrePickup

LEMMA PatchAny ==
    ASSUME AnyInv, NEW requested \in Statuses, PatchStatus(requested)
    PROVE  AnyInv'
<1> DEFINE target == CancelConverted(requested)
<1>1. /\ target \in Statuses \ {"EXCEPTION", sh.status} /\ PatchAccepted(target)
      /\ ValidTransition(sh.status, target)
      /\ sh.status = "EXCEPTION" => ExitAllowed(target)
      /\ sh' \in ShipmentRow /\ sh'.status = target /\ sh'.held = sh.held
      /\ sh'.otp = (sh.otp \/ target \in OnTheWay)
      /\ bill' = StatusBill(target) /\ UNCHANGED <<claim, appt, waived>>
  BY PatchParts
<1>2. moved' \in BOOLEAN
  BY DEF PatchStatus, AnyInv, TypeOK
<1> HIDE DEF target
<1>3. sh \in ShipmentRow /\ sh.status \in Statuses /\ claim \in Dispute /\ appt \in Snapshot
      /\ waived \in BOOLEAN /\ Sound(bill)
  BY RowFields DEF AnyInv, TypeOK
<1>4. /\ Sound(bill') /\ (bill.leg > 0 => bill'.leg > 0)
      /\ target = "RTO_INITIATED" => bill'.leg > 0
  BY <1>1, <1>3, StatusBilled
<1>5. target \in RtoStatuses => target = "RTO_INITIATED" \/ sh.status \in RtoStatuses \/ sh.held \in RtoLeg
  BY <1>1, <1>3, Transitions, Exits DEF RtoStatuses, RtoLeg
<1>6. target = "COMPLETED" => sh.otp
  BY <1>1 DEF PatchAccepted
<1>7. sh'.status \in OnTheWay \cup {"COMPLETED"} => sh'.otp
  BY <1>1, <1>6
<1> QED BY <1>1, <1>2, <1>3, <1>4, <1>5, <1>7, AnyFrom

\* A cancel is a return once the parcel is on its way, and a withdrawal before.
LEMMA CancelParts ==
    ASSUME AnyInv, CancelShipment
    PROVE  /\ sh.status \notin Terminal /\ sh' \in ShipmentRow /\ sh'.held = sh.held
           /\ sh'.otp = sh.otp /\ sh'.type = sh.type
           /\ \/ AfterPickup /\ sh'.status = "RTO_INITIATED" /\ Paid(bill') /\ bill'.leg > 0
              \/ /\ sh.status \in PrePickup /\ sh'.status = "CANCELLED"
                 /\ Refunded(bill') /\ bill'.leg = bill.leg
<1>1. sh \in ShipmentRow /\ Sound(bill) /\ sh.otp \in BOOLEAN
  BY RowFields DEF AnyInv, TypeOK
<1>2. /\ {"CANCELLED", "RTO_INITIATED"} \subseteq Statuses
      /\ "RTO_INITIATED" \notin OnTheWay
  BY StatusKinds DEF OnTheWay, RtoLeg
<1>3. CASE /\ AfterPickup /\ sh' = Cleared(sh, "RTO_INITIATED")
           /\ bill' = RtoCharged(bill, sh.cod, FALSE)
  <2>1. /\ sh' \in ShipmentRow /\ sh'.status = "RTO_INITIATED" /\ sh'.held = sh.held
        /\ sh'.type = sh.type /\ sh'.otp = (sh.otp \/ FALSE)
    BY <1>1, <1>2, <1>3, ClearedRow
  <2>2. Paid(bill') /\ bill'.leg > 0
    BY <1>1, <1>3, RtoChargedBill
  <2> QED BY <1>1, <1>3, <2>1, <2>2 DEF CancelShipment
<1>4. CASE /\ sh.status \in PrePickup /\ sh' = Released([sh EXCEPT !.status = "CANCELLED"])
           /\ bill' = RefundedToZero(bill)
  <2> DEFINE c == [sh EXCEPT !.status = "CANCELLED"]
  <2>1. /\ c \in ShipmentRow /\ c.status = "CANCELLED" /\ c.held = sh.held /\ c.otp = sh.otp
        /\ c.type = sh.type
    BY <1>1, <1>2 DEF ShipmentRow
  <2> HIDE DEF c
  <2>2. sh' = Released(c)
    BY <1>4 DEF c
  <2>3. /\ sh' \in ShipmentRow /\ sh'.status = "CANCELLED" /\ sh'.held = sh.held /\ sh'.otp = sh.otp
        /\ sh'.type = sh.type
    BY <2>1, <2>2, ReleasedRow
  <2>4. Refunded(bill') /\ bill'.leg = bill.leg
    BY <1>1, <1>4, RefundedBill
  <2> QED BY <1>4, <2>3, <2>4 DEF CancelShipment
<1> QED BY <1>3, <1>4 DEF CancelShipment

LEMMA CancelAny ==
    ASSUME AnyInv, CancelShipment
    PROVE  AnyInv'
<1>1. /\ sh' \in ShipmentRow /\ sh'.held = sh.held /\ sh'.otp = sh.otp
      /\ \/ sh'.status = "RTO_INITIATED" /\ Sound(bill') /\ bill'.leg > 0
         \/ sh'.status = "CANCELLED" /\ Sound(bill') /\ bill'.leg = bill.leg
  BY CancelParts DEF Paid, Refunded
<1>2. UNCHANGED <<claim, appt, moved, waived>>
  BY DEF CancelShipment
<1>3. /\ sh'.status # "EXCEPTION" /\ sh'.status \notin OnTheWay \cup {"COMPLETED"}
      /\ sh'.status \in RtoStatuses => bill'.leg > 0
  BY <1>1 DEF OnTheWay, RtoStatuses, RtoLeg
<1> QED BY <1>1, <1>2, <1>3, AnyFrom DEF AnyInv, TypeOK

\* Re-pricing, at a measured or an edited freight or with another COD mode.
LEMMA PriceParts ==
    ASSUME AnyInv, NEW f \in Freight, RecordMeasurement(f) \/ EditPrice(f) \/ EditCod
    PROVE  /\ Paid(bill') /\ (bill.leg > 0 => bill'.leg > 0) /\ claim' \in Dispute
           /\ sh' \in ShipmentRow /\ UNCHANGED <<appt, moved, waived>>
           /\ sh'.status = sh.status /\ sh'.held = sh.held /\ sh'.otp = sh.otp
           /\ sh'.reason = sh.reason /\ sh'.type = sh.type /\ sh'.attempts = sh.attempts
<1>1. sh \in ShipmentRow /\ Sound(bill) /\ claim \in Dispute /\ bill \in Bill
  BY DEF AnyInv, TypeOK
<1>2. CASE RecordMeasurement(f) \/ EditPrice(f)
  <2> DEFINE b == [bill EXCEPT !.fwd = f]
  <2>1. Sound(b) /\ b.leg = bill.leg
    BY <1>1, ChangedBill
  <2>2. bill' = Repriced(b, sh.cod, sh.status) /\ UNCHANGED <<sh, appt, moved, waived>>
    BY <1>2 DEF RecordMeasurement, EditPrice
  <2> HIDE DEF b
  <2>3. Paid(bill') /\ (bill.leg > 0 => bill'.leg > 0)
    BY <2>1, <2>2, RepricedBill
  <2>4. bill' \in Bill
    BY <2>3 DEF Paid, Sound
  <2>5. claim' \in Dispute
    BY <1>1, <1>2, <2>4, DisputeType DEF RecordMeasurement, EditPrice
  <2> QED BY <1>1, <2>2, <2>3, <2>5
<1>3. CASE EditCod
  <2>1. /\ sh' = [sh EXCEPT !.cod = ~@] /\ bill' = Repriced(bill, ~sh.cod, sh.status)
        /\ UNCHANGED <<claim, appt, moved, waived>>
    BY <1>3 DEF EditCod
  <2>2. /\ sh' \in ShipmentRow /\ sh'.status = sh.status /\ sh'.held = sh.held /\ sh'.otp = sh.otp
        /\ sh'.reason = sh.reason /\ sh'.type = sh.type /\ sh'.attempts = sh.attempts
    BY <1>1, <2>1 DEF ShipmentRow
  <2>3. Paid(bill') /\ (bill.leg > 0 => bill'.leg > 0)
    BY <1>1, <2>1, RepricedBill
  <2> QED BY <1>1, <2>1, <2>2, <2>3
<1> QED BY <1>2, <1>3

LEMMA PriceAny ==
    ASSUME AnyInv, NEW f \in Freight, RecordMeasurement(f) \/ EditPrice(f) \/ EditCod
    PROVE  AnyInv'
<1>1. /\ Sound(bill') /\ (bill.leg > 0 => bill'.leg > 0) /\ claim' \in Dispute
      /\ sh' \in ShipmentRow /\ UNCHANGED <<appt, moved, waived>>
      /\ sh'.status = sh.status /\ sh'.held = sh.held /\ sh'.otp = sh.otp /\ sh'.reason = sh.reason
  BY PriceParts DEF Paid
<1> QED BY <1>1, AnyFrom DEF AnyInv, TypeOK, OnTheWayHasOtp

LEMMA ClaimAny ==
    ASSUME AnyInv, NEW f \in Freight, RaiseClaim \/ RejectClaim \/ AcceptClaim(f)
    PROVE  AnyInv'
<1>1. Sound(bill) /\ claim \in Dispute /\ claim.diff \in Nat
  BY DEF AnyInv, TypeOK, Dispute
<1>2. UNCHANGED <<sh, appt, moved, waived>> /\ (bill' = bill \/ bill' = ClaimBill(f))
  BY DEF RaiseClaim, RejectClaim, AcceptClaim
<1>3. Sound(bill') /\ (bill.leg > 0 => bill'.leg > 0)
  BY <1>1, <1>2, ClaimedBill
<1>4. claim' \in Dispute
  BY <1>1 DEF RaiseClaim, RejectClaim, AcceptClaim, Dispute
<1> QED BY <1>2, <1>3, <1>4, AnyFrom DEF AnyInv, TypeOK, OnTheWayHasOtp

LEMMA AppointmentAny ==
    ASSUME AnyInv, ReadForAppointment \/ WriteAppointment
    PROVE  AnyInv'
<1>1. sh \in ShipmentRow /\ appt \in Snapshot /\ sh.otp \in BOOLEAN /\ OtpKept
      /\ sh.held \in Statuses \cup {NoStatus}
  BY RowFields DEF AnyInv, TypeOK
<1>2. CASE ReadForAppointment
  <2>1. /\ UNCHANGED <<sh, bill, claim, moved, waived>>
        /\ appt' = [busy |-> TRUE, reason |-> sh.reason, linked |-> sh.pur # "NONE", otp |-> sh.otp]
    BY <1>2 DEF ReadForAppointment
  <2>2. appt' \in Snapshot /\ appt'.otp = sh.otp
    BY <1>1, <2>1, RowFields DEF Snapshot
  <2> QED BY <2>1, <2>2, AnyFrom DEF AnyInv, TypeOK, OnTheWayHasOtp
<1>3. CASE WriteAppointment
  <2> DEFINE resumed == ResumeStatus(appt.reason, sh.type, appt.linked, sh.held)
  <2>1. /\ resumed \in {"OPEN", "ASSIGNED", "IN_TRANSIT"} \cup RtoLeg
        /\ resumed \in RtoLeg => resumed = sh.held
    BY <1>1, Resumes
  <2>2. /\ appt.busy /\ appt' = NoSnapshot /\ UNCHANGED <<bill, claim, moved, waived>>
        /\ sh' = [sh EXCEPT !.status = resumed, !.reason = NoReason, !.awaiting = FALSE,
                            !.otp = @ \/ (resumed \in OnTheWay /\ ~appt.otp)]
    BY <1>3 DEF WriteAppointment
  <2> HIDE DEF resumed
  <2>3. resumed \in Statuses
    BY <2>1, StatusKinds
  <2>4. /\ sh' \in ShipmentRow /\ sh'.status = resumed /\ sh'.held = sh.held
        /\ sh'.otp = (sh.otp \/ (resumed \in OnTheWay /\ ~appt.otp))
    BY <1>1, <2>2, <2>3 DEF ShipmentRow
  <2>5. appt' \in Snapshot /\ ~appt'.busy
    BY <2>2 DEF NoSnapshot, Snapshot
  <2>6. /\ sh'.status # "EXCEPTION"
        /\ sh'.status \in RtoStatuses => sh.held \in RtoLeg
        /\ sh'.status \in OnTheWay \cup {"COMPLETED"} => resumed \in OnTheWay
    BY <2>1, <2>4 DEF RtoLeg, RtoStatuses, OnTheWay
  <2>7. appt.otp \in BOOLEAN /\ (appt.otp => sh.otp)
    BY <1>1, <2>2 DEF Snapshot, OtpKept
  <2>8. (resumed \in OnTheWay => sh'.otp) /\ (sh.otp => sh'.otp)
    BY <1>1, <2>4, <2>7
  <2> QED BY <2>2, <2>4, <2>5, <2>6, <2>8, AnyFrom DEF AnyInv, TypeOK
<1> QED BY <1>2, <1>3

LEMMA AnyInit == Init => AnyInv
<1> SUFFICES ASSUME Init PROVE AnyInv
  OBVIOUS
<1>1. PICK type \in Types, b2b \in Flows, f \in Freight, cod \in BOOLEAN :
          LET b == [fwd |-> f, leg |-> 0, fee |-> QuotedFee(cod, "OPEN"), extra |-> 0,
                    wadj |-> 0, total |-> 0, paid |-> 0, rtoRows |-> 0]
          IN  /\ bill = Settled(b, QuoteTotal(b))
              /\ sh = [type |-> type, b2b |-> b2b, status |-> "OPEN", reason |-> NoReason,
                       held |-> NoStatus, attempts |-> 0, awaiting |-> FALSE, pur |-> "NONE",
                       otp |-> FALSE, cod |-> cod]
  BY DEF Init
<1> DEFINE b == [fwd |-> f, leg |-> 0, fee |-> QuotedFee(cod, "OPEN"), extra |-> 0,
                 wadj |-> 0, total |-> 0, paid |-> 0, rtoRows |-> 0]
<1>2. b \in Bill /\ b.fwd > 0 /\ b.rtoRows <= 1
  BY MoneyAssumption DEF Bill, QuotedFee
<1> HIDE DEF b
<1>3. Paid(bill)
  BY <1>1, <1>2, SettledQuote DEF b
<1>4. /\ sh \in ShipmentRow /\ sh.status = "OPEN" /\ sh.held = NoStatus
  BY <1>1, BookingAssumption, StatusKinds DEF ShipmentRow, PurStatuses
<1>5. /\ "OPEN" \notin OnTheWay \cup {"COMPLETED", "EXCEPTION"} /\ "OPEN" \notin RtoStatuses
      /\ NoStatus \notin RtoLeg
  BY StatusKinds DEF OnTheWay, RtoStatuses, RtoLeg
<1>6. claim \in Dispute /\ appt \in Snapshot /\ ~appt.busy /\ moved = FALSE /\ waived = FALSE
  BY DEF Init, NoDispute, Dispute, NoSnapshot, Snapshot
<1> QED BY <1>3, <1>4, <1>5, <1>6 DEF AnyInv, TypeOK, Paid, Sound, LegBilled, OnTheWayHasOtp, OtpKept

LEMMA AnyStep == AnyInv /\ [Next]_vars => AnyInv'
<1> SUFFICES ASSUME AnyInv, [Next]_vars PROVE AnyInv'
  OBVIOUS
<1>1. CASE UNCHANGED vars
  BY <1>1 DEF vars, AnyInv, TypeOK, LegBilled, OnTheWayHasOtp, OtpKept
<1>2. CASE Next
  <2>1. PICK f : f \in Freight
    BY MoneyAssumption
  <2> QED BY <1>2, <2>1, PurAny, RaiseAny, HoldAny, NdrAny, PatchAny, CancelAny, PriceAny, ClaimAny,
             AppointmentAny DEF Next
<1> QED BY <1>1, <1>2

\* Rows, bill and dispute stay well formed, and a shipment on hold has its reason, whatever is
\* issued to it and in whatever order.
THEOREM TypeCorrect == Spec => []TypeOK
<1>1. AnyInv => TypeOK
  BY DEF AnyInv
<1> QED BY <1>1, AnyInit, AnyStep, PTL DEF Spec

\* The seller is never down for more than the bill, RTO freight is booked at most once, and a
\* parcel on its way carries its OTP: also with stale appointment writes, re-labelled holds
\* and pickup requests that act on parcels on hold.
THEOREM SafeOutOfTurn == Spec => []HoldsOutOfTurn
<1>1. AnyInv => HoldsOutOfTurn
  BY DEF AnyInv, Sound, HoldsOutOfTurn, SellerNeverOverpays, RtoFreightOnce
<1> QED BY <1>1, AnyInit, AnyStep, PTL DEF Spec

\* A parcel on its way back is billed for the return, unless the courier took the blame, and
\* its RTO freight is booked at most once, whatever is issued.
THEOREM ReturnPaidOnce == Spec => []ReturnFreightOnce
<1>1. AnyInv => ReturnFreightOnce
  BY DEF AnyInv, Sound, LegBilled, ReturnFreightOnce, RtoFreightOnce, ReturnIsBilled
<1> QED BY <1>1, AnyInit, AnyStep, PTL DEF Spec

\* A shipment on its way to the buyer, and a delivered one, has its delivery OTP.
THEOREM OtpOnTheWay == Spec => []OnTheWayHasOtp
<1>1. AnyInv => OnTheWayHasOtp
  BY DEF AnyInv
<1> QED BY <1>1, AnyInit, AnyStep, PTL DEF Spec

(************************** handlers in their turn *************************)

Place == StagePlace(IF sh.status = "EXCEPTION" THEN sh.held ELSE sh.status)

LEMMA Places ==
    ASSUME NEW s \in Statuses \cup {NoStatus}
    PROVE  /\ StagePlace(s) = "seller" <=> s \in PrePickup \cup {NoStatus}
           /\ StagePlace(s) = "courier" <=> s \in OnTheWay
           /\ StagePlace(s) = "returning" <=> s \in RtoLeg
           /\ StagePlace(s) = "delivered" <=> s = "COMPLETED"
           /\ StagePlace(s) = "returned" <=> s = "RTO_DELIVERED"
           /\ StagePlace(s) = "withdrawn" <=> s \in FullRefund
           /\ StagePlace(s) = "lost" <=> s \in {"LOST", "EXCEPTION"}
BY DEF StagePlace, Statuses, NoStatus, PrePickup, OnTheWay, RtoLeg, RtoStatuses, FullRefund, Terminal

\* The ways of a parcel, and the two an admin's override adds before the pickup.
Onward(from, to) ==
    \/ from = to
    \/ from = "seller" /\ to \in {"courier", "withdrawn"}
    \/ from = "courier" /\ to \in {"delivered", "returning", "lost"}
    \/ from = "returning" /\ to \in {"returned", "lost"}
    \/ from = "lost" /\ to \in {"courier", "returning"}
Overridden(from, to) == "override" \in Ops /\ from = "seller" /\ to \in {"returning", "lost"}

\* What every step does: the parcel goes one of its ways, its history follows, the bill is
\* paid or refunded as the place asks, nothing that is over changes, a hold ends on the way to
\* the buyer only for a parcel that was.
Moves ==
    /\ sh'.status = "EXCEPTION" => sh'.held \in {"ASSIGNED"} \cup OnTheWay \cup RtoLeg
    /\ Onward(Place, Place') \/ Overridden(Place, Place')
    /\ Place' \in {"seller", "withdrawn"} => moved' = moved
    /\ Place' = "courier" => moved' \/ (Place = "courier" /\ moved' = moved)
    /\ Place' = "withdrawn" => Refunded(bill')
    /\ Place' \notin {"withdrawn", "lost"} => Paid(bill')
    /\ sh.status \in Terminal => sh'.status = sh.status
    /\ sh.status = "EXCEPTION" /\ sh'.status \in OnTheWay => Place = "courier"
    /\ ~appt'.busy

\* A parcel on hold is where it was held; any other where its status says.
LEMMA TurnPlace ==
    ASSUME TurnInv
    PROVE  /\ sh \in ShipmentRow /\ sh.status \in Statuses /\ sh.held \in Statuses \cup {NoStatus}
           /\ sh.status # "EXCEPTION" => Place = StagePlace(sh.status)
           /\ sh.status = "EXCEPTION" =>
                 Place = StagePlace(sh.held) /\ Place \in {"seller", "courier", "returning"}
           /\ Place = "withdrawn" <=> sh.status \in FullRefund
           /\ Place = "lost" <=> sh.status = "LOST"
           /\ Place = "withdrawn" => Refunded(bill)
           /\ Place \notin {"withdrawn", "lost"} => Paid(bill)
           /\ Place \in {"seller", "withdrawn"} => ~moved
           /\ Place = "courier" => moved
<1>1. sh \in ShipmentRow /\ sh.status \in Statuses /\ sh.held \in Statuses \cup {NoStatus} /\ Sound(bill)
  BY RowFields DEF TurnInv, AnyInv, TypeOK
<1>2. BillSettled /\ Whereabouts
  BY DEF TurnInv
<1>3. "EXCEPTION" \notin FullRefund /\ NoStatus \notin {"ASSIGNED"} \cup OnTheWay \cup RtoLeg
  BY DEF FullRefund, NoStatus, OnTheWay, RtoLeg
<1>4. CASE sh.status = "EXCEPTION"
  <2>1. Place = StagePlace(sh.held) /\ sh.held \in {"ASSIGNED"} \cup OnTheWay \cup RtoLeg
    BY <1>2, <1>4 DEF Place, Whereabouts
  <2>2. Place \in {"seller", "courier", "returning"}
    BY <1>1, <1>3, <2>1, Places DEF PrePickup
  <2>3. /\ Place = "seller" => ~moved
        /\ Place = "courier" => moved
    BY <1>1, <1>2, <1>3, <1>4, <2>1, Places DEF Whereabouts
  <2> QED BY <1>1, <1>2, <1>3, <1>4, <2>1, <2>2, <2>3 DEF BillSettled, Paid
<1>5. CASE sh.status # "EXCEPTION"
  <2>1. Place = StagePlace(sh.status)
    BY <1>5 DEF Place
  <2>2. /\ Place \in {"seller", "withdrawn"} => ~moved
        /\ Place = "courier" => moved
    BY <1>1, <1>2, <1>5, <2>1, Places, StatusKinds DEF Whereabouts
  <2> QED BY <1>1, <1>2, <1>5, <2>1, <2>2, Places DEF BillSettled, Paid, Refunded
<1> QED BY <1>4, <1>5

\* A step that leaves the stage as it is and does not unsettle the bill.
LEMMA StayMoves ==
    ASSUME TurnInv, sh'.status = sh.status, sh'.held = sh.held, moved' = moved, ~appt'.busy,
           sh.status \notin FullRefund \cup {"LOST"} => Paid(bill'),
           sh.status \in FullRefund => Refunded(bill')
    PROVE  Moves
<1>1. Place' = Place
  BY DEF Place
<1>2. sh.status # "EXCEPTION" \/ sh.status \notin OnTheWay
  BY DEF OnTheWay
<1> QED BY <1>1, <1>2, TurnPlace DEF Moves, Onward, TurnInv, Whereabouts

LEMMA PurMoves ==
    ASSUME TurnInv,
           LinkToPur \/ MarkOutForPickup \/ CancelPur \/ MarkNotPicked \/ DispatchPicked \/ DispatchUnpicked
    PROVE  Moves
<1>1. /\ sh \in ShipmentRow /\ UNCHANGED <<bill, claim, appt, waived>> /\ ~appt.busy
      /\ (sh.status \in FullRefund => Refunded(bill))
  BY TurnPlace DEF TurnInv, LinkToPur, MarkOutForPickup, CancelPur, MarkNotPicked, DispatchPicked, DispatchUnpicked
<1>2. CASE MarkOutForPickup
  <2>1. sh'.status = sh.status /\ sh'.held = sh.held /\ moved' = moved
    BY <1>1, <1>2 DEF MarkOutForPickup, ShipmentRow
  <2> QED BY <1>1, <2>1, TurnPlace, StayMoves
<1>3. CASE LinkToPur \/ CancelPur \/ MarkNotPicked \/ DispatchPicked \/ DispatchUnpicked
  <2>1. sh.status \in {"OPEN", "ASSIGNED"}
    BY <1>3 DEF LinkToPur, CancelPur, MarkNotPicked, DispatchPicked, DispatchUnpicked, PurMayAct,
       TurnInv, InTurn
  <2>2. /\ sh'.status \in {"OPEN", "ASSIGNED", "IN_TRANSIT"}
        /\ sh'.status = "IN_TRANSIT" => moved' = TRUE
        /\ sh'.status # "IN_TRANSIT" => moved' = moved
    BY <1>1, <1>3, <2>1 DEF LinkToPur, CancelPur, MarkNotPicked, DispatchPicked, DispatchUnpicked,
       ReleasedByPur, ShipmentRow, PrePickup
  <2>3. Place = "seller"
    BY <2>1, TurnPlace, Places DEF PrePickup
  <2>4. /\ sh'.status \in Statuses \ {"EXCEPTION"} /\ Place' = StagePlace(sh'.status)
    BY <2>2, StatusKinds DEF Place
  <2>5. Place' = IF sh'.status = "IN_TRANSIT" THEN "courier" ELSE "seller"
    BY <2>2, <2>4, Places DEF PrePickup, OnTheWay
  <2>6. Paid(bill')
    BY <1>1, <2>3, TurnPlace
  <2>7. /\ sh.status \notin Terminal /\ sh.status # "EXCEPTION" /\ sh'.status # "EXCEPTION"
        /\ ~appt'.busy
    BY <1>1, <2>1, <2>4 DEF Terminal
  <2>8. /\ Onward(Place, Place') /\ Place' \notin {"withdrawn", "lost"}
        /\ Place' \in {"seller", "withdrawn"} => moved' = moved
        /\ Place' = "courier" => moved'
    BY <2>2, <2>3, <2>5 DEF Onward
  <2> QED BY <2>6, <2>7, <2>8 DEF Moves
<1> QED BY <1>2, <1>3

LEMMA RaiseMoves ==
    ASSUME TurnInv, NEW reason \in Reasons, RaiseException(reason)
    PROVE  Moves
<1> DEFINE row == OnHold(reason, CountsAsAttempt(reason))
           forced == AttemptLimitOutcome(row.reason, row.type, row.attempts, row.held)
<1>1. /\ sh \in ShipmentRow /\ reason \in AllReasons /\ Sound(bill)
      /\ CountsAsAttempt(reason) \in BOOLEAN /\ sh.status \in Statuses
  BY InputAssumption, TurnPlace DEF TurnInv, AnyInv, CountsAsAttempt
<1>2. /\ row \in ShipmentRow /\ row.status = "EXCEPTION" /\ row.reason = reason
      /\ row.held = sh.status
  BY <1>1, OnHoldRow
<1>3. /\ sh' = LimitEnforced(row).row /\ bill' = LimitEnforced(row).bill
      /\ UNCHANGED <<claim, appt, moved, waived>>
      /\ sh.status # "EXCEPTION" /\ ValidTransition(sh.status, "EXCEPTION")
  BY DEF RaiseException
<1>4. row.attempts \in Nat
  BY <1>2, RowFields
<1> HIDE DEF row
<1>5. /\ sh.status \in {"ASSIGNED"} \cup OnTheWay \cup RtoLeg /\ sh.status \notin Terminal
  BY <1>1, <1>3, Transitions, StatusKinds
<1>6. /\ Place = StagePlace(sh.status) /\ Place \in {"seller", "courier", "returning"}
      /\ Place = "seller" <=> sh.status \in PrePickup
      /\ Place = "returning" <=> sh.status \in RtoLeg
  BY <1>1, <1>3, <1>5, TurnPlace, Places, StatusKinds DEF PrePickup
<1>7. /\ forced \in {NoStatus, "CANCELLED", "RTO_INITIATED"}
      /\ forced = "CANCELLED" => IsPickupStage(row.reason, row.type, row.held)
      /\ forced = "RTO_INITIATED" => CountsAsAttempt(row.reason) /\ ~IsPickupStage(row.reason, row.type, row.held)
  BY <1>4, Limit
<1>8. /\ forced = "CANCELLED" => sh.status \in PrePickup
      /\ forced = "RTO_INITIATED" => sh.status \notin PrePickup
  BY <1>1, <1>2, <1>7, StatusKinds DEF IsPickupStage, IsPickedUp
<1>9. /\ forced = NoStatus => sh' = row /\ bill' = bill
      /\ forced # NoStatus => sh'.status = forced
      /\ forced = "CANCELLED" => Refunded(bill')
      /\ forced = "RTO_INITIATED" => Paid(bill')
  BY <1>1, <1>2, <1>3, LimitedRow
<1> HIDE DEF forced
<1>10. CASE forced = NoStatus
  <2>1. sh'.status = "EXCEPTION" /\ sh'.held = sh.status /\ bill' = bill
    BY <1>2, <1>9, <1>10
  <2>2. Place' = Place
    BY <1>3, <2>1 DEF Place
  <2> QED BY <1>3, <1>5, <1>6, <2>1, <2>2, TurnPlace DEF Moves, Onward, OnTheWay, TurnInv
<1>11. CASE forced = "CANCELLED"
  <2>1. sh'.status = "CANCELLED" /\ Place = "seller" /\ Refunded(bill')
    BY <1>6, <1>8, <1>9, <1>11 DEF NoStatus
  <2>2. Place' = "withdrawn"
    BY <2>1, Places, StatusKinds DEF Place, FullRefund
  <2> QED BY <1>3, <1>5, <2>1, <2>2 DEF Moves, Onward, OnTheWay, TurnInv
<1>12. CASE forced = "RTO_INITIATED"
  <2>1. sh'.status = "RTO_INITIATED" /\ Place \in {"courier", "returning"} /\ Paid(bill')
    BY <1>6, <1>8, <1>9, <1>12 DEF NoStatus
  <2>2. Place' = "returning"
    BY <2>1, Places, StatusKinds DEF Place, RtoLeg
  <2> QED BY <1>3, <1>5, <2>1, <2>2 DEF Moves, Onward, OnTheWay, TurnInv
<1> QED BY <1>7, <1>10, <1>11, <1>12 DEF forced

LEMMA HoldMoves ==
    ASSUME TurnInv, NEW reason \in Reasons, WorkerHold(reason) \/ EditReason(reason)
    PROVE  Moves
<1>1. sh \in ShipmentRow /\ reason \in AllReasons /\ ~appt.busy
  BY InputAssumption, TurnPlace DEF TurnInv
<1>2. UNCHANGED <<bill, claim, appt, moved, waived>>
  BY DEF WorkerHold, EditReason
<1>3. CASE WorkerHold(reason)
  <2>1. sh' = OnHold(reason, FALSE) /\ sh.status \in OnTheWay
    BY <1>3 DEF WorkerHold, OnTheWay
  <2>2. sh'.status = "EXCEPTION" /\ sh'.held = sh.status
    BY <1>1, <2>1, OnHoldRow
  <2>3. sh.status # "EXCEPTION" /\ sh.status \notin Terminal
    BY <2>1 DEF OnTheWay, Terminal
  <2>4. Place' = Place /\ Place = "courier"
    BY <2>1, <2>2, <2>3, Places, StatusKinds DEF Place
  <2>5. Paid(bill')
    BY <1>2, <2>4, TurnPlace
  <2> QED BY <1>1, <1>2, <2>1, <2>2, <2>3, <2>4, <2>5 DEF Moves, Onward
<1>4. CASE EditReason(reason)
  <2>1. sh'.status = sh.status /\ sh'.held = sh.held /\ sh.status = "EXCEPTION"
    BY <1>1, <1>4 DEF EditReason, ShipmentRow
  <2> QED BY <1>1, <1>2, <2>1, TurnPlace, StayMoves DEF FullRefund
<1> QED BY <1>3, <1>4

\* A step to a status that is not a hold.
LEMMA LeaveMoves ==
    ASSUME TurnInv, NEW target \in Statuses \ {"EXCEPTION"}, sh'.status = target, ~appt'.busy,
           sh.status \notin Terminal,
           Onward(Place, StagePlace(target)) \/ Overridden(Place, StagePlace(target)),
           StagePlace(target) \in {"seller", "withdrawn"} => moved' = moved,
           StagePlace(target) = "courier" => moved' \/ (Place = "courier" /\ moved' = moved),
           StagePlace(target) = "withdrawn" => Refunded(bill'),
           StagePlace(target) \notin {"withdrawn", "lost"} => Paid(bill'),
           sh.status = "EXCEPTION" /\ target \in OnTheWay => Place = "courier"
    PROVE  Moves
<1>1. Place' = StagePlace(target) /\ sh'.status # "EXCEPTION"
  BY DEF Place
<1> QED BY <1>1 DEF Moves

\* The merchant's answer sends the parcel on from where it was held.
LEMMA AnswerStage ==
    ASSUME TurnInv, NEW action, NdrAction(action)
    PROVE  LET target == ActionTarget(action)
           IN  /\ target \in PrePickup \cup {"CANCELLED"} => sh.held \in PrePickup
               /\ target \in OnTheWay => sh.held \in OnTheWay
               /\ target \in RtoLeg => sh.held \in OnTheWay \cup RtoLeg
<1> DEFINE target == ActionTarget(action)
           forced == AttemptLimitOutcome(sh.reason, sh.type, sh.attempts, sh.held)
<1>1. /\ sh.status = "EXCEPTION" /\ action \in AllowedActions(sh.reason, sh.type, sh.b2b, sh.held)
      /\ sh.held \in {"ASSIGNED"} \cup OnTheWay \cup RtoLeg
  BY DEF NdrAction, TurnInv, Whereabouts
<1>2. /\ sh.held # NoStatus /\ sh.attempts \in Nat /\ sh.held \in Statuses
      /\ IsPickedUp(sh.held) <=> sh.held \in OnTheWay \cup RtoLeg
      /\ sh.held \in PrePickup \/ sh.held \in OnTheWay \/ sh.held \in RtoLeg
  <2>1. NoStatus \notin {"ASSIGNED"} \cup OnTheWay \cup RtoLeg
    BY DEF NoStatus, OnTheWay, RtoLeg
  <2>2. (OnTheWay \cup RtoLeg) \cap PrePickup = {} /\ "ASSIGNED" \in PrePickup
    BY DEF PrePickup, OnTheWay, RtoLeg
  <2>3. sh.attempts \in Nat
    BY TurnPlace, RowFields
  <2> QED BY <1>1, <2>1, <2>2, <2>3, StatusKinds DEF IsPickedUp
<1>3. action = "CANCEL_PICKUP" => sh.held \in PrePickup
  <2>1. action = "CANCEL_PICKUP" => IsPickupStage(sh.reason, sh.type, sh.held)
    BY <1>1 DEF AllowedActions, ForwardActions, ChargeReasons, DeliveryAttemptReasons
  <2> QED BY <1>2, <2>1 DEF IsPickupStage
<1>4. action = "RETURN_TO_ORIGIN" => sh.held \in OnTheWay \cup RtoLeg
  BY <1>1, <1>2 DEF AllowedActions, PickupStageActions
<1>5. /\ forced \in {NoStatus, "CANCELLED", "RTO_INITIATED"}
      /\ forced = "CANCELLED" => sh.held \in PrePickup
      /\ forced = "RTO_INITIATED" => sh.held \in OnTheWay \cup RtoLeg
  <2>1. /\ forced \in {NoStatus, "CANCELLED", "RTO_INITIATED"}
        /\ forced = "CANCELLED" => IsPickupStage(sh.reason, sh.type, sh.held)
        /\ forced = "RTO_INITIATED" =>
              CountsAsAttempt(sh.reason) /\ ~IsPickupStage(sh.reason, sh.type, sh.held)
    BY <1>2, Limit
  <2> QED BY <1>2, <2>1 DEF IsPickupStage
<1>6. /\ Resume \in PrePickup => sh.held \in PrePickup
      /\ Resume \in OnTheWay => sh.held \in OnTheWay
      /\ Resume \in RtoLeg => sh.held \in RtoLeg
      /\ Resume # "CANCELLED"
  <2>1. /\ Resume \in {"OPEN", "ASSIGNED", "IN_TRANSIT"} \cup RtoLeg
        /\ sh.held \in PrePickup => Resume \in PrePickup
        /\ sh.held \in OnTheWay => Resume = "IN_TRANSIT"
        /\ sh.held \in RtoLeg => Resume = sh.held
    BY <1>2, Resumes DEF Resume
  <2> QED BY <1>2, <2>1 DEF PrePickup, OnTheWay, RtoLeg
<1>7. \/ target \in {NoStatus, Resume}
      \/ target = forced /\ forced # NoStatus
      \/ target = "RTO_INITIATED" /\ action = "RETURN_TO_ORIGIN"
      \/ target = "CANCELLED" /\ action = "CANCEL_PICKUP"
  BY DEF ActionTarget
<1> HIDE DEF target, forced
<1>8. NoStatus \notin PrePickup \cup OnTheWay \cup RtoLeg \cup {"CANCELLED"}
  BY DEF NoStatus, PrePickup, OnTheWay, RtoLeg
<1>9. /\ target \in PrePickup \cup {"CANCELLED"} => sh.held \in PrePickup
      /\ target \in OnTheWay => sh.held \in OnTheWay
      /\ target \in RtoLeg => sh.held \in OnTheWay \cup RtoLeg
  BY <1>3, <1>4, <1>5, <1>6, <1>7, <1>8 DEF PrePickup, OnTheWay, RtoLeg
<1> QED BY <1>9 DEF target

LEMMA NdrMoves ==
    ASSUME TurnInv, NEW action, NdrAction(action)
    PROVE  Moves
<1>1. PICK priced \in ActionBills(action), waive \in BOOLEAN :
          LET target == ActionTarget(action)
              row == [sh EXCEPT !.cod = priced.cod]
              result == Finalized(row, priced.bill, target, waive)
          IN  /\ sh' = result.row /\ bill' = result.bill
              /\ row \in ShipmentRow /\ row.status = sh.status /\ row.held = sh.held
              /\ Sound(priced.bill) /\ (Paid(bill) => Paid(priced.bill))
              /\ target \in Statuses \cup {NoStatus}
  BY NdrParts DEF TurnInv
<1> DEFINE target == ActionTarget(action)
           row == [sh EXCEPT !.cod = priced.cod]
<1>2. /\ sh.status = "EXCEPTION" /\ appt' = appt /\ moved' = moved /\ ~appt.busy
      /\ sh.held \in Statuses \cup {NoStatus}
  BY TurnPlace DEF NdrAction, TurnInv
<1>3. /\ target \in PrePickup \cup {"CANCELLED"} => sh.held \in PrePickup
      /\ target \in OnTheWay => sh.held \in OnTheWay
      /\ target \in RtoLeg => sh.held \in OnTheWay \cup RtoLeg
  BY AnswerStage
<1>4. target \in {NoStatus, "CANCELLED", "OPEN", "ASSIGNED", "IN_TRANSIT"} \cup RtoLeg
  BY TurnPlace, Targets
<1>5. Place = StagePlace(sh.held) /\ Paid(bill)
  BY <1>2, TurnPlace
<1> HIDE DEF target, row
<1>6. /\ sh'.held = sh.held
      /\ target # NoStatus => sh'.status = target
      /\ target = NoStatus => sh'.status = sh.status
      /\ target = "CANCELLED" => Refunded(bill')
      /\ target # "CANCELLED" => Paid(bill')
  <2>1. /\ sh' = Finalized(row, priced.bill, target, waive).row
        /\ bill' = Finalized(row, priced.bill, target, waive).bill
        /\ row \in ShipmentRow /\ row.status = sh.status /\ row.held = sh.held
        /\ Paid(priced.bill) /\ Sound(priced.bill) /\ target \in Statuses \cup {NoStatus}
    BY <1>1, <1>5 DEF target, row
  <2> QED BY <2>1, FinalizedRow
<1>7. CASE target = NoStatus
  <2>1. sh'.status = sh.status /\ sh'.held = sh.held /\ Paid(bill')
    BY <1>6, <1>7 DEF NoStatus
  <2> QED BY <1>2, <2>1, StayMoves DEF FullRefund
<1>8. CASE target # NoStatus
  <2>1. target \in Statuses \ {"EXCEPTION"} /\ sh'.status = target
    BY <1>4, <1>6, <1>8, StatusKinds DEF RtoLeg
  <2>2. CASE target \in PrePickup
    <3>1. StagePlace(target) = "seller" /\ Place = "seller" /\ Paid(bill')
      BY <1>2, <1>3, <1>5, <1>6, <2>1, <2>2, Places DEF PrePickup
    <3> QED BY <1>2, <2>1, <2>2, <3>1, LeaveMoves DEF Onward, Terminal, PrePickup, OnTheWay
  <2>3. CASE target = "CANCELLED"
    <3>1. StagePlace(target) = "withdrawn" /\ Place = "seller" /\ Refunded(bill')
      BY <1>2, <1>3, <1>5, <1>6, <2>1, <2>3, Places DEF FullRefund
    <3> QED BY <1>2, <2>1, <2>3, <3>1, LeaveMoves DEF Onward, Terminal, OnTheWay
  <2>4. CASE target \in OnTheWay
    <3>1. StagePlace(target) = "courier" /\ Place = "courier" /\ Paid(bill')
      BY <1>2, <1>3, <1>5, <1>6, <2>1, <2>4, Places DEF OnTheWay
    <3> QED BY <1>2, <2>1, <2>4, <3>1, LeaveMoves DEF Onward, Terminal
  <2>5. CASE target \in RtoLeg
    <3>1. StagePlace(target) = "returning" /\ Place \in {"courier", "returning"} /\ Paid(bill')
      BY <1>2, <1>3, <1>5, <1>6, <2>1, <2>5, Places DEF RtoLeg
    <3> QED BY <1>2, <2>1, <2>5, <3>1, LeaveMoves DEF Onward, Terminal, RtoLeg, OnTheWay
  <2> QED BY <1>4, <1>8, <2>2, <2>3, <2>4, <2>5 DEF PrePickup, OnTheWay
<1> QED BY <1>7, <1>8

\* A status set by staff takes the parcel one of its ways; before the pickup a hold leads to a
\* return or a loss only when an admin overrides it.
LEMMA PatchStage ==
    ASSUME TurnInv, NEW requested \in Statuses, PatchStatus(requested)
    PROVE  LET to == StagePlace(CancelConverted(requested))
           IN  /\ Onward(Place, to) \/ Overridden(Place, to)
               /\ sh.status = "EXCEPTION" /\ to = "courier" => Place = "courier"
<1> DEFINE target == CancelConverted(requested)
           to == StagePlace(target)
<1>1. /\ target \in Statuses \ {"EXCEPTION", sh.status} /\ PatchAccepted(target)
      /\ sh.status \notin Terminal /\ ValidTransition(sh.status, target)
      /\ sh.status = "EXCEPTION" => ExitAllowed(target)
  BY PatchParts DEF TurnInv
<1>2. /\ sh \in ShipmentRow /\ sh.status \in Statuses /\ sh.held \in Statuses \cup {NoStatus}
      /\ sh.status # "EXCEPTION" => Place = StagePlace(sh.status)
      /\ sh.status = "EXCEPTION" =>
            Place = StagePlace(sh.held) /\ sh.held \in {"ASSIGNED"} \cup OnTheWay \cup RtoLeg
  BY TurnPlace DEF TurnInv, Whereabouts
<1>3. target = "CANCELLED" => ~AfterPickup
  BY DEF CancelConverted
<1> HIDE DEF target
<1>4. CASE sh.status # "EXCEPTION"
  <2>1. /\ to = "seller" => Place = "seller"
        /\ to = "courier" => Place \in {"seller", "courier", "lost"}
        /\ to = "returning" => Place \in {"courier", "returning", "lost"}
        /\ to = "delivered" => Place = "courier"
        /\ to = "returned" => Place = "returning"
        /\ to = "withdrawn" => Place = "seller"
        /\ to = "lost" => Place \in {"courier", "returning"}
    <3>1. /\ target \in PrePickup => sh.status \in PrePickup
          /\ target \in OnTheWay => sh.status \in PrePickup \cup OnTheWay \cup {"LOST"}
          /\ target \in RtoLeg => sh.status \in OnTheWay \cup RtoLeg \cup {"LOST"}
          /\ target = "COMPLETED" => sh.status \in OnTheWay
          /\ target = "RTO_DELIVERED" => sh.status \in RtoLeg
          /\ target \in FullRefund => sh.status \in PrePickup
          /\ target = "LOST" => sh.status \in OnTheWay \cup RtoLeg
      BY <1>1, <1>2, <1>4, Transitions DEF PrePickup, RtoLeg, FullRefund
    <3>2. NoStatus \notin Statuses
      BY StatusKinds
    <3> QED BY <1>1, <1>2, <1>4, <3>1, <3>2, Places
  <2>2. to \in {"seller", "courier", "returning", "delivered", "returned", "withdrawn", "lost"}
    BY DEF StagePlace
  <2> QED BY <1>4, <2>1, <2>2 DEF Onward, target
<1>5. CASE sh.status = "EXCEPTION"
  <2>1. /\ sh.held # NoStatus /\ (IsPickedUp(sh.held) <=> sh.held \in OnTheWay \cup RtoLeg)
        /\ sh.held \in PrePickup \/ sh.held \in OnTheWay \/ sh.held \in RtoLeg
    BY <1>2, <1>5 DEF IsPickedUp, PrePickup, OnTheWay, RtoLeg, NoStatus
  <2>2. /\ target \in {"RTO_INITIATED", "CANCELLED", "LOST", "OPEN", "ASSIGNED"} \cup RtoLeg \cup OnTheWay
        /\ target \in RtoLeg => target = "RTO_INITIATED" \/ sh.held \in RtoLeg
        /\ target \in PrePickup => Resume \in PrePickup
        /\ target \in OnTheWay => Resume = "IN_TRANSIT"
    BY <1>1, <1>2, <1>5, Exits
  <2>3. /\ sh.held \in PrePickup => Resume \in PrePickup
        /\ sh.held \in OnTheWay => Resume = "IN_TRANSIT"
        /\ sh.held \in RtoLeg => Resume = sh.held
    BY <1>2, Resumes DEF Resume
  <2>4. /\ target \in PrePickup => sh.held \in PrePickup
        /\ target \in OnTheWay => sh.held \in OnTheWay
    BY <2>1, <2>2, <2>3 DEF PrePickup, OnTheWay, RtoLeg
  <2>5. target = "CANCELLED" => sh.held \in PrePickup
    BY <1>3, <1>5, <2>1 DEF AfterPickup
  <2>6. /\ target \in {"RTO_INITIATED", "LOST"} /\ sh.held \in PrePickup => "override" \in Ops
    BY <1>1, <1>5 DEF PatchAccepted, IsPickedUp
  <2>7. /\ Place = "seller" <=> sh.held \in PrePickup
        /\ Place = "courier" <=> sh.held \in OnTheWay
        /\ Place = "returning" <=> sh.held \in RtoLeg
    BY <1>2, <1>5, <2>1, Places
  <2>8. CASE target \in PrePickup
    <3>1. to = "seller" /\ Place = "seller"
      BY <1>1, <2>4, <2>7, <2>8, Places
    <3> QED BY <3>1 DEF Onward, target
  <2>9. CASE target \in OnTheWay
    <3>1. to = "courier" /\ Place = "courier"
      BY <1>1, <2>4, <2>7, <2>9, Places
    <3> QED BY <3>1 DEF Onward, target
  <2>10. CASE target = "CANCELLED"
    <3>1. to = "withdrawn" /\ Place = "seller"
      BY <1>1, <2>5, <2>7, <2>10, Places DEF FullRefund
    <3> QED BY <3>1 DEF Onward, target
  <2>11. CASE target \in RtoLeg
    <3>1. to = "returning" /\ Place \in {"seller", "courier", "returning"}
          /\ (Place = "seller" => "override" \in Ops)
      BY <1>1, <2>1, <2>2, <2>6, <2>7, <2>11, Places DEF PrePickup, RtoLeg
    <3> QED BY <3>1 DEF Onward, Overridden, target
  <2>12. CASE target = "LOST"
    <3>1. to = "lost" /\ Place \in {"seller", "courier", "returning"}
          /\ (Place = "seller" => "override" \in Ops)
      BY <1>1, <2>1, <2>6, <2>7, <2>12, Places
    <3> QED BY <3>1 DEF Onward, Overridden, target
  <2> QED BY <2>2, <2>8, <2>9, <2>10, <2>11, <2>12 DEF PrePickup, RtoLeg
<1> QED BY <1>4, <1>5 DEF target

LEMMA PatchMoves ==
    ASSUME TurnInv, NEW requested \in Statuses, PatchStatus(requested)
    PROVE  Moves
<1> DEFINE target == CancelConverted(requested)
           to == StagePlace(target)
<1>1. /\ target \in Statuses \ {"EXCEPTION", sh.status} /\ sh.status \notin Terminal
      /\ sh'.status = target /\ bill' = StatusBill(target) /\ appt' = appt
  BY PatchParts DEF TurnInv
<1>2. /\ Onward(Place, to) \/ Overridden(Place, to)
      /\ sh.status = "EXCEPTION" /\ to = "courier" => Place = "courier"
  BY PatchStage
<1>3. moved' = (moved \/ (target \in OnTheWay /\ sh.status # "EXCEPTION"))
  BY DEF PatchStatus
<1> HIDE DEF target
<1>4. sh.status \in Statuses /\ Sound(bill) /\ moved \in BOOLEAN /\ ~appt.busy /\ (Place = "courier" => moved)
  BY TurnPlace DEF TurnInv, AnyInv, TypeOK
<1>5. Paid(bill) \/ sh.status = "LOST"
  BY <1>1, TurnPlace DEF FullRefund, Terminal
<1>6. /\ to = "withdrawn" => Refunded(bill')
      /\ to \notin {"withdrawn", "lost"} => Paid(bill')
  BY <1>1, <1>4, <1>5, StatusBilled, Places
<1>7. /\ to = "courier" <=> target \in OnTheWay
      /\ to \in {"seller", "withdrawn"} => target \notin OnTheWay
  BY <1>1, Places
<1>8. /\ to \in {"seller", "withdrawn"} => moved' = moved
      /\ to = "courier" => moved'
  BY <1>2, <1>3, <1>4, <1>7
<1> QED BY <1>1, <1>2, <1>4, <1>6, <1>7, <1>8, LeaveMoves

LEMMA CancelMoves ==
    ASSUME TurnInv, CancelShipment
    PROVE  Moves
<1>1. /\ sh.status \notin Terminal
      /\ \/ AfterPickup /\ sh'.status = "RTO_INITIATED" /\ Paid(bill')
         \/ sh.status \in PrePickup /\ sh'.status = "CANCELLED" /\ Refunded(bill')
  BY CancelParts DEF TurnInv
<1>2. UNCHANGED <<appt, moved>> /\ ~appt.busy
  BY DEF CancelShipment, TurnInv
<1>3. /\ sh.status \in Statuses /\ sh.held \in Statuses \cup {NoStatus}
      /\ sh.status # "EXCEPTION" => Place = StagePlace(sh.status)
      /\ sh.status = "EXCEPTION" =>
            Place = StagePlace(sh.held) /\ sh.held \in {"ASSIGNED"} \cup OnTheWay \cup RtoLeg
  BY TurnPlace DEF TurnInv, Whereabouts
<1>4. CASE AfterPickup /\ sh'.status = "RTO_INITIATED" /\ Paid(bill')
  <2>1. Place \in {"courier", "returning", "lost"}
    <3>1. CASE sh.status = "EXCEPTION"
      <4>1. sh.held \in OnTheWay \cup RtoLeg
        BY <1>3, <1>4, <3>1 DEF AfterPickup, IsPickedUp, PrePickup, NoStatus, OnTheWay, RtoLeg, RtoStatuses
      <4> QED BY <1>3, <3>1, <4>1, Places
    <3>2. CASE sh.status # "EXCEPTION"
      <4>1. sh.status \in OnTheWay \cup RtoLeg \cup {"LOST"}
        BY <1>1, <1>4, <3>2 DEF AfterPickup, Terminal, RtoStatuses
      <4> QED BY <1>3, <3>2, <4>1, Places
    <3> QED BY <3>1, <3>2
  <2>2. "RTO_INITIATED" \in Statuses \ {"EXCEPTION"} /\ StagePlace("RTO_INITIATED") = "returning"
    BY StatusKinds, Places DEF RtoLeg
  <2> QED BY <1>1, <1>2, <1>4, <2>1, <2>2, LeaveMoves DEF Onward, OnTheWay
<1>5. CASE sh.status \in PrePickup /\ sh'.status = "CANCELLED" /\ Refunded(bill')
  <2>1. Place = "seller"
    BY <1>3, <1>5, Places DEF PrePickup
  <2>2. "CANCELLED" \in Statuses \ {"EXCEPTION"} /\ StagePlace("CANCELLED") = "withdrawn"
    BY StatusKinds, Places DEF FullRefund
  <2> QED BY <1>1, <1>2, <1>5, <2>1, <2>2, LeaveMoves DEF Onward, OnTheWay
<1> QED BY <1>1, <1>4, <1>5

LEMMA PriceMoves ==
    ASSUME TurnInv, NEW f \in Freight, RecordMeasurement(f) \/ EditPrice(f) \/ EditCod
    PROVE  Moves
<1>1. /\ Paid(bill') /\ UNCHANGED <<appt, moved>> /\ sh'.status = sh.status /\ sh'.held = sh.held
  BY PriceParts DEF TurnInv
<1>2. sh.status \notin FullRefund
  BY DEF RecordMeasurement, EditPrice, EditCod, FullRefund, Terminal, PrePickup
<1> QED BY <1>1, <1>2, StayMoves DEF TurnInv

LEMMA ClaimMoves ==
    ASSUME TurnInv, NEW f \in Freight, RaiseClaim \/ RejectClaim \/ AcceptClaim(f)
    PROVE  Moves
<1>1. UNCHANGED <<sh, appt, moved, waived>> /\ ~appt.busy
  BY DEF RaiseClaim, RejectClaim, AcceptClaim, TurnInv
<1>2. CASE RaiseClaim \/ RejectClaim
  BY <1>1, <1>2, TurnPlace, StayMoves DEF RaiseClaim, RejectClaim
<1>3. CASE AcceptClaim(f)
  <2>1. bill' = ClaimBill(f) /\ Sound(bill) /\ claim.diff \in Nat
    BY <1>3 DEF AcceptClaim, TurnInv, AnyInv, TypeOK, Dispute
  <2>2. /\ Sound(bill') /\ bill'.paid = bill'.total
        /\ bill.total > 0 => bill'.total > 0
        /\ bill.total = 0 => bill'.total = 0
    BY <2>1, ClaimedBill
  <2>3. sh.status \in FullRefund => Refunded(bill')
    BY <2>2, TurnPlace DEF Refunded
  <2>4. sh.status \notin FullRefund \cup {"LOST"} => Paid(bill')
    BY <2>2, TurnPlace DEF Paid
  <2> QED BY <1>1, <2>3, <2>4, StayMoves
<1> QED BY <1>2, <1>3

LEMMA TurnInit == InTurn /\ Init => TurnInv
<1> SUFFICES ASSUME InTurn, Init PROVE TurnInv
  OBVIOUS
<1>1. PICK type \in Types, b2b \in Flows, f \in Freight, cod \in BOOLEAN :
          LET b == [fwd |-> f, leg |-> 0, fee |-> QuotedFee(cod, "OPEN"), extra |-> 0,
                    wadj |-> 0, total |-> 0, paid |-> 0, rtoRows |-> 0]
          IN  bill = Settled(b, QuoteTotal(b)) /\ sh.status = "OPEN"
  BY DEF Init
<1> DEFINE b == [fwd |-> f, leg |-> 0, fee |-> QuotedFee(cod, "OPEN"), extra |-> 0,
                 wadj |-> 0, total |-> 0, paid |-> 0, rtoRows |-> 0]
<1>2. b \in Bill /\ b.fwd > 0 /\ b.rtoRows <= 1
  BY MoneyAssumption DEF Bill, QuotedFee
<1> HIDE DEF b
<1>3. Paid(bill) /\ sh.status = "OPEN"
  BY <1>1, <1>2, SettledQuote DEF b
<1>4. BillSettled
  BY <1>3 DEF BillSettled, Paid, FullRefund
<1>5. moved = FALSE /\ ~appt.busy
  BY DEF Init, NoSnapshot
<1>6. Whereabouts
  BY <1>3, <1>5 DEF Whereabouts, OnTheWay
<1> QED BY <1>4, <1>5, <1>6, AnyInit DEF TurnInv

LEMMA TurnMoves == TurnInv /\ [Next]_vars => Moves
<1> SUFFICES ASSUME TurnInv, [Next]_vars PROVE Moves
  OBVIOUS
<1>1. CASE UNCHANGED vars
  BY <1>1, TurnPlace, StayMoves DEF vars, TurnInv
<1>2. CASE Next
  <2>1. PICK f : f \in Freight
    BY MoneyAssumption
  <2>2. CASE ReadForAppointment \/ WriteAppointment
    BY <2>2 DEF ReadForAppointment, WriteAppointment, TurnInv, InTurn
  <2> QED BY <1>2, <2>1, <2>2, PurMoves, RaiseMoves, HoldMoves, NdrMoves, PatchMoves, CancelMoves,
             PriceMoves, ClaimMoves DEF Next
<1> QED BY <1>1, <1>2

LEMMA TurnStep == TurnInv /\ [Next]_vars => TurnInv'
<1> SUFFICES ASSUME TurnInv, [Next]_vars PROVE TurnInv'
  OBVIOUS
<1>1. Moves /\ AnyInv' /\ InTurn
  BY TurnMoves, AnyStep DEF TurnInv
<1>2. sh'.status \in Statuses /\ sh'.held \in Statuses \cup {NoStatus}
  BY <1>1, RowFields DEF AnyInv, TypeOK
<1>3. Place' = StagePlace(IF sh'.status = "EXCEPTION" THEN sh'.held ELSE sh'.status)
  BY DEF Place
<1>4. /\ sh'.status = "EXCEPTION" => sh'.held \in {"ASSIGNED"} \cup OnTheWay \cup RtoLeg
      /\ Place' \in {"seller", "withdrawn"} => moved' = moved
      /\ Place' = "courier" => moved' \/ (Place = "courier" /\ moved' = moved)
      /\ Place' = "withdrawn" => Refunded(bill')
      /\ Place' \notin {"withdrawn", "lost"} => Paid(bill')
      /\ ~appt'.busy
  BY <1>1 DEF Moves
<1>5. Place' \in {"seller", "withdrawn"} => Place \in {"seller", "withdrawn"}
  BY <1>1 DEF Moves, Onward, Overridden
<1>6. /\ Place' \in {"seller", "withdrawn"} => ~moved'
      /\ Place' = "courier" => moved'
  BY <1>4, <1>5, TurnPlace
<1> DEFINE stage == IF sh'.status = "EXCEPTION" THEN sh'.held ELSE sh'.status
<1>7. /\ stage \in Statuses \cup {NoStatus} /\ Place' = StagePlace(stage) /\ stage # "EXCEPTION"
      /\ sh'.status = "EXCEPTION" => stage \notin FullRefund \cup {"LOST"}
      /\ sh'.status # "EXCEPTION" => stage = sh'.status
  BY <1>2, <1>3, <1>4 DEF OnTheWay, RtoLeg, FullRefund
<1> HIDE DEF stage
<1>8. /\ stage \in PrePickup => Place' = "seller"
      /\ stage \in OnTheWay => Place' = "courier"
      /\ stage \in FullRefund <=> Place' = "withdrawn"
      /\ stage = "LOST" <=> Place' = "lost"
  BY <1>7, Places
<1>9. Whereabouts'
  <2>1. /\ stage \in PrePickup \cup FullRefund => ~moved'
        /\ stage \in OnTheWay => moved'
    BY <1>6, <1>8
  <2> QED BY <1>4, <2>1 DEF Whereabouts, stage
<1>10. BillSettled'
  <2>1. sh'.status \in FullRefund => Refunded(bill')
    BY <1>4, <1>7, <1>8 DEF FullRefund
  <2>2. sh'.status \notin FullRefund \cup {"LOST"} => Paid(bill')
    BY <1>4, <1>7, <1>8
  <2> QED BY <2>1, <2>2 DEF BillSettled, Refunded, Paid
<1> QED BY <1>1, <1>4, <1>9, <1>10 DEF TurnInv

\* What the wallet paid is the bill, and a cancelled or refused booking is refunded in full,
\* through every re-price, exception charge, return, claim and recovery, as long as nobody acts
\* on a shipment behind its hold.
THEOREM BillsSettled == InTurn /\ Spec => []BillSettled
<1>1. TurnInv => BillSettled
  BY DEF TurnInv
<1> QED BY <1>1, TurnInit, TurnStep, PTL DEF Spec

\* A booking refunded in full never left the seller: every way to a full refund, the forced
\* one at the attempt limit included, is closed once the courier has the parcel.
THEOREM RefundedUnmoved == InTurn /\ Spec => []RefundedNeverMoved
<1>1. TurnInv => RefundedNeverMoved
  BY StatusKinds DEF TurnInv, Whereabouts, RefundedNeverMoved, FullRefund
<1> QED BY <1>1, TurnInit, TurnStep, PTL DEF Spec

\* Nothing leaves a terminal status, whichever handler runs.
THEOREM TerminalForGood == InTurn /\ Spec => TerminalStays
<1>1. TurnInv /\ [Next]_vars => [sh.status \in Terminal => sh'.status = sh.status]_vars
  BY TurnMoves DEF Moves
<1> QED BY <1>1, TurnInit, TurnStep, PTL DEF Spec, TerminalStays

\* A hold ends on the way to the buyer only for a parcel the courier really has.
THEOREM ResumesWhereHeld == InTurn /\ Spec => ResumeToStage
<1>1. TurnInv /\ [Next]_vars => [sh.status = "EXCEPTION" /\ sh'.status \in OnTheWay => moved]_vars
  BY TurnMoves, TurnPlace DEF Moves
<1> QED BY <1>1, TurnInit, TurnStep, PTL DEF Spec, ResumeToStage

(********************************* weight claims ***************************)

\* Only the acceptance of a claim accepts it.
LEMMA AcceptedBy ==
    ASSUME AnyInv, [Next]_vars, claim.st = "CLAIM_RAISED", claim'.st = "ACCEPTED"
    PROVE  \E f \in Freight : AcceptClaim(f)
<1>1. claim \in Dispute
  BY DEF AnyInv, TypeOK
<1>2. \A old, new : DisputeAfter(old, new).st = claim.st
  BY <1>1 DEF DisputeAfter, Dispute
<1>3. CASE UNCHANGED claim
  BY <1>3
<1>4. CASE \E old, new : claim' = DisputeAfter(old, new)
  BY <1>2, <1>4
<1>5. CASE RaiseClaim \/ RejectClaim
  BY <1>1, <1>5 DEF RaiseClaim, RejectClaim, Dispute
<1>6. SUFFICES ASSUME ~UNCHANGED claim, ~\E old, new : claim' = DisputeAfter(old, new),
                      ~(RaiseClaim \/ RejectClaim)
               PROVE  \E f \in Freight : AcceptClaim(f)
  BY <1>3, <1>4, <1>5
<1>7. \A a : ~NdrAction(a)
  BY <1>6 DEF NdrAction
<1>8. \A f : ~RecordMeasurement(f) /\ ~EditPrice(f)
  BY <1>6 DEF RecordMeasurement, EditPrice
<1>9. \A r : ~RaiseException(r) /\ ~WorkerHold(r) /\ ~EditReason(r)
  BY <1>6 DEF RaiseException, WorkerHold, EditReason
<1>10. \A s : ~PatchStatus(s)
  BY <1>6 DEF PatchStatus
<1>11. ~(CancelShipment \/ EditCod \/ ReadForAppointment \/ WriteAppointment)
  BY <1>6 DEF CancelShipment, EditCod, ReadForAppointment, WriteAppointment
<1>12. ~(LinkToPur \/ MarkOutForPickup \/ CancelPur \/ MarkNotPicked \/ DispatchPicked \/ DispatchUnpicked)
  BY <1>6 DEF LinkToPur, MarkOutForPickup, CancelPur, MarkNotPicked, DispatchPicked, DispatchUnpicked
<1>13. ~UNCHANGED vars
  BY <1>6 DEF vars
<1> QED BY <1>6, <1>7, <1>8, <1>9, <1>10, <1>11, <1>12, <1>13 DEF Next

\* Accepting a weight claim never takes money and never gives back more than the difference
\* the measurements caused, while a lost parcel's claim waits until it is found.
THEOREM ClaimsOnlyRefund == InTurn /\ "claimLost" \notin Ops /\ Spec => ClaimNeverDebits
<1> DEFINE Inv == "claimLost" \notin Ops /\ TurnInv
<1>1. Inv /\ [Next]_vars =>
        [claim.st = "CLAIM_RAISED" /\ claim'.st = "ACCEPTED"
           => bill'.paid <= bill.paid /\ bill.paid - bill'.paid <= claim.diff]_vars
  <2> SUFFICES ASSUME Inv, [Next]_vars, claim.st = "CLAIM_RAISED", claim'.st = "ACCEPTED"
               PROVE  bill'.paid <= bill.paid /\ bill.paid - bill'.paid <= claim.diff
    OBVIOUS
  <2>1. PICK f \in Freight : AcceptClaim(f)
    BY AcceptedBy DEF TurnInv
  <2>2. Sound(bill) /\ claim.diff \in Nat /\ BillSettled
    BY DEF TurnInv, AnyInv, TypeOK, Dispute
  <2>3. /\ bill'.paid = bill'.total /\ bill'.total <= bill.total
        /\ bill.total - bill'.total <= claim.diff
    BY <2>1, <2>2, ClaimedBill DEF AcceptClaim
  <2>4. sh.status # "LOST"
    BY <2>1 DEF AcceptClaim
  <2>5. bill.paid = bill.total
    BY <2>2, <2>4 DEF BillSettled
  <2> QED BY <2>3, <2>5
<1>2. InTurn /\ "claimLost" \notin Ops /\ Init => Inv
  BY TurnInit
<1>3. Inv /\ [Next]_vars => Inv'
  BY TurnStep
<1> HIDE DEF Inv
<1> QED BY <1>1, <1>2, <1>3, PTL DEF Spec, ClaimNeverDebits

(****************************** the attempt limit **************************)

\* A shipment already on hold keeps what its attempts are counted by, and one put on hold
\* still has attempts left where they are limited.
LEMMA LimitStep ==
    ASSUME AnyInv, AttemptLimit, [Next]_vars, "reason" \notin Ops, "purOnHold" \notin Ops
    PROVE  AttemptLimit'
<1> DEFINE Same == /\ sh'.status = sh.status /\ sh'.reason = sh.reason /\ sh'.held = sh.held
                   /\ sh'.type = sh.type /\ sh'.attempts = sh.attempts
<1>1. Same \/ sh'.status # "EXCEPTION" => AttemptLimit'
  BY DEF AttemptLimit
<1>2. sh \in ShipmentRow /\ Sound(bill)
  BY DEF AnyInv, TypeOK
<1>3. CASE sh' = sh
  BY <1>1, <1>3
<1>4. CASE MarkOutForPickup
  <2>1. Same
    BY <1>2, <1>4 DEF MarkOutForPickup, ShipmentRow
  <2> QED BY <1>1, <2>1
<1>5. CASE LinkToPur \/ CancelPur \/ MarkNotPicked \/ DispatchPicked \/ DispatchUnpicked
  <2>1. sh'.status \in {"OPEN", "ASSIGNED", "IN_TRANSIT"}
    <3>1. sh.status \in {"OPEN", "ASSIGNED"}
      BY <1>5 DEF LinkToPur, CancelPur, MarkNotPicked, DispatchPicked, DispatchUnpicked, PurMayAct
    <3> QED BY <1>2, <1>5, <3>1 DEF LinkToPur, CancelPur, MarkNotPicked, DispatchPicked,
               DispatchUnpicked, ReleasedByPur, ShipmentRow, PrePickup
  <2> QED BY <1>1, <2>1
<1>6. ASSUME NEW reason \in Reasons, RaiseException(reason)
      PROVE  AttemptLimit'
  <2> DEFINE row == OnHold(reason, CountsAsAttempt(reason))
             forced == AttemptLimitOutcome(row.reason, row.type, row.attempts, row.held)
  <2>1. /\ reason \in AllReasons /\ CountsAsAttempt(reason) \in BOOLEAN /\ sh.status \in Statuses
    BY <1>2, InputAssumption, RowFields DEF CountsAsAttempt
  <2>2. /\ row \in ShipmentRow /\ row.status = "EXCEPTION" /\ row.held = sh.status
        /\ row.held # NoStatus
    BY <1>2, <2>1, OnHoldRow, StatusKinds
  <2>3. sh' = LimitEnforced(row).row
    BY <1>6 DEF RaiseException
  <2>4. row.attempts \in Nat
    BY <2>2, RowFields
  <2> HIDE DEF row
  <2>5. /\ forced \in {NoStatus, "CANCELLED", "RTO_INITIATED"}
        /\ forced = NoStatus => sh' = row
        /\ forced # NoStatus => sh'.status = forced
    BY <1>2, <2>2, <2>3, <2>4, Limit, LimitedRow
  <2>6. CASE forced # NoStatus
    BY <1>1, <2>5, <2>6
  <2>7. CASE forced = NoStatus
    <3>1. \/ ~CountsAsAttempt(row.reason) \/ row.attempts < 3 \/ row.held \in RtoLeg
          \/ row.type = "REVERSE" /\ ~IsPickupStage(row.reason, row.type, row.held)
      BY <2>4, <2>7 DEF AttemptLimitOutcome, IsRtoLeg, MaxNdrAttempts, NoStatus
    <3>2. CountsAsAttempt(row.reason) /\ ~IsPickupStage(row.reason, row.type, row.held)
            => row.held \notin PrePickup
      BY <2>2 DEF IsPickupStage, IsPickedUp
    <3>3. sh' = row
      BY <2>5, <2>7
    <3>4. row.type \in {"FORWARD", "REVERSE"}
      BY <2>2, RowFields DEF ShipmentTypes
    <3> QED BY <3>1, <3>2, <3>3, <3>4 DEF AttemptLimit, CountsAsAttempt
  <2> QED BY <2>6, <2>7
<1>7. ASSUME NEW reason \in Reasons, WorkerHold(reason)
      PROVE  AttemptLimit'
  <2>1. /\ reason \in AllReasons /\ reason \in {"APPOINTMENT_NEEDED", "EWAY_BILL_MISSING"}
        /\ sh' = OnHold(reason, FALSE)
    BY <1>7, InputAssumption DEF WorkerHold
  <2>2. sh'.reason = reason
    BY <1>2, <2>1, OnHoldRow
  <2> QED BY <2>1, <2>2 DEF AttemptLimit, Canonical, AttemptCountingReasons, DeliveryAttemptReasons
<1>8. ASSUME NEW action, NdrAction(action)
      PROVE  AttemptLimit'
  <2>1. PICK priced \in ActionBills(action), waive \in BOOLEAN :
            LET target == ActionTarget(action)
                row == [sh EXCEPT !.cod = priced.cod]
            IN  /\ sh' = Finalized(row, priced.bill, target, waive).row
                /\ row \in ShipmentRow /\ row.status = sh.status /\ row.held = sh.held
                /\ row.reason = sh.reason /\ row.attempts = sh.attempts /\ row.type = sh.type
                /\ Sound(priced.bill) /\ target \in Statuses \cup {NoStatus}
    BY <1>8, NdrParts
  <2> DEFINE target == ActionTarget(action)
             row == [sh EXCEPT !.cod = priced.cod]
  <2>2. target \in {NoStatus, "CANCELLED", "OPEN", "ASSIGNED", "IN_TRANSIT"} \cup RtoLeg
    BY <1>2, Targets
  <2> HIDE DEF target, row
  <2>3. /\ sh' = Finalized(row, priced.bill, target, waive).row
        /\ row \in ShipmentRow /\ row.status = sh.status /\ row.held = sh.held
        /\ row.reason = sh.reason /\ row.attempts = sh.attempts /\ row.type = sh.type
        /\ Sound(priced.bill) /\ target \in Statuses \cup {NoStatus}
    BY <2>1 DEF target, row
  <2>4. /\ sh'.held = sh.held /\ sh'.type = sh.type /\ sh'.attempts = sh.attempts
        /\ target # NoStatus => sh'.status = target
        /\ target = NoStatus => sh'.status = sh.status /\ sh'.reason = sh.reason
    BY <2>3, FinalizedRow
  <2> QED BY <1>1, <2>2, <2>4 DEF RtoLeg
<1>9. ASSUME NEW requested \in Statuses, PatchStatus(requested)
      PROVE  AttemptLimit'
  BY <1>1, <1>9, PatchParts
<1>10. CASE CancelShipment
  BY <1>1, <1>10, CancelParts
<1>11. ASSUME NEW f \in Freight, RecordMeasurement(f) \/ EditPrice(f) \/ EditCod
       PROVE  AttemptLimit'
  BY <1>1, <1>11, PriceParts
<1>12. ASSUME NEW f \in Freight, RaiseClaim \/ RejectClaim \/ AcceptClaim(f)
       PROVE  AttemptLimit'
  BY <1>3, <1>12 DEF RaiseClaim, RejectClaim, AcceptClaim
<1>13. CASE ReadForAppointment
  BY <1>3, <1>13 DEF ReadForAppointment
<1>14. CASE WriteAppointment
  <2> DEFINE resumed == ResumeStatus(appt.reason, sh.type, appt.linked, sh.held)
  <2>1. resumed \in {"OPEN", "ASSIGNED", "IN_TRANSIT"} \cup RtoLeg
    BY <1>2, RowFields, Resumes
  <2>2. sh' = [sh EXCEPT !.status = resumed, !.reason = NoReason, !.awaiting = FALSE,
                         !.otp = @ \/ (resumed \in OnTheWay /\ ~appt.otp)]
    BY <1>14 DEF WriteAppointment
  <2> HIDE DEF resumed
  <2>3. sh'.status = resumed
    BY <1>2, <2>2 DEF ShipmentRow
  <2> QED BY <1>1, <2>1, <2>3 DEF RtoLeg
<1>15. \A r \in Reasons : ~EditReason(r)
  BY DEF EditReason
<1>16. PICK f : f \in Freight
  BY MoneyAssumption
<1>17. CASE UNCHANGED vars
  BY <1>3, <1>17 DEF vars
<1> QED BY <1>4, <1>5, <1>6, <1>7, <1>8, <1>9, <1>10, <1>11, <1>12, <1>13, <1>14, <1>15, <1>16, <1>17
    DEF Next

\* No shipment rests on hold with its attempts used up, except on the return leg and for a
\* reverse parcel already picked up, also with stale appointment writes; a hold re-labelled by
\* staff or forgotten by its pickup request can.
THEOREM AttemptsLimited == "reason" \notin Ops /\ "purOnHold" \notin Ops /\ Spec => []AttemptLimit
<1> DEFINE Inv == "reason" \notin Ops /\ "purOnHold" \notin Ops /\ AnyInv /\ AttemptLimit
<1>1. "reason" \notin Ops /\ "purOnHold" \notin Ops /\ Init => Inv
  <2>1. Init => sh.status = "OPEN"
    BY DEF Init
  <2> QED BY <2>1, AnyInit DEF AttemptLimit
<1>2. Inv /\ [Next]_vars => Inv'
  BY AnyStep, LimitStep
<1>3. Inv => AttemptLimit
  OBVIOUS
<1> HIDE DEF Inv
<1> QED BY <1>1, <1>2, <1>3, PTL DEF Spec

(************************ the contract is implemented **********************)

\* The contract has no step for what these operations do: a hold before the pickup that an
\* admin ends as a return or a loss, and a bill that is moved while the parcel is lost.
Plain == InTurn /\ "override" \notin Ops /\ "editLost" \notin Ops /\ "claimLost" \notin Ops

\* A lost parcel stays refunded until it is found.
LostUnpaid == sh.status = "LOST" => bill.paid = 0

ContractInv == Plain /\ TurnInv /\ LostUnpaid

\* The wallet is down for a shipment exactly where the contract says so.
ChargedWhere == (bill.paid > 0) <=> Place \notin {"withdrawn", "lost"}

LEMMA ChargedPlace == ContractInv => ChargedWhere
<1> SUFFICES ASSUME ContractInv PROVE ChargedWhere
  OBVIOUS
<1>1. /\ Place = "withdrawn" <=> sh.status \in FullRefund
      /\ Place = "lost" <=> sh.status = "LOST"
      /\ Place = "withdrawn" => Refunded(bill)
      /\ Place \notin {"withdrawn", "lost"} => Paid(bill)
  BY TurnPlace DEF ContractInv
<1> QED BY <1>1 DEF ContractInv, LostUnpaid, Refunded, Paid, ChargedWhere

LEMMA LostStep ==
    ASSUME ContractInv, [Next]_vars
    PROVE  LostUnpaid'
<1>1. SUFFICES ASSUME sh'.status = "LOST" PROVE bill'.paid = 0
  BY DEF LostUnpaid
<1>2. AnyInv /\ TurnInv /\ sh \in ShipmentRow /\ Sound(bill) /\ sh.status \in Statuses
  BY TurnPlace DEF ContractInv, TurnInv, AnyInv
<1>3. CASE sh.status = "LOST" /\ bill' = bill
  BY <1>3 DEF ContractInv, LostUnpaid
<1>4. CASE MarkOutForPickup
  <2>1. sh'.status = sh.status /\ bill' = bill
    BY <1>2, <1>4 DEF MarkOutForPickup, ShipmentRow
  <2> QED BY <1>1, <1>3, <2>1
<1>5. CASE LinkToPur \/ CancelPur \/ MarkNotPicked \/ DispatchPicked \/ DispatchUnpicked
  <2>1. sh.status \in {"OPEN", "ASSIGNED"}
    BY <1>5 DEF LinkToPur, CancelPur, MarkNotPicked, DispatchPicked, DispatchUnpicked, PurMayAct,
       ContractInv, TurnInv, InTurn
  <2>2. sh'.status \in {"OPEN", "ASSIGNED", "IN_TRANSIT"}
    BY <1>2, <1>5, <2>1 DEF LinkToPur, CancelPur, MarkNotPicked, DispatchPicked, DispatchUnpicked,
       ReleasedByPur, ShipmentRow, PrePickup
  <2> QED BY <1>1, <2>2
<1>6. ASSUME NEW reason \in Reasons, RaiseException(reason)
      PROVE  FALSE
  <2> DEFINE row == OnHold(reason, CountsAsAttempt(reason))
             forced == AttemptLimitOutcome(row.reason, row.type, row.attempts, row.held)
  <2>1. reason \in AllReasons /\ CountsAsAttempt(reason) \in BOOLEAN
    BY InputAssumption DEF CountsAsAttempt
  <2>2. row \in ShipmentRow /\ row.status = "EXCEPTION"
    BY <1>2, <2>1, OnHoldRow
  <2>3. sh' = LimitEnforced(row).row /\ row.attempts \in Nat
    BY <1>6, <2>2, RowFields DEF RaiseException
  <2> HIDE DEF row
  <2>4. sh'.status \in {"EXCEPTION", "CANCELLED", "RTO_INITIATED"}
    BY <1>2, <2>2, <2>3, Limit, LimitedRow DEF NoStatus
  <2> QED BY <1>1, <2>4
<1>7. ASSUME NEW reason \in Reasons, WorkerHold(reason) \/ EditReason(reason)
      PROVE  FALSE
  <2>1. reason \in AllReasons
    BY InputAssumption
  <2>2. CASE WorkerHold(reason)
    BY <1>1, <1>2, <2>1, <2>2, OnHoldRow DEF WorkerHold
  <2>3. CASE EditReason(reason)
    BY <1>1, <1>2, <2>3 DEF EditReason, ShipmentRow
  <2> QED BY <1>7, <2>2, <2>3
<1>8. ASSUME NEW action, NdrAction(action)
      PROVE  FALSE
  <2>1. PICK priced \in ActionBills(action), waive \in BOOLEAN :
            LET target == ActionTarget(action)
                row == [sh EXCEPT !.cod = priced.cod]
            IN  /\ sh' = Finalized(row, priced.bill, target, waive).row
                /\ row \in ShipmentRow /\ row.status = sh.status
                /\ Sound(priced.bill) /\ target \in Statuses \cup {NoStatus}
    BY <1>2, <1>8, NdrParts
  <2> DEFINE target == ActionTarget(action)
             row == [sh EXCEPT !.cod = priced.cod]
  <2>2. target \in {NoStatus, "CANCELLED", "OPEN", "ASSIGNED", "IN_TRANSIT"} \cup RtoLeg
    BY <1>2, Targets
  <2> HIDE DEF target, row
  <2>3. /\ sh' = Finalized(row, priced.bill, target, waive).row
        /\ row \in ShipmentRow /\ row.status = sh.status
        /\ Sound(priced.bill) /\ target \in Statuses \cup {NoStatus}
    BY <2>1 DEF target, row
  <2>4. /\ target # NoStatus => sh'.status = target
        /\ target = NoStatus => sh'.status = sh.status
    BY <2>3, FinalizedRow
  <2>5. sh.status = "EXCEPTION"
    BY <1>8 DEF NdrAction
  <2> QED BY <1>1, <2>2, <2>4, <2>5 DEF RtoLeg
<1>9. ASSUME NEW requested \in Statuses, PatchStatus(requested)
      PROVE  bill'.paid = 0
  <2>1. sh'.status = CancelConverted(requested) /\ bill' = StatusBill(CancelConverted(requested))
    BY <1>2, <1>9, PatchParts
  <2> QED BY <1>1, <1>2, <2>1, StatusBilled
<1>10. CASE CancelShipment
  BY <1>1, <1>2, <1>10, CancelParts
<1>11. ASSUME NEW f \in Freight, RecordMeasurement(f) \/ EditPrice(f) \/ EditCod
       PROVE  FALSE
  <2>1. sh'.status = sh.status
    BY <1>2, <1>11, PriceParts
  <2>2. sh.status # "LOST"
    BY <1>11 DEF RecordMeasurement, EditPrice, EditCod, PrePickup, ContractInv, Plain
  <2> QED BY <1>1, <2>1, <2>2
<1>12. ASSUME NEW f \in Freight, RaiseClaim \/ RejectClaim \/ AcceptClaim(f)
       PROVE  bill'.paid = 0
  BY <1>1, <1>3, <1>12 DEF RaiseClaim, RejectClaim, AcceptClaim, ContractInv, Plain
<1>13. ~(ReadForAppointment \/ WriteAppointment)
  BY DEF ReadForAppointment, WriteAppointment, ContractInv, TurnInv, InTurn
<1>14. PICK f : f \in Freight
  BY MoneyAssumption
<1>15. CASE UNCHANGED vars
  BY <1>1, <1>3, <1>15 DEF vars
<1> QED BY <1>4, <1>5, <1>6, <1>7, <1>8, <1>9, <1>10, <1>11, <1>12, <1>13, <1>14, <1>15 DEF Next

LEMMA ContractStep == ContractInv /\ [Next]_vars => ContractInv'
BY TurnStep, LostStep DEF ContractInv, Plain, InTurn

\* The state of the contract, spelt out.
LEMMA ContractFromPlace ==
    /\ Contract!Init <=> Place = "seller" /\ (bill.paid > 0) = TRUE
    /\ Contract!Next <=>
         \/ Place = "seller" /\ Place' = "courier" /\ (bill'.paid > 0) = (bill.paid > 0)
         \/ Place = "courier" /\ Place' \in {"delivered", "returning"} /\ (bill'.paid > 0) = (bill.paid > 0)
         \/ Place = "returning" /\ Place' = "returned" /\ (bill'.paid > 0) = (bill.paid > 0)
         \/ Place = "seller" /\ Place' = "withdrawn" /\ bill.paid > 0 /\ (bill'.paid > 0) = FALSE
         \/ /\ Place \in {"courier", "returning"} /\ Place' = "lost"
            /\ bill.paid > 0 /\ (bill'.paid > 0) = FALSE
         \/ /\ Place = "lost" /\ Place' \in {"courier", "returning"}
            /\ ~(bill.paid > 0) /\ (bill'.paid > 0) = TRUE
BY DEF Contract!Init, Contract!Next, Contract!PickUp, Contract!Deliver, Contract!TurnBack,
   Contract!HandBack, Contract!Withdraw, Contract!Lose, Contract!Find, Contract!Move, Place

\* Who holds the parcel and whether the seller's money is kept follow the contract through
\* every exception, retry, correction, claim and recovery.
THEOREM ContractKept == Plain /\ Spec => KeepsContract
<1>1. Plain /\ Init => ContractInv
  <2>1. Init => sh.status = "OPEN"
    BY DEF Init
  <2> QED BY <2>1, TurnInit DEF ContractInv, Plain, LostUnpaid
<1>2. ContractInv /\ [Next]_vars => ContractInv'
  BY ContractStep
<1>3. Init /\ ContractInv => Contract!Init
  <2> SUFFICES ASSUME Init, ContractInv PROVE Contract!Init
    OBVIOUS
  <2>1. sh.status = "OPEN"
    BY DEF Init
  <2>2. Place = "seller"
    BY <2>1, Places, StatusKinds DEF Place, PrePickup
  <2>3. bill.paid > 0
    BY <2>2, ChargedPlace DEF ChargedWhere
  <2> QED BY <2>2, <2>3, ContractFromPlace
<1>4. ContractInv' => ChargedWhere'
  BY ChargedPlace, PTL
<1>5. ContractInv /\ ContractInv' /\ [Next]_vars => [Contract!Next]_<<Place, bill.paid > 0>>
  <2> SUFFICES ASSUME ContractInv, ContractInv', [Next]_vars
               PROVE  Contract!Next \/ (Place' = Place /\ (bill'.paid > 0) = (bill.paid > 0))
    OBVIOUS
  <2>1. Onward(Place, Place')
    BY TurnMoves DEF ContractInv, Plain, Moves, Overridden
  <2>2. (bill.paid > 0) <=> Place \notin {"withdrawn", "lost"}
    BY ChargedPlace DEF ChargedWhere
  <2>3. (bill'.paid > 0) <=> Place' \notin {"withdrawn", "lost"}
    BY <1>4 DEF ChargedWhere
  <2> QED BY <2>1, <2>2, <2>3, ContractFromPlace DEF Onward
<1> QED BY <1>1, <1>2, <1>3, <1>5, PTL DEF Spec, KeepsContract, Contract!Spec, Place

=============================================================================
