----------------------------- MODULE MCShipment -----------------------------
\* Small instances of Shipment for TLC: money amounts whose sums tell the parts of a bill
\* apart, and the operations each run lets users issue.
EXTENDS Shipment

SmallFreight == {10, 20}

JourneyReasons ==
    {"CONSIGNEE_REFUSED", "CUSTOMER_UNAVAILABLE", "PICKUP_FAILED", "DAMAGED",
     "APPOINTMENT_NEEDED", "PAYMENT_DISPUTE", "SHORT_SHIPMENT", "FREIGHT_COLLECTION",
     "WEIGHT_DISCREPANCY"}
JourneyOps == {"pur", "patch", "raise", "worker", "ndr", "waive", "cancel", "edit", "cod",
               "measure", "claim"}

BillingReasons == {"FREIGHT_COLLECTION", "WEIGHT_DISCREPANCY"}

\* Bound: a shipment that is weighed or charged is a forward B2C one with no failed attempt, and a
\* COD one is charged nothing else and is at most one freight dearer.
WeighedAlone ==
    claim # NoDispute \/ bill.extra > 0 \/ sh.reason \in BillingReasons =>
        /\ sh.type = "FORWARD" /\ ~sh.b2b /\ sh.attempts = 0 /\ ~waived
        /\ sh.reason \in BillingReasons \cup {NoReason}
        /\ sh.cod => bill.extra = 0 /\ claim.diff <= 10

\* Handlers out of turn: appointments booked late, holds re-labelled, pickups of held parcels.
OutOfTurnReasons == {"APPOINTMENT_NEEDED", "PICKUP_FAILED", "EWAY_BILL_MISSING"}
OutOfTurnOps == Operations \ {"measure", "cod", "claim", "claimLost"}
=============================================================================
