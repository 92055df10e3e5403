------------------------------- MODULE Custody -------------------------------
(***************************************************************************)
(* What a shipment promises, whatever exceptions, retries and corrections  *)
(* happen on the way: who holds the parcel, and whether the seller's money *)
(* is kept or given back.  Shipment implements it.                         *)
(***************************************************************************)
VARIABLES
    place,        \* where the parcel is, or how its journey ended
    charged       \* the seller's wallet is down for it

Places == {"seller", "courier", "returning", "delivered", "returned", "withdrawn", "lost"}

TypeOK == place \in Places /\ charged \in BOOLEAN

Init == place = "seller" /\ charged = TRUE

Move(from, to) == place \in from /\ place' = to /\ UNCHANGED charged

PickUp == Move({"seller"}, "courier")
Deliver == Move({"courier"}, "delivered")
TurnBack == Move({"courier"}, "returning")
HandBack == Move({"returning"}, "returned")

\* Only a parcel the seller still holds is cancelled for its full price.
Withdraw == place = "seller" /\ place' = "withdrawn" /\ charged /\ charged' = FALSE

\* A lost parcel is refunded, a found one charged again.
Lose == place \in {"courier", "returning"} /\ place' = "lost" /\ charged /\ charged' = FALSE
Find == place = "lost" /\ place' \in {"courier", "returning"} /\ ~charged /\ charged' = TRUE

Next == PickUp \/ Deliver \/ TurnBack \/ HandBack \/ Withdraw \/ Lose \/ Find

Spec == Init /\ [][Next]_<<place, charged>>
=============================================================================
