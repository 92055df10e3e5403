--------------------------- MODULE CarrierBilling ---------------------------
(***************************************************************************)
(* The carrier booking card of a shipment (components/carrier) with its        *)
(* endpoints (services/pricing/carrier_billing.py): operations enter the      *)
(* carrier's AWB and charge, admins recover what the seller was billed too     *)
(* little or set another price, and the wallet follows. Amounts include GST    *)
(* unless they are said to be net of it.                                     *)
(***************************************************************************)
EXTENDS Integers

CONSTANTS None,
    Role,                   \* of the person at the card
    InDialog,               \* on the operations desk the card is in a dialog and knows no status
    Ways,                   \* what is done: "book", "recover", "price"
    Amounts, Weights,       \* what the carrier may have charged
    Gst,                    \* an amount with GST is so many times the one without
    MaxTypings, MaxPresses, MaxOthers, MaxOpens

VARIABLES
    parcel, others,                         \* the server
    open, opens, state, fetch, status,      \* the card, its read, the status its page knows
    editing, form, addingCharge, chargeAmount, typings,
    presses, save, charge, late, loose      \* requests; late is a charge of a card closed since

vars == <<parcel, others, open, opens, state, fetch, status, editing, form, addingCharge, chargeAmount,
          typings, presses, save, charge, late, loose>>
serverVars == <<parcel, others>>
cardVars == <<open, opens, status>>
readVars == <<state, fetch>>
formVars == <<editing, form, addingCharge, chargeAmount, typings>>
flightVars == <<presses, save, charge, late>>

IsStaff == Role # "customer"
CanOperate == Role \in {"operations", "admin"}
CanManageFinance == Role = "admin"

Loading == [kind |-> "loading", billing |-> None]
NotReading == [at |-> "idle", seen |-> None]
NotSaving == [at |-> "idle", body |-> None, seen |-> None]
NotCharging == [at |-> "idle", kind |-> None, amount |-> None, on |-> None, seen |-> None, there |-> None]
NoForm == [awb |-> None, kg |-> None, amount |-> None]

-----------------------------------------------------------------------------
(* The server.                                                             *)

Net(amount) == amount \div Gst

\* The quote follows the weight; what staff added or set differs from it by so much.
Engine(p) == Gst * (IF p.weighed.kg = None THEN 1 ELSE p.weighed.kg)
TotalCost(p) == Engine(p) + p.extras + p.override

\* _gap_verdict: only what is missing before GST counts.
Shortfall(p) == Net(p.amount) - Net(TotalCost(p))
GapAmount(p) == IF p.amount = None THEN None ELSE IF Shortfall(p) <= 0 THEN 0 ELSE Shortfall(p)
BuildCarrierBillingRead(p) ==
    [awb |-> p.awb, kg |-> p.kg, amount |-> p.amount, billed |-> TotalCost(p),
     gap |-> GapAmount(p), gross |-> IF GapAmount(p) = None THEN None ELSE Gst * GapAmount(p)]
HasGap(billing) == billing.gap \notin {None, 0}

\* _plan_movements: the wallet pays or gets back the difference to the new bill, but never gets back more
\* than was paid: a price that was set stays a difference to the quote, so a bill can fall below zero.
Owed(bill) == IF bill > 0 THEN bill ELSE 0
Settled(p) == [p EXCEPT !.paid = Owed(TotalCost(p))]

\* An override replaces the one before; an extra charge comes on top.
OverrideOnTop(p, price) == [p EXCEPT !.override = p.override + price - Engine(p) - p.extras]
WithOverride(p, price) == [p EXCEPT !.override = price - Engine(p) - p.extras]
Overridden(p, price) == Settled(WithOverride(p, price))
Extra(p, amount) == Settled([p EXCEPT !.extras = @ + amount])
AdminCharge(p, c) == IF c.kind = "price" THEN Overridden(p, c.amount) ELSE Extra(p, c.amount)

\* What is left blank keeps what was stored.
Kept(new, old) == IF new = None THEN old ELSE new
PersistCarrierBilled(p, b) == [p EXCEPT !.awb = b.awb, !.kg = Kept(b.kg, p.kg), !.amount = Kept(b.amount, p.amount)]
NewWeight(p, b) == b.kg # None /\ p.weighed # [by |-> "carrier", kg |-> b.kg]
RecordCarrierWeight(p, b) ==
    IF NewWeight(p, b) THEN Settled([p EXCEPT !.weighed = [by |-> "carrier", kg |-> b.kg]]) ELSE p
UpdateCarrierBilling(p, b) == PersistCarrierBilled(RecordCarrierWeight(p, b), b)

\* An AWB of another shipment is refused, and so is a new price of a cancelled one.
SaveRefused(p, b) == b.awb = "taken" \/ (p.cancelled /\ NewWeight(p, b))

-----------------------------------------------------------------------------
(* The card.                                                               *)

Ready == open /\ state.kind = "ready"
IsCancelled == status = "cancelled"
EditShown == Ready /\ CanOperate /\ ~editing /\ ~addingCharge /\ ~IsCancelled
AddChargeShown == Ready /\ CanManageFinance /\ ~editing /\ ~addingCharge /\ ~IsCancelled
FormShown == Ready /\ editing /\ CanOperate
PriceShown == Ready /\ ~editing /\ addingCharge /\ CanManageFinance
RecoverShown == Ready /\ ~editing /\ CanManageFinance /\ HasGap(state.billing)

\* The values of the card, with the margin and what is missing.
Shown == IF Ready /\ ~editing THEN state.billing ELSE None

Free(flight) == flight.at = "idle"
UnderWay(flight) == flight.at \notin {"idle", "failed"}

Init ==
    /\ \E a \in Amounts \cup {None} :
           parcel = [awb |-> IF a = None THEN None ELSE "mine", kg |-> None, amount |-> a, weighed |-> [by |-> None, kg |-> None],
                     extras |-> 0, override |-> 0, paid |-> Gst, cancelled |-> FALSE]
    /\ others = 0 /\ open = ~InDialog /\ opens = 0 /\ status = "live"
    /\ state = Loading /\ fetch = [NotReading EXCEPT !.at = IF InDialog \/ ~IsStaff THEN "idle" ELSE "going"]
    /\ editing = FALSE /\ form = NoForm /\ addingCharge = FALSE /\ chargeAmount = None /\ typings = 0
    /\ presses = 0 /\ save = NotSaving /\ charge = NotCharging /\ late = NotCharging /\ loose = FALSE

\* Another member of staff books, recovers, sets a price or weighs; or the shipment is cancelled and
\* its bill refunded.
OthersAct ==
    /\ others < MaxOthers /\ others' = others + 1 /\ ~parcel.cancelled /\ loose' = TRUE
    /\ \/ \E a \in Amounts : parcel' = UpdateCarrierBilling(parcel, [awb |-> "theirs", kg |-> None, amount |-> a])
       \/ HasGap(BuildCarrierBillingRead(parcel)) /\ parcel' = Extra(parcel, BuildCarrierBillingRead(parcel).gross)
       \/ \E w \in Weights : parcel' = Settled([parcel EXCEPT !.weighed = [by |-> "hub", kg |-> w]])
       \/ parcel' = [parcel EXCEPT !.cancelled = TRUE, !.paid = 0]
    /\ UNCHANGED <<cardVars, readVars, formVars, flightVars>>

\* The dialog mounts a card of its own each time.
Open ==
    /\ InDialog /\ ~open /\ opens < MaxOpens /\ opens' = opens + 1 /\ open' = TRUE /\ IsStaff
    /\ state' = Loading /\ fetch' = [NotReading EXCEPT !.at = "going"]
    /\ UNCHANGED <<serverVars, status, formVars, flightVars, loose>>

\* Its requests go on without it. (One of each kind is followed.)
Close ==
    /\ InDialog /\ open /\ open' = FALSE /\ Free(late) /\ Free(save)
    /\ state' = Loading /\ fetch' = NotReading
    /\ editing' = FALSE /\ form' = NoForm /\ addingCharge' = FALSE /\ chargeAmount' = None
    /\ late' = charge /\ charge' = NotCharging
    /\ UNCHANGED <<serverVars, opens, status, typings, presses, save, loose>>

\* A read begins a card anew, unless a request of the one before is still on its way.
ServeFetch(reaches) ==
    /\ fetch.at = "going"
    /\ IF reaches THEN fetch' = [at |-> "read", seen |-> BuildCarrierBillingRead(parcel)] /\ loose' = ~Free(late)
       ELSE fetch' = [fetch EXCEPT !.at = "failed"] /\ UNCHANGED loose
    /\ UNCHANGED <<serverVars, cardVars, state, formVars, flightVars>>

FetchAnswered ==
    /\ fetch.at \in {"read", "failed"} /\ fetch' = NotReading
    /\ state' = IF fetch.at = "read" THEN [kind |-> "ready", billing |-> fetch.seen] ELSE [Loading EXCEPT !.kind = "error"]
    /\ UNCHANGED <<serverVars, cardVars, formVars, flightVars, loose>>

Retry ==
    /\ open /\ state.kind = "error" /\ state' = Loading /\ fetch' = [NotReading EXCEPT !.at = "going"]
    /\ UNCHANGED <<serverVars, cardVars, formVars, flightVars, loose>>

\* The page around the card reads the shipment again.
PageRead ==
    /\ ~InDialog /\ status = "live" /\ parcel.cancelled /\ status' = "cancelled"
    /\ UNCHANGED <<serverVars, open, opens, readVars, formVars, flightVars, loose>>

\* The form starts from what the card shows.
Edit ==
    /\ EditShown /\ "book" \in Ways /\ presses < MaxPresses /\ editing' = TRUE
    /\ form' = [awb |-> state.billing.awb, kg |-> state.billing.kg, amount |-> state.billing.amount]
    /\ UNCHANGED <<serverVars, cardVars, readVars, addingCharge, chargeAmount, typings, flightVars, loose>>

TypeForm ==
    /\ FormShown /\ typings < MaxTypings /\ typings' = typings + 1
    /\ \/ \E a \in {"mine", "taken"} : a # form.awb /\ form' = [form EXCEPT !.awb = a]
       \/ \E w \in Weights \cup {None} : w # form.kg /\ form' = [form EXCEPT !.kg = w]
       \/ \E a \in Amounts \cup {None} : a # form.amount /\ form' = [form EXCEPT !.amount = a]
    /\ UNCHANGED <<serverVars, cardVars, readVars, editing, addingCharge, chargeAmount, flightVars, loose>>

CancelEdit ==
    /\ FormShown /\ Free(save) /\ editing' = FALSE /\ form' = NoForm
    /\ UNCHANGED <<serverVars, cardVars, readVars, addingCharge, chargeAmount, typings, flightVars, loose>>

\* The price at first: what the carrier charged when that is more, else the bill, if there is one.
FirstPrice(billing) ==
    IF HasGap(billing) /\ billing.amount # 0 THEN billing.amount ELSE IF billing.billed # 0 THEN billing.billed ELSE None
OpenAddCharge ==
    /\ AddChargeShown /\ "price" \in Ways /\ presses < MaxPresses /\ addingCharge' = TRUE
    /\ chargeAmount' = FirstPrice(state.billing)
    /\ UNCHANGED <<serverVars, cardVars, readVars, editing, form, typings, flightVars, loose>>

TypePrice ==
    /\ PriceShown /\ typings < MaxTypings /\ typings' = typings + 1
    /\ \E a \in Amounts \cup {None} : a # chargeAmount /\ chargeAmount' = a
    /\ UNCHANGED <<serverVars, cardVars, readVars, editing, form, addingCharge, flightVars, loose>>

CancelPrice ==
    /\ PriceShown /\ Free(charge) /\ addingCharge' = FALSE
    /\ UNCHANGED <<serverVars, cardVars, readVars, editing, form, chargeAmount, typings, flightVars, loose>>

BookingRules(f) == f.awb # None

\* A booking that goes while a charge is on its way: nobody orders the two, nor their answers.
Submit ==
    /\ FormShown /\ Free(save) /\ BookingRules(form) /\ presses < MaxPresses /\ presses' = presses + 1
    /\ save' = [NotSaving EXCEPT !.at = "going", !.body = form] /\ loose' = (loose \/ ~Free(charge))
    /\ UNCHANGED <<serverVars, cardVars, readVars, formVars, charge, late>>

Press(kind, amount) ==
    /\ Free(charge) /\ presses < MaxPresses /\ presses' = presses + 1
    /\ charge' = [NotCharging EXCEPT !.at = "going", !.kind = kind, !.amount = amount, !.on = state.billing]
    /\ UNCHANGED <<serverVars, cardVars, readVars, formVars, save, late, loose>>

\* The gap goes with GST.
GapWithoutGst(billing) == billing.gap
Recoverable(billing) == billing.gross
HandleRecoverGap == RecoverShown /\ "recover" \in Ways /\ Press("recover", Recoverable(state.billing))
ValidPrice(price) == price # None /\ price > 0
HandleSubmitAdminCharge == PriceShown /\ ValidPrice(chargeAmount) /\ Press("price", chargeAmount)

\* PUT carrier-billing: the whole booking, whatever was stored since the form was filled.
ServeSave(reaches, answers) ==
    /\ save.at = "going"
    /\ IF reaches /\ ~SaveRefused(parcel, save.body)
       THEN LET p == UpdateCarrierBilling(parcel, save.body)
            IN  /\ parcel' = p /\ loose' = (loose \/ ~answers)
                /\ save' = IF answers THEN [save EXCEPT !.at = "answered", !.seen = BuildCarrierBillingRead(p)] ELSE [save EXCEPT !.at = "failed"]
       ELSE save' = [save EXCEPT !.at = "failed"] /\ UNCHANGED <<parcel, loose>>
    /\ UNCHANGED <<others, cardVars, readVars, formVars, presses, charge, late>>

\* POST admin-charge: a recovery is charged whether or not the gap is still there.
Served(c, answers) ==
    [c EXCEPT !.at = IF answers THEN "answered" ELSE "failed", !.seen = BuildCarrierBillingRead(AdminCharge(parcel, c)),
              !.there = BuildCarrierBillingRead(parcel)]
ServeCharge(reaches, answers) ==
    /\ charge.at = "going"
    /\ IF reaches /\ ~parcel.cancelled
       THEN charge' = Served(charge, answers) /\ parcel' = AdminCharge(parcel, charge) /\ loose' = (loose \/ ~answers)
       ELSE charge' = [charge EXCEPT !.at = "failed"] /\ UNCHANGED <<parcel, loose>>
    /\ UNCHANGED <<others, cardVars, readVars, formVars, presses, save, late>>

\* A charge of a card closed since: its answer has no card to change.
ServeLate(reaches) ==
    /\ late.at = "going" /\ late' = NotCharging
    /\ IF reaches /\ ~parcel.cancelled THEN parcel' = AdminCharge(parcel, late) /\ loose' = TRUE
       ELSE UNCHANGED <<parcel, loose>>
    /\ UNCHANGED <<others, cardVars, readVars, formVars, presses, save, charge>>
LateAnswered ==
    /\ late.at \in {"answered", "failed"} /\ late' = NotCharging
    /\ UNCHANGED <<serverVars, cardVars, readVars, formVars, presses, save, charge, loose>>

\* The card takes what the answer says and shuts both forms.
ShowsWhatItDid(seen) == state' = state
TakesTheAnswer(seen) == state' = [kind |-> "ready", billing |-> seen]
SetSaved(seen) == TakesTheAnswer(seen)
HandleSaved(seen) == SetSaved(seen) /\ editing' = FALSE /\ form' = NoForm /\ addingCharge' = FALSE

SaveAnswered ==
    /\ save.at = "answered" /\ save' = NotSaving
    /\ IF open THEN HandleSaved(save.seen) ELSE UNCHANGED <<state, editing, form, addingCharge>>
    /\ UNCHANGED <<serverVars, cardVars, fetch, chargeAmount, typings, presses, charge, late, loose>>

\* A failure is told and nothing is read again.
FormStays == UNCHANGED <<editing, form>>
FormShut == editing' = FALSE /\ form' = NoForm
FormOnFailure == FormStays
SaveFailed ==
    /\ save.at = "failed" /\ save' = NotSaving /\ FormOnFailure
    /\ UNCHANGED <<serverVars, cardVars, readVars, addingCharge, chargeAmount, typings, presses, charge, late, loose>>

ChargeAnswered ==
    /\ charge.at = "answered" /\ charge' = NotCharging /\ HandleSaved(charge.seen)
    /\ chargeAmount' = IF charge.kind = "price" THEN None ELSE chargeAmount
    /\ UNCHANGED <<serverVars, cardVars, fetch, typings, presses, save, late, loose>>

ChargeFailed ==
    /\ charge.at = "failed" /\ charge' = NotCharging
    /\ UNCHANGED <<serverVars, cardVars, readVars, formVars, presses, save, late, loose>>

Next ==
    \/ OthersAct \/ PageRead
    \/ Open \/ Close \/ Retry \/ FetchAnswered \/ (\E r \in BOOLEAN : ServeFetch(r))
    \/ Edit \/ TypeForm \/ CancelEdit \/ Submit \/ OpenAddCharge \/ TypePrice \/ CancelPrice
    \/ HandleRecoverGap \/ HandleSubmitAdminCharge
    \/ \E r, a \in BOOLEAN : ServeSave(r, a) \/ ServeCharge(r, a)
    \/ \E r \in BOOLEAN : ServeLate(r)
    \/ LateAnswered \/ SaveAnswered \/ SaveFailed \/ ChargeAnswered \/ ChargeFailed

-----------------------------------------------------------------------------
(* Properties.                                                             *)

\* What is stored, shown and typed of the booking, and where the requests are.
TypeOK ==
    /\ parcel.extras \in Nat /\ parcel.override \in Int /\ parcel.paid \in Nat /\ parcel.cancelled \in BOOLEAN
    /\ parcel.amount \in Amounts \cup {None} /\ parcel.kg \in Weights \cup {None} /\ parcel.weighed.kg \in Weights \cup {None}
    /\ state.kind \in {"loading", "ready", "error"} /\ (state.kind = "ready" <=> state.billing # None)
    /\ form.awb \in {None, "mine", "theirs", "taken"} /\ chargeAmount \in Int \cup {None}
    /\ fetch.at \in {"idle", "going", "read", "failed"} /\ save.at \in {"idle", "going", "answered", "failed"}
    /\ {charge.at, late.at} \subseteq {"idle", "going", "answered", "failed"} /\ loose \in BOOLEAN

\* At rest the card shows the booking as it is, unless somebody else changed it, an answer was lost
\* or two requests were on their way together; a recovery leaves nothing missing and nothing too
\* much, a price set is the bill, and the wallet has paid the bill, or nothing for one below zero.
ActedAsShown ==
    /\ Shown # None /\ ~loose /\ ~UnderWay(save) /\ ~UnderWay(charge) => Shown = BuildCarrierBillingRead(parcel)
    /\ charge.seen # None /\ charge.kind = "price" => charge.seen.billed = charge.amount
    /\ charge.seen # None /\ charge.kind = "recover" /\ charge.on = charge.there => charge.seen.billed = charge.seen.amount
    /\ ~parcel.cancelled => parcel.paid = Owed(TotalCost(parcel))

\* A gap is charged while it is there: once, unless the card no longer shows what is.
OncePerIntent == charge.kind = "recover" /\ charge.seen # None /\ ~loose => charge.there.gross = charge.amount

\* A failed request leaves both forms alone, as long as the dialog is open.
KeepsTyping ==
    open' /\ ((save.at = "failed" /\ save' = NotSaving) \/ (charge.at = "failed" /\ charge' = NotCharging))
        => UNCHANGED <<editing, form, addingCharge, chargeAmount>>
=============================================================================
