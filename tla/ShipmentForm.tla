---------------------------- MODULE ShipmentForm ----------------------------
(***************************************************************************)
(* The first step of the booking wizards: the sections of the form, the     *)
(* fields one choice hides or resets in another, the valuation of the goods *)
(* that the server answers while the user goes on typing, the rules "Compare *)
(* rates" checks (zod), what the quote is asked for and what is booked.      *)
(***************************************************************************)
EXTENDS Naturals, Sequences

CONSTANTS None, Sections, MaxBoxes, MaxAsks

Pages == {"forward", "b2b", "reverse"}
\* One behaviour edits the fields of one section ("payment", "cargo" or "papers"); those of the
\* others start filled in.
Ends == {"pickup", "delivery"}
\* Amounts: nothing, below and above the threshold of the e-way bill.
Amounts == 0..2
Threshold == 2

VARIABLES page, section,
          value, valued, eway,             \* goods value typed; the one last valued; e-way bill number
          cod, codAmount, addShipping,     \* cash on delivery
          category, described,             \* product category and, for OTHER, its description
          blind, estimate, boxes, door,    \* blind pickup, estimated boxes, measured boxes, door delivery
          address, invoices,               \* the two addresses; GST invoice numbers
          step, asked, newest, quote, sent \* quotes under way, the last one asked for, the one on screen; the booking

moneyVars == <<value, valued, eway, cod, codAmount, addShipping>>
cargoVars == <<category, described, blind, estimate, boxes>>
paperVars == <<address, invoices>>
flowVars == <<step, asked, newest, quote, sent>>
vars == <<page, section, moneyVars, cargoVars, door, paperVars, flowVars>>

Asks == 1..MaxAsks
Filled(s) == section # s

Init ==
    /\ page \in Pages /\ section \in Sections
    /\ value = (IF Filled("payment") THEN 1 ELSE 0) /\ valued = value /\ eway = FALSE
    /\ cod = FALSE /\ codAmount = 0 /\ addShipping = FALSE
    /\ category = (IF Filled("cargo") THEN "plain" ELSE "none") /\ described = FALSE
    /\ blind = FALSE /\ estimate = None /\ boxes = <<Filled("cargo") \/ page = "reverse">> /\ door = FALSE
    /\ address = [e \in Ends |-> IF Filled("papers") THEN "saved" ELSE "none"]
    /\ invoices = (IF page = "b2b" /\ Filled("papers") THEN "given" ELSE "none")
    /\ step = 0 /\ asked = [a \in Asks |-> None] /\ newest = None /\ quote = None /\ sent = None

Editing(s) == step = 0 /\ section = s
EwayRequired == valued >= Threshold

-----------------------------------------------------------------------------
(* Payment.                                                                *)

TypeValue(v) ==
    /\ Editing("payment") /\ v # value /\ value' = v
    /\ UNCHANGED <<page, section, valued, eway, cod, codAmount, addShipping, cargoVars, door, paperVars, flowVars>>

\* useShipmentValuation: the answer for the value typed last, on either step; older ones are dropped,
\* a failed one keeps the last good valuation.
Valuation ==
    /\ step = 0 /\ valued # value /\ valued' = value
    /\ UNCHANGED <<page, section, value, eway, cod, codAmount, addShipping, cargoVars, door, paperVars, flowVars>>

\* The B2C form shows the number only while it is required; it is kept when hidden again.
TypeEwayBill ==
    /\ Editing("payment") /\ page # "reverse" /\ (page = "forward" => EwayRequired)
    /\ eway' = ~eway
    /\ UNCHANGED <<page, section, value, valued, cod, codAmount, addShipping, cargoVars, door, paperVars, flowVars>>

\* The B2C checkbox fills the amount with the total as valued by then, and clears it again.
ToggleCod ==
    /\ Editing("payment") /\ page = "forward"
    /\ cod' = ~cod /\ codAmount' = (IF cod THEN 0 ELSE valued) /\ addShipping' = FALSE
    /\ UNCHANGED <<page, section, value, valued, eway, cargoVars, door, paperVars, flowVars>>

\* A variant for mutation testing: "add shipping" stays ticked without cash on delivery.
ToggleB2BCodAlone ==
    /\ Editing("payment") /\ page = "b2b"
    /\ cod' = ~cod /\ addShipping' = addShipping
    /\ UNCHANGED <<page, section, value, valued, eway, codAmount, cargoVars, door, paperVars, flowVars>>

\* The B2B checkbox leaves the amount as it was.
ToggleB2BCod ==
    /\ Editing("payment") /\ page = "b2b"
    /\ cod' = ~cod /\ addShipping' = (addShipping /\ ~cod)
    /\ UNCHANGED <<page, section, value, valued, eway, codAmount, cargoVars, door, paperVars, flowVars>>

TypeCodAmount(v) ==
    /\ Editing("payment") /\ cod /\ v # codAmount /\ codAmount' = v
    /\ UNCHANGED <<page, section, value, valued, eway, cod, addShipping, cargoVars, door, paperVars, flowVars>>

TickAddShipping ==
    /\ Editing("payment") /\ cod /\ addShipping' = ~addShipping
    /\ UNCHANGED <<page, section, value, valued, eway, cod, codAmount, cargoVars, door, paperVars, flowVars>>

-----------------------------------------------------------------------------
(* Cargo.                                                                  *)

\* The description shows for OTHER only, and stays when another category is chosen.
ChooseCategory(c) ==
    /\ Editing("cargo") /\ c # category /\ category' = c
    /\ UNCHANGED <<page, section, moneyVars, described, blind, estimate, boxes, door, paperVars, flowVars>>

Describe ==
    /\ Editing("cargo") /\ category = "other" /\ described' = ~described
    /\ UNCHANGED <<page, section, moneyVars, category, blind, estimate, boxes, door, paperVars, flowVars>>

\* A blind pickup hides the boxes and asks for an estimate; the boxes stay in the form.
ToggleBlind ==
    /\ Editing("cargo") /\ page = "b2b"
    /\ blind' = ~blind /\ estimate' = (IF blind THEN None ELSE 1)
    /\ UNCHANGED <<page, section, moneyVars, category, described, boxes, door, paperVars, flowVars>>

TypeEstimate(n) ==
    /\ Editing("cargo") /\ blind /\ n # estimate /\ estimate' = n
    /\ UNCHANGED <<page, section, moneyVars, category, described, blind, boxes, door, paperVars, flowVars>>

\* A box is measured, or one of its sides is emptied.
MeasureBox(i) ==
    /\ Editing("cargo") /\ ~blind /\ i \in DOMAIN boxes /\ boxes' = [boxes EXCEPT ![i] = ~@]
    /\ UNCHANGED <<page, section, moneyVars, category, described, blind, estimate, door, paperVars, flowVars>>

AddBox ==
    /\ Editing("cargo") /\ ~blind /\ Len(boxes) < MaxBoxes
    /\ boxes' = Append(boxes, page = "reverse")
    /\ UNCHANGED <<page, section, moneyVars, category, described, blind, estimate, door, paperVars, flowVars>>

RemoveBox(i) ==
    /\ Editing("cargo") /\ ~blind /\ Len(boxes) > 1 /\ i \in DOMAIN boxes
    /\ boxes' = SubSeq(boxes, 1, i - 1) \o SubSeq(boxes, i + 1, Len(boxes))
    /\ UNCHANGED <<page, section, moneyVars, category, described, blind, estimate, door, paperVars, flowVars>>

-----------------------------------------------------------------------------
(* Addresses and papers.                                                   *)

\* A saved address from the list, one typed in the dialog, or the bin on its card.
SetAddress(e, how) ==
    /\ Editing("papers") /\ (address[e] = "none") # (how = "none")
    /\ address' = [address EXCEPT ![e] = how]
    /\ UNCHANGED <<page, section, moneyVars, cargoVars, door, invoices, flowVars>>

\* The B2B list of invoice numbers: empty, one blank line, or a number given.
SetInvoices(i) ==
    /\ Editing("papers") /\ page = "b2b" /\ i # invoices
    /\ (i = "given" => invoices = "blank") /\ invoices' = i
    /\ UNCHANGED <<page, section, moneyVars, cargoVars, door, address, flowVars>>

-----------------------------------------------------------------------------
(* The rules and what is sent.                                             *)

AddressRules == \A e \in Ends : address[e] # "none"
CategoryRules == category # "none" /\ (category = "other" => described)
CodRules == cod => codAmount > 0 /\ codAmount <= valued
BoxRules == \A i \in DOMAIN boxes : boxes[i]
EwayRules == EwayRequired => eway

ForwardRules == EwayRules /\ BoxRules /\ CategoryRules /\ CodRules /\ AddressRules
ReverseRules == BoxRules /\ CategoryRules /\ CodRules /\ AddressRules
B2BRules ==
    /\ IF blind THEN estimate \notin {None, 0} ELSE BoxRules
    /\ EwayRules /\ CategoryRules /\ CodRules /\ AddressRules
B2BBookingRules == value > 0 /\ invoices = "given"

\* buildPaymentInputs: an amount counts only with the box ticked.
PaymentInputs(a) ==
    [cod |-> cod, codAmount |-> IF cod THEN a ELSE 0, addShipping |-> cod /\ addShipping, value |-> value]

\* packagesFor.
PackagesFor(b) == IF blind THEN <<>> ELSE b

\* What the price depends on: the QuoteRequest of each page, and the same fields of its booking.
ForwardInputs ==
    [payment |-> PaymentInputs(codAmount), packages |-> boxes, estimate |-> None, door |-> FALSE]

ReverseInputs == [ForwardInputs EXCEPT !.payment.cod = FALSE]

B2BInputs(d) ==
    [payment |-> PaymentInputs(codAmount), packages |-> PackagesFor(boxes),
     estimate |-> IF blind THEN estimate ELSE None, door |-> d]

-----------------------------------------------------------------------------
(* From the form to the quotes and the booking.                            *)

Quoting == \E a \in Asks : asked[a] # None

\* requestQuote; an answer under way is not cancelled.
Ask(inputs, d) ==
    \E a \in Asks :
        /\ asked[a] = None /\ \A b \in Asks : b < a => asked[b] # None
        /\ asked' = [asked EXCEPT ![a] = [inputs |-> inputs, compare |-> d = door]]
        /\ newest' = a /\ quote' = None

\* onCompareRates of the three pages: the rules, then the quote for what the form holds.
CompareForward ==
    /\ step = 0 /\ page = "forward" /\ ForwardRules
    /\ Ask(ForwardInputs, door) /\ step' = 1
    /\ UNCHANGED <<page, section, moneyVars, cargoVars, door, paperVars, sent>>

CompareReverse ==
    /\ step = 0 /\ page = "reverse" /\ ReverseRules
    /\ Ask(ReverseInputs, door) /\ step' = 1
    /\ UNCHANGED <<page, section, moneyVars, cargoVars, door, paperVars, sent>>

CompareB2B ==
    /\ step = 0 /\ page = "b2b" /\ B2BRules /\ B2BBookingRules
    /\ Ask(B2BInputs(door), door) /\ step' = 1
    /\ UNCHANGED <<page, section, moneyVars, cargoVars, door, paperVars, sent>>

\* A variant for mutation testing: the mode as it was rendered is quoted.
ToggleDoorAsRendered ==
    /\ page = "b2b" /\ step = 1 /\ ~Quoting
    /\ door' = ~door /\ Ask(B2BInputs(door), door)
    /\ UNCHANGED <<page, section, moneyVars, cargoVars, paperVars, step, sent>>

\* handleDoorDeliveryChange, while no quote loads.
ToggleDoor ==
    /\ page = "b2b" /\ step = 1 /\ ~Quoting
    /\ door' = ~door /\ Ask(B2BInputs(~door), ~door)
    /\ UNCHANGED <<page, section, moneyVars, cargoVars, paperVars, step, sent>>

\* The quote asks for an e-way bill the valuation had not asked for yet.
SentBack(a) ==
    asked[a].compare /\ page # "reverse" /\ asked[a].inputs.payment.value >= Threshold /\ ~eway

QuoteAnswered(a) ==
    /\ step < 2 /\ asked[a] # None /\ asked' = [asked EXCEPT ![a] = None]
    /\ quote' = [inputs |-> asked[a].inputs, newest |-> a = newest]
    /\ IF SentBack(a) THEN step' = 0 /\ valued' = asked[a].inputs.payment.value
       ELSE UNCHANGED <<step, valued>>
    /\ UNCHANGED <<page, section, value, eway, cod, codAmount, addShipping, cargoVars, door, paperVars, newest, sent>>

QuoteFailed(a) ==
    /\ step < 2 /\ asked[a] # None /\ asked' = [asked EXCEPT ![a] = None]
    /\ step' = (IF asked[a].compare THEN 0 ELSE step)
    /\ UNCHANGED <<page, section, moneyVars, cargoVars, door, paperVars, newest, quote, sent>>

Back ==
    /\ step = 1 /\ step' = 0
    /\ UNCHANGED <<page, section, moneyVars, cargoVars, door, paperVars, asked, newest, quote, sent>>

\* buildBookingPayload of the three pages.
Book(inputs) ==
    /\ step = 1 /\ quote # None /\ step' = 2
    /\ sent' = [inputs |-> inputs, blind |-> blind, eway |-> eway,
                quoted |-> quote.inputs, newest |-> quote.newest]
    /\ UNCHANGED <<page, section, moneyVars, cargoVars, door, paperVars, asked, newest, quote>>

BookForward == page = "forward" /\ Book(ForwardInputs)

BookReverse == page = "reverse" /\ Book(ReverseInputs)

BookB2B == page = "b2b" /\ Book(B2BInputs(door))

Next ==
    \/ \E v \in Amounts : TypeValue(v) \/ TypeCodAmount(v)
    \/ Valuation \/ TypeEwayBill \/ ToggleCod \/ ToggleB2BCod \/ TickAddShipping
    \/ \E c \in {"plain", "other"} : ChooseCategory(c)
    \/ Describe \/ ToggleBlind \/ AddBox
    \/ \E n \in {0, 1} : TypeEstimate(n)
    \/ \E i \in 1..MaxBoxes : MeasureBox(i) \/ RemoveBox(i)
    \/ \E e \in Ends, how \in {"none", "saved", "typed"} : SetAddress(e, how)
    \/ \E i \in {"none", "blank", "given"} : SetInvoices(i)
    \/ CompareForward \/ CompareReverse \/ CompareB2B \/ ToggleDoor \/ Back
    \/ BookForward \/ BookReverse \/ BookB2B
    \/ \E a \in Asks : QuoteAnswered(a) \/ QuoteFailed(a)

Spec == Init /\ [][Next]_vars

-----------------------------------------------------------------------------
(* Properties.                                                             *)

TypeOK ==
    /\ page \in Pages /\ section \in Sections /\ {value, valued, codAmount} \subseteq Amounts
    /\ {eway, cod, addShipping, described, blind, door} \subseteq BOOLEAN
    /\ category \in {"none", "plain", "other"} /\ estimate \in {None, 0, 1}
    /\ Len(boxes) \in 1..MaxBoxes /\ (page # "b2b" => ~blind /\ ~door) /\ (addShipping => cod)
    /\ address \in [Ends -> {"none", "saved", "typed"}] /\ invoices \in {"none", "blank", "given"}
    /\ step \in {0, 1, 2} /\ newest \in Asks \cup {None}

\* A-01: an order that is not cash on delivery collects nothing at the door, whatever amount the
\* hidden fields still hold from an earlier choice.
PrepaidCollectsNothing ==
    sent # None /\ ~sent.inputs.payment.cod =>
        sent.inputs.payment.codAmount = 0 /\ ~sent.inputs.payment.addShipping

\* A blind pickup is booked by its estimate and without boxes, any other by measured boxes and
\* without an estimate, however often the choice was changed.
BlindOrMeasured ==
    sent # None =>
        IF sent.blind THEN sent.inputs.packages = <<>> /\ sent.inputs.estimate = 1
        ELSE sent.inputs.packages # <<>> /\ sent.inputs.estimate = None

\* A-03: what is booked is what the quote on screen was priced for, as long as that quote is the
\* answer to the last request.
QuotedAsBooked ==
    sent # None /\ sent.newest => sent.inputs = sent.quoted

\* Goods above the threshold are not booked without an e-way bill, although the rules look at a
\* valuation that may be late: the quote sends the user back.
EwayBillGiven ==
    sent # None /\ sent.newest /\ page # "reverse" /\ sent.inputs.payment.value >= Threshold => sent.eway

\* What is booked is what the form and the quote showed.
ActedAsShown == PrepaidCollectsNothing /\ BlindOrMeasured /\ QuotedAsBooked /\ EwayBillGiven

=============================================================================
