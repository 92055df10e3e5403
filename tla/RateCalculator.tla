--------------------------- MODULE RateCalculator ---------------------------
(***************************************************************************)
(* The rate calculator of both flows (app/b2b/rate-calculator) and the link  *)
(* that hands what was typed to a booking wizard (lib/rate-handoff).       *)
(***************************************************************************)
EXTENDS Naturals, Sequences, SequencesExt

CONSTANTS None,
    Cargo,                  \* whether it is the calculator of B2B Cargo
    Typable,                \* the fields typed in, of those the page shows
    Options,                \* the services a quote may offer
    Calls, MaxTypings, MaxCalcs

VARIABLES
    form, rendered, touched, typings,       \* the form, as the page last rendered it, and whether it changed since Calculate
    calls, calcs, quote, failed, selected,  \* the calculations and what is shown of them
    wizard                                  \* the wizard the link opened

vars == <<form, rendered, touched, typings, calls, calcs, quote, failed, selected, wizard>>
formVars == <<form, rendered, touched, typings>>
quoteVars == <<calls, calcs, quote, failed, selected>>

\* A measure stands for the four of a box, each treated alike: not typed yet, a category's default or a person's own.
Untyped == "untyped"
Own == "own"
Plain == "plain"
Categories == {"documents", "electronics", "other"}
CategoryDefaults == {"documents", "electronics"}

Box(measure, count) == [measure |-> measure, count |-> count]
NoCall == [at |-> "idle", of |-> None, offers |-> None]

DefaultValues ==
    [route |-> 0, category |-> None, blind |-> FALSE, estimate |-> 1, door |-> FALSE, risk |-> FALSE,
     boxes |-> <<Box(Untyped, 1)>>, value |-> 0, cod |-> FALSE, amount |-> 0]

Init ==
    /\ form = DefaultValues /\ rendered = DefaultValues /\ touched = FALSE /\ typings = 0
    /\ calls = [k \in Calls |-> NoCall] /\ calcs = 0 /\ quote = None /\ failed = FALSE /\ selected = None
    /\ wizard = None

-----------------------------------------------------------------------------
(* The form. The defaults of a category replace what looks like one.         *)

LooksDefault(measure) == measure = Untyped \/ measure \in CategoryDefaults
AnyMeasure(measure) == TRUE
Replaceable(measure) == LooksDefault(measure)

Measured(f) ==
    IF f.blind \/ f.category \notin CategoryDefaults THEN f
    ELSE [f EXCEPT !.boxes = [i \in DOMAIN f.boxes |->
                                IF Replaceable(f.boxes[i].measure) THEN Box(f.category, f.boxes[i].count) ELSE f.boxes[i]]]

\* Typing alone does not render the page again; a field the page watches does, and so do the boxes.
TypedIn(f, watched) ==
    /\ wizard = None /\ typings < MaxTypings /\ typings' = typings + 1
    /\ form' = f /\ rendered' \in (IF watched THEN {f} ELSE {rendered, f})
    /\ touched' = TRUE /\ UNCHANGED <<quoteVars, wizard>>

TypePincodes(r) == "route" \in Typable /\ TypedIn([form EXCEPT !.route = r], FALSE)
ChooseCategory(c) == "category" \in Typable /\ c # form.category /\ TypedIn(Measured([form EXCEPT !.category = c]), TRUE)
ChooseDoor(door) == "door" \in Typable /\ Cargo /\ door # form.door /\ TypedIn([form EXCEPT !.door = door], TRUE)

\* Unticking runs the effect that measures the boxes again.
TickBlind == "blind" \in Typable /\ Cargo /\ TypedIn(Measured([form EXCEPT !.blind = ~form.blind]), TRUE)
TickRisk == "risk" \in Typable /\ Cargo /\ TypedIn([form EXCEPT !.risk = ~form.risk], TRUE)
TypeEstimate(n) == "blind" \in Typable /\ form.blind /\ TypedIn([form EXCEPT !.estimate = n], FALSE)

AddBox ==
    /\ "boxes" \in Typable /\ ~form.blind /\ Len(form.boxes) < 2
    /\ TypedIn([form EXCEPT !.boxes = Append(form.boxes, Box(IF form.category \in CategoryDefaults THEN form.category ELSE Plain, 1))], TRUE)
RemoveBox(i) ==
    "boxes" \in Typable /\ ~form.blind /\ Len(form.boxes) > 1 /\ TypedIn([form EXCEPT !.boxes = RemoveAt(form.boxes, i)], TRUE)
TypeDimensions(i, m) ==
    "boxes" \in Typable /\ ~form.blind /\ TypedIn([form EXCEPT !.boxes[i].measure = m], FALSE)
TypeBoxCount(i) ==
    "boxes" \in Typable /\ ~form.blind /\ form.boxes[i].count = 1 /\ TypedIn([form EXCEPT !.boxes[i].count = 2], FALSE)

TickCod == "cod" \in Typable /\ TypedIn([form EXCEPT !.cod = ~form.cod], TRUE)
ValueIsAsked == form.cod \/ (Cargo /\ form.risk)
\* While COD is ticked the hint under its amount watches the value.
TypeValue(n) == "value" \in Typable /\ ValueIsAsked /\ TypedIn([form EXCEPT !.value = n], form.cod)
TypeCodAmount(n) == "cod" \in Typable /\ form.cod /\ TypedIn([form EXCEPT !.amount = n], FALSE)

-----------------------------------------------------------------------------
(* Calculating. The tick of the toggle goes round the rules of the form.       *)

RateCalculatorRules(f) ==
    /\ f.route > 0 /\ f.category # None
    /\ \A i \in DOMAIN f.boxes : f.boxes[i].measure # Untyped
    /\ f.blind => f.estimate >= 1
    /\ f.risk => f.value > 0
    /\ f.cod => f.amount > 0 /\ f.amount <= f.value

QuoteRequest(route, boxes, blind, estimate, door, risk, value, cod, amount) ==
    [route |-> route, boxes |-> boxes, blind |-> blind, estimate |-> estimate, door |-> door, risk |-> risk,
     value |-> value, cod |-> cod, amount |-> IF cod THEN amount ELSE 0]

Request(f) ==
    QuoteRequest(f.route, IF f.blind THEN <<>> ELSE f.boxes, Cargo /\ f.blind, IF f.blind THEN f.estimate ELSE 0,
                 Cargo /\ f.door, Cargo /\ f.risk, f.value, f.cod, f.amount)

IsCalculating == \E k \in Calls : calls[k].at # "idle"
MayAlways == TRUE
MayCalculate == ~IsCalculating
NotCalculating == MayCalculate

OnSubmit(f) ==
    /\ calcs < MaxCalcs /\ calcs' = calcs + 1
    /\ \E k \in Calls :
        /\ calls[k].at = "idle" /\ \A j \in Calls : j < k => calls[j].at # "idle"
        /\ calls' = [calls EXCEPT ![k] = [NoCall EXCEPT !.at = "going", !.of = [n |-> calcs + 1, request |-> Request(f)]]]
    /\ form' = f /\ rendered' = f /\ touched' = FALSE
    /\ quote' = None /\ failed' = FALSE /\ UNCHANGED <<typings, selected, wizard>>

Calculate == wizard = None /\ NotCalculating /\ RateCalculatorRules(form) /\ OnSubmit(form)
ToggleDelivery == wizard = None /\ NotCalculating /\ quote # None /\ Cargo /\ OnSubmit([form EXCEPT !.door = ~form.door])

\* A quote offers the services that take the shipment.
Quoted(k, offers) ==
    /\ calls[k].at = "going" /\ calls' = [calls EXCEPT ![k].at = "quoted", ![k].offers = offers]
    /\ UNCHANGED <<formVars, calcs, quote, failed, selected, wizard>>

FirstOffered(offers) == {o \in offers : \A p \in offers : o <= p}
DefaultSelection(offers) == IF selected \in offers THEN {selected} ELSE IF offers = {} THEN {None} ELSE FirstOffered(offers)
SelectionAlways(offers) == IF offers = {} THEN {None} ELSE FirstOffered(offers)
SelectionFor(offers) == DefaultSelection(offers)

QuoteAnswered(k) ==
    /\ calls[k].at = "quoted" /\ calls' = [calls EXCEPT ![k] = NoCall]
    /\ quote' = [of |-> calls[k].of, offers |-> calls[k].offers] /\ selected' \in SelectionFor(calls[k].offers)
    /\ rendered' = form /\ UNCHANGED <<form, touched, typings, calcs, failed, wizard>>

CalculationFailed(k) ==
    /\ calls[k].at = "going" /\ calls' = [calls EXCEPT ![k] = NoCall]
    /\ failed' = TRUE /\ rendered' = form
    /\ UNCHANGED <<form, touched, typings, calcs, quote, selected, wizard>>

SelectOption(o) ==
    /\ wizard = None /\ ~IsCalculating /\ quote # None /\ o \in quote.offers /\ o # selected
    /\ selected' = o /\ rendered' = form
    /\ UNCHANGED <<form, touched, typings, calls, calcs, quote, failed, wizard>>

SelectedQuote == quote # None /\ selected \in quote.offers

-----------------------------------------------------------------------------
(* The link to the wizard, and the wizard's form filled in from it.            *)

Entered(n) == IF n > 0 THEN n ELSE None
EnteredMeasure(m) == IF m # Untyped THEN m ELSE None

BuildRateHandoff(f) ==
    LET box == IF f.blind THEN None ELSE f.boxes[1]
    IN  [route |-> Entered(f.route), category |-> f.category,
         measure |-> IF f.blind THEN None ELSE EnteredMeasure(box.measure), count |-> IF f.blind THEN None ELSE Entered(box.count),
         cod |-> f.cod, amount |-> IF f.cod THEN Entered(f.amount) ELSE None, value |-> Entered(f.value), door |-> f.door]
HandoffWithCodOnly(f) == [BuildRateHandoff(f) EXCEPT !.value = IF f.cod THEN Entered(f.value) ELSE None]
BookingHandoff(f) == BuildRateHandoff(f)

OrElse(x, y) == IF x = None THEN y ELSE x

\* A pincode no saved address has is left for the seller to choose.
ApplyRateHandoff(h, matched) ==
    [route |-> IF matched THEN OrElse(h.route, 0) ELSE 0, missing |-> ~matched /\ h.route # None,
     boxes |-> <<Box(OrElse(h.measure, Untyped), OrElse(h.count, 1))>>, cod |-> h.cod, amount |-> OrElse(h.amount, 0),
     value |-> OrElse(h.value, 0), door |-> h.door, shown |-> quote.of, untouched |-> ~touched,
     filled |-> TRUE]

\* A wizard that cannot read the address book, and has none cached, keeps its own defaults.
NotFilled ==
    [ApplyRateHandoff([route |-> None, measure |-> None, count |-> None, cod |-> FALSE, amount |-> None, value |-> None,
                       door |-> FALSE], FALSE) EXCEPT !.filled = FALSE]

BookThisShipment(read, matched) ==
    /\ wizard = None /\ ~IsCalculating /\ SelectedQuote
    /\ wizard' = IF read THEN ApplyRateHandoff(BookingHandoff(rendered), matched) ELSE NotFilled
    /\ UNCHANGED <<formVars, quoteVars>>

WizardRequest(w) == QuoteRequest(w.route, w.boxes, FALSE, 0, w.door, FALSE, w.value, w.cod, w.amount)

-----------------------------------------------------------------------------

Type ==
    \/ \E n \in 0 .. 2 : TypePincodes(n) \/ TypeEstimate(n) \/ TypeValue(n) \/ TypeCodAmount(n)
    \/ \E c \in Categories : ChooseCategory(c)
    \/ \E d \in BOOLEAN : ChooseDoor(d)
    \/ TickBlind \/ TickRisk \/ TickCod \/ AddBox
    \/ \E i \in DOMAIN form.boxes : RemoveBox(i) \/ TypeBoxCount(i) \/ \E m \in {Untyped, Own} \cup CategoryDefaults : TypeDimensions(i, m)

Next ==
    \/ Type \/ Calculate \/ ToggleDelivery
    \/ \E k \in Calls : (\E offers \in SUBSET Options : Quoted(k, offers)) \/ QuoteAnswered(k) \/ CalculationFailed(k)
    \/ \E o \in Options : SelectOption(o)
    \/ \E read, matched \in BOOLEAN : BookThisShipment(read, matched)

Spec == Init /\ [][Next]_vars

TypeOK ==
    /\ Len(form.boxes) \in 1 .. 2 /\ form.category \in Categories \cup {None}
    /\ ~Cargo => ~form.door /\ ~form.blind /\ ~form.risk
    /\ typings \in 0 .. MaxTypings /\ calcs \in 0 .. MaxCalcs
    /\ selected \in Options \cup {None} /\ failed \in BOOLEAN
    /\ quote # None => quote.offers \subseteq Options

\* Of what a wizard can be told: no blind pickup, no carrier's risk, one kind of box.
HandedWhole(q) == ~q.blind /\ ~q.risk /\ Len(q.boxes) = 1

\* A wizard filled in from a price whose inputs were not touched since asks for the same price: every input that is not
\* handed over has the wizard's own default, and only the route may be left to choose (page.tsx:99-116, rate-handoff.ts).
ActedAsShown ==
    wizard # None /\ wizard.filled /\ wizard.untouched /\ HandedWhole(wizard.shown.request) =>
        LET asked == wizard.shown.request
            opened == WizardRequest(wizard)
        IN  opened = [asked EXCEPT !.route = opened.route] /\ (opened.route = asked.route \/ wizard.missing)

\* The prices on the page are those of the last calculation asked for, never of one before it (page.tsx:386-443).
OncePerIntent == quote # None => quote.of.n = calcs

\* A measure of a person's own outlives every change of category and of the blind pickup, and a card chosen stays chosen
\* for as long as each answer offers it (page.tsx:301-356, :432).
KeepsTyping ==
    /\ form'.category # form.category \/ form'.blind # form.blind =>
        \A i \in DOMAIN form.boxes : form.boxes[i].measure = Own => form'.boxes[i] = form.boxes[i]
    /\ quote' # quote /\ quote' # None /\ selected # None /\ selected \in quote'.offers => selected' = selected

=============================================================================
