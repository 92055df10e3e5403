----------------------------- MODULE PickupForm -----------------------------
(***************************************************************************)
(* The form that asks for a pickup (create-pickup-request-form.tsx): the    *)
(* place, the day and slot, and which of the parcels ready there to hand     *)
(* over.  The list of a place is shown from the cache while a fresh one is   *)
(* read, the parcels the form was opened with are ticked once it is there,   *)
(* and orders are booked, cancelled and taken elsewhere meanwhile.           *)
(***************************************************************************)
EXTENDS Naturals, FiniteSets

CONSTANTS None,
    Flow,         \* "b2c" or "b2b"
    Places,
    Parcels, At,  \* the parcels of the flow and the place each is picked up at
    Openings,     \* how the form is opened: [place, ids], None and {} when from the menu
    Warm,         \* whether lists and addresses may be cached when it is opened
    Expires,      \* whether cached lists may be dropped while it is open
    Fields,       \* the other fields that are used: of "boxes", "mode", "slot"
    Loads, MaxPresses, MaxOthers

VARIABLES
    ready,        \* the server: parcels OPEN and on no pickup
    made,         \* the pickups made from this form
    others,
    cached,       \* the cached list of each place
    saved,        \* the address book on the server
    known, fetching,           \* the addresses on the page; whether they are being read
    opening,      \* the place and the parcels it was opened with; whether a list was ever shown before it was read,
                  \* and whether the one on screen is an earlier one that is no longer cached
    place, eligible, loadedFor, selected, preselect, loads,
    hand,         \* the parcels the person has ticked or unticked since the place was chosen
    blind, boxes, slotPassed,
    flight, presses

vars == <<ready, made, others, cached, saved, known, fetching, opening, place, eligible, loadedFor, selected,
          preselect, loads, hand, blind, boxes, slotPassed, flight, presses>>
serverVars == <<ready, made, others, saved>>
addressVars == <<known, fetching>>
listVars == <<cached, place, eligible, loadedFor, selected, preselect, loads, hand>>
fieldVars == <<blind, boxes, slotPassed>>
flightVars == <<flight, presses>>

ReadyAt(l) == {p \in ready : At[p] = l}

\* Every row is ticked, or of those the form was opened with the ones that are listed.
Ticked(rows, ids) == IF ids = {} THEN rows ELSE rows \cap ids

Idle == [place |-> None, rows |-> None, live |-> FALSE, cold |-> FALSE]
ReadingAfresh(l) == [place |-> l, rows |-> None, live |-> TRUE, cold |-> TRUE]
Reading(l) == [place |-> l, rows |-> None, live |-> TRUE, cold |-> cached[l] = None]

-----------------------------------------------------------------------------
(* Opening the form.                                                       *)

OnlyPlace(addresses) == IF Cardinality(addresses) = 1 THEN CHOOSE l \in addresses : TRUE ELSE None

OpenWith(l) ==
    LET warm == l # None /\ cached[l] # None
    IN  /\ place = l
        /\ eligible = IF warm THEN cached[l] ELSE {}
        /\ loadedFor = IF warm THEN l ELSE None
        /\ selected = IF warm THEN Ticked(cached[l], opening.ids) ELSE {}
        /\ preselect = IF warm THEN {} ELSE opening.ids
        /\ \E slot \in Loads :
               loads = [m \in Loads |-> IF m = slot /\ l # None THEN Reading(l) ELSE Idle]

Init ==
    /\ ready \in SUBSET Parcels /\ made = {} /\ others = 0 /\ saved \in (IF Warm THEN SUBSET Places \ {{}} ELSE {Places})
    /\ cached \in [Places -> {None}] \cup
           (IF Warm THEN {[l \in Places |-> {p \in rows : At[p] = l}] : rows \in SUBSET Parcels} ELSE {})
    /\ known \in {None} \cup (IF Warm THEN SUBSET Places ELSE {}) /\ fetching = TRUE
    /\ \E o \in Openings :
           opening = [place |-> o.place, ids |-> o.ids, warm |-> o.place # None /\ cached[o.place] # None, over |-> FALSE]
    /\ OpenWith(IF opening.place # None THEN opening.place ELSE IF known = None THEN None ELSE OnlyPlace(known))
    /\ hand = {} /\ blind = FALSE /\ boxes = (Flow = "b2c") /\ slotPassed = FALSE
    /\ flight = None /\ presses = 0

-----------------------------------------------------------------------------
(* Places and their lists.                                                 *)

Reopened(l) == [opening EXCEPT !.warm = @ \/ cached[l] # None \/ loadedFor = l, !.over = cached[l] = None /\ loadedFor = l]

\* The effect of a place: the one before is ignored from now on, a cached list is shown at once, and
\* the list is read afresh.
Chosen(l) ==
    /\ place' = l /\ hand' = {} /\ opening' = Reopened(l)
    /\ \E slot \in Loads :
           /\ loads[slot] = Idle
           /\ loads' = [m \in Loads |-> IF m = slot THEN Reading(l) ELSE [loads[m] EXCEPT !.live = FALSE]]
    /\ IF cached[l] # None
       THEN /\ eligible' = cached[l] /\ loadedFor' = l
            /\ selected' = Ticked(cached[l], preselect) /\ preselect' = {}
       ELSE UNCHANGED <<eligible, loadedFor, selected, preselect>>
    /\ UNCHANGED cached

\* Prefilled places that are not in the book are offered too.
Offered == (IF known = None THEN {} ELSE known) \cup ({opening.place} \ {None})

ChoosePlace(l) ==
    /\ l \in Offered \ {place} /\ (known # None \/ ~fetching) /\ Chosen(l)
    /\ UNCHANGED <<serverVars, addressVars, fieldVars, flightVars>>

\* A person's only place is chosen for them, unless one is chosen already.
AddressesAnswered ==
    /\ fetching /\ fetching' = FALSE /\ known' = saved
    /\ IF opening.place = None /\ place = None /\ OnlyPlace(saved) # None THEN Chosen(OnlyPlace(saved))
       ELSE UNCHANGED <<listVars, opening>>
    /\ UNCHANGED <<serverVars, fieldVars, flightVars>>

AddressesFail ==
    /\ fetching /\ fetching' = FALSE
    /\ UNCHANGED <<serverVars, known, opening, listVars, fieldVars, flightVars>>

ReadList(m) ==
    /\ loads[m] # Idle /\ loads[m].rows = None /\ loads' = [loads EXCEPT ![m].rows = ReadyAt(loads[m].place)]
    /\ UNCHANGED <<serverVars, addressVars, opening, cached, place, eligible, loadedFor, selected, preselect,
                   hand, fieldVars, flightVars>>

\* Only a list that was not in the cache ticks its rows when it is answered.
ListAnswered(m) ==
    /\ loads[m].rows # None
    /\ cached' = [cached EXCEPT ![loads[m].place] = loads[m].rows]
    /\ loads' = [loads EXCEPT ![m] = Idle]
    /\ IF loads[m].live
       THEN /\ eligible' = loads[m].rows /\ loadedFor' = loads[m].place
            /\ IF loads[m].cold THEN selected' = Ticked(loads[m].rows, preselect) /\ preselect' = {}
               ELSE UNCHANGED <<selected, preselect>>
       ELSE UNCHANGED <<eligible, loadedFor, selected, preselect>>
    /\ UNCHANGED <<serverVars, addressVars, opening, place, hand, fieldVars, flightVars>>

ListFails(m) ==
    /\ loads[m] # Idle /\ loads' = [loads EXCEPT ![m] = Idle]
    /\ loadedFor' = IF loads[m].live THEN loads[m].place ELSE loadedFor
    /\ IF loads[m].live /\ loads[m].cold THEN eligible' = {} /\ selected' = {} ELSE UNCHANGED <<eligible, selected>>
    /\ UNCHANGED <<serverVars, addressVars, opening, cached, place, preselect, hand, fieldVars, flightVars>>

CacheDropped(l) ==
    /\ Expires /\ cached[l] # None /\ cached' = [cached EXCEPT ![l] = None]
    /\ UNCHANGED <<serverVars, addressVars, opening, place, eligible, loadedFor, selected, preselect, loads, hand, fieldVars, flightVars>>

-----------------------------------------------------------------------------
(* What the person enters.                                                 *)

LoadingAddresses == fetching /\ known = None
NeverLoading == FALSE
LoadingEligible == place # None /\ loadedFor # place
ListShown == place # None /\ ~LoadingEligible

ToggleShipment(p) ==
    /\ ListShown /\ p \in eligible /\ hand' = hand \cup {p}
    /\ selected' = IF p \in selected THEN selected \ {p} ELSE selected \cup {p}
    /\ UNCHANGED <<serverVars, addressVars, opening, cached, place, eligible, loadedFor, preselect, loads, fieldVars, flightVars>>

ToggleAll(checked) ==
    /\ ListShown /\ eligible # {} /\ hand' = eligible
    /\ selected' = IF checked THEN eligible ELSE {}
    /\ UNCHANGED <<serverVars, addressVars, opening, cached, place, eligible, loadedFor, preselect, loads, fieldVars, flightVars>>

\* The number of boxes is asked of a blind pickup, or of one without parcels.
EnterBoxes ==
    /\ "boxes" \in Fields /\ (blind \/ (ListShown /\ eligible = {} /\ Flow = "b2c"))
    /\ boxes' = ~boxes /\ UNCHANGED <<blind, slotPassed>>

ChooseMode == "mode" \in Fields /\ Flow = "b2b" /\ blind' = ~blind /\ UNCHANGED <<boxes, slotPassed>>
ChooseSlot == slotPassed /\ slotPassed' = FALSE /\ UNCHANGED <<blind, boxes>>
SlotStarts == "slot" \in Fields /\ ~slotPassed /\ slotPassed' = TRUE /\ UNCHANGED <<blind, boxes>>

Field ==
    /\ EnterBoxes \/ ChooseMode \/ ChooseSlot \/ SlotStarts
    /\ UNCHANGED <<serverVars, addressVars, opening, listVars, flightVars>>

-----------------------------------------------------------------------------
(* Sending it.                                                             *)

Valid ==
    /\ place # None /\ ~LoadingAddresses /\ ~LoadingEligible /\ ~slotPassed
    /\ blind => boxes
    /\ Flow = "b2b" => selected # {}
    /\ selected = {} => boxes

\* What is sent, with whose list was shown and which parcels asked for were on it.
Body ==
    [place |-> place, ids |-> selected, blind |-> blind, loadedFor |-> loadedFor,
     wanted |-> IF place = opening.place /\ ~opening.warm THEN (opening.ids \cap eligible) \ hand ELSE {}]

Press ==
    /\ flight = None /\ presses < MaxPresses /\ Valid
    /\ presses' = presses + 1 /\ flight' = [body |-> Body, at |-> "going", done |-> FALSE]
    /\ UNCHANGED <<serverVars, addressVars, opening, listVars, fieldVars>>

Linkable(ids, l) == ids \subseteq ready /\ \A p \in ids : At[p] = l

\* create_manifest: the parcels are taken by the pickup in the same transaction.
Create(body) ==
    /\ Linkable(body.ids, body.place)
    /\ made' = made \cup {[body |-> body, nth |-> presses]} /\ ready' = ready \ body.ids

Serve(reaches, answers) ==
    /\ flight # None /\ flight.at = "going"
    /\ IF reaches /\ Linkable(flight.body.ids, flight.body.place)
       THEN Create(flight.body) /\ flight' = [flight EXCEPT !.at = IF answers THEN "ok" ELSE "failed", !.done = TRUE]
       ELSE flight' = [flight EXCEPT !.at = "failed"] /\ UNCHANGED <<made, ready>>
    /\ UNCHANGED <<others, saved, presses, addressVars, opening, listVars, fieldVars>>

\* The lists are dropped from the cache and the page is left.
Created ==
    /\ flight # None /\ flight.at = "ok" /\ flight' = [flight EXCEPT !.at = "left"]
    /\ cached' = [l \in Places |-> None]
    /\ UNCHANGED <<serverVars, addressVars, opening, place, eligible, loadedFor, selected, preselect, loads, hand, fieldVars, presses>>

Refused ==
    /\ flight # None /\ flight.at = "failed" /\ flight' = None
    /\ UNCHANGED <<serverVars, addressVars, opening, listVars, fieldVars, presses>>

Others(p) ==
    /\ others < MaxOthers /\ others' = others + 1
    /\ ready' = IF p \in ready THEN ready \ {p} ELSE ready \cup ({p} \ UNION {m.body.ids : m \in made})
    /\ UNCHANGED <<made, saved, addressVars, opening, listVars, fieldVars, flightVars>>

OnPage ==
    \/ AddressesAnswered \/ AddressesFail \/ \E l \in Places : ChoosePlace(l) \/ CacheDropped(l)
    \/ \E m \in Loads : ReadList(m) \/ ListAnswered(m) \/ ListFails(m)
    \/ \E p \in Parcels : ToggleShipment(p) \/ Others(p)
    \/ \E checked \in BOOLEAN : ToggleAll(checked)
    \/ Field \/ Press \/ Created \/ Refused
    \/ \E reaches, answers \in BOOLEAN : Serve(reaches, answers)

Next == (flight # None => flight.at # "left") /\ OnPage

Spec == Init /\ [][Next]_vars

-----------------------------------------------------------------------------
TypeOK ==
    /\ ready \subseteq Parcels /\ eligible \subseteq Parcels /\ selected \subseteq Parcels /\ preselect \subseteq Parcels
    /\ cached \in [Places -> {None} \cup SUBSET Parcels] /\ place \in Places \cup {None}
    /\ loadedFor \in Places \cup {None} /\ presses \in 0..MaxPresses /\ others \in 0..MaxOthers
    /\ Cardinality({m \in Loads : loads[m].live}) <= 1

\* A pickup without parcels is asked for only by someone who saw the list of the place and left
\* nothing of it ticked; no parcel of another place is asked for; and unless a list was shown before it
\* was read, the parcels the form was opened with are on the pickup when they were listed and not unticked.
ActedAsShown ==
    flight # None =>
        LET b == flight.body
        IN  /\ b.loadedFor = b.place
            /\ \A p \in b.ids : At[p] = b.place
            /\ b.wanted \subseteq b.ids

\* What the person ticked and unticked in the list of a place is changed by nobody else, until the
\* person chooses another place, or comes back to one whose list is still shown but no longer cached.
KeepsTyping == place' = place /\ loads' # loads /\ ~opening.over => selected' \cap hand = selected \cap hand
=============================================================================
