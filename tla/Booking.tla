------------------------------ MODULE Booking ------------------------------
(***************************************************************************)
(* One visit to a booking wizard (B2C forward, B2C reverse or B2B forward): *)
(* the form and its saved draft, the quotes, the cards, the Book button and *)
(* the price dialog of useQuoteBooking, and the server's side of the        *)
(* Idempotency-Key: claim, business transaction, stored response, release.  *)
(* Quotes and bookings may be answered late or never; the server may stop   *)
(* between any two of its steps, and may fail to store the response.        *)
(***************************************************************************)
EXTENDS Naturals, FiniteSets

CONSTANTS None, Kinds, Openings, Forms, Slots, MaxTries, MaxKeys, MaxPrice, MaxForgets

Options == {"surface", "express"}
\* Forms: nothing yet ("blank"), goods whose value needs an e-way bill without ("dear") and with
\* its number ("billed"), or what another screen handed over ("handed", goods of a low value).
\* Kinds of page are "forward", "reverse" and "b2b". A page is opened for a "new" order or with a
\* hand-off, its address book still to be read ("cold") or cached ("warm").

VARIABLES kind, opening, book, recovered,       \* the page; its load of the address book
          form, door, flagged, draft, step,     \* the form, its e-way bill flag, localStorage
          asks, quote, chosen,                  \* quotes under way, the one on screen, the card
          waiting, key, change, done,           \* useQuoteBooking's refs and state
          posts, claims, booked, base,          \* the server
          try, altered,                          \* (not in the program)
          forgotten     \* (neither) how often a key's claim was released although it had booked

pageVars == <<kind, opening, book, recovered>>
formVars == <<form, door, flagged, draft>>
quoteVars == <<asks, quote, chosen>>
sendVars == <<waiting, key, change, done>>
serverVars == <<posts, claims, booked, base, forgotten>>
ghostVars == <<try, altered>>
vars == <<pageVars, formVars, step, quoteVars, sendVars, serverVars, ghostVars>>

Tries == 1..MaxTries
Keys == 1..MaxKeys

\* The price the server computes: the tariff of the day, the goods and the delivery mode.
Price(f, d) == base + (IF f \in {"dear", "billed"} THEN 1 ELSE 0) + (IF d THEN 1 ELSE 0)
Totals == 1..(MaxPrice + 2)
Bodies == [form : Forms, door : BOOLEAN, option : Options, total : Totals]

NeedsEwayBill(f) == f \in {"dear", "billed"}

\* zod: something in every required field, and the e-way bill once the backend asked for it.
Valid == form # "blank" /\ ~(kind # "reverse" /\ flagged /\ form = "dear")

-----------------------------------------------------------------------------
(* Opening the page.                                                       *)

Handed == opening # "new"

Init ==
    /\ kind \in Kinds /\ opening \in Openings
    /\ book = IF kind = "reverse" \/ Handed THEN "loading" ELSE "loaded"    \* else it brings nothing in
    /\ draft \in {None, "billed"}
    /\ recovered = (kind # "reverse" /\ IF Handed THEN opening = "warm" ELSE draft # None)
    /\ form = IF ~recovered THEN "blank" ELSE IF Handed THEN "handed" ELSE draft
    /\ door = FALSE /\ flagged = FALSE /\ step = 0
    /\ asks = [t \in Tries |-> None] /\ quote = None /\ chosen = None
    /\ waiting = None /\ key = None /\ change = None /\ done = FALSE
    /\ posts = [p \in Slots |-> None] /\ claims = [k \in Keys |-> None] /\ booked = {} /\ base = 1
    /\ try = 1 /\ altered = FALSE 
    /\ forgotten = [k \in Keys |-> 0]

\* A return started from a shipment shows nothing until that shipment is read.
Loading == kind = "reverse" /\ Handed /\ book = "loading"

\* The watch on the form writes the draft, except while booking and after it.
Autosave(f) ==
    draft' = IF \/ waiting # None \/ done
                \/ kind = "reverse" /\ (Handed \/ f = "blank")
             THEN draft ELSE f

\* A variant for mutation testing: every load of the addresses applies the hand-off.
PrefillAgain == IF Handed THEN "handed" ELSE None

\* What the loaded address book brings into the form, once: the hand-off, or the draft of a return.
Prefill ==
    CASE kind = "reverse" /\ Handed -> "handed"
      [] kind = "reverse" /\ ~Handed /\ draft \notin {None, "blank"} -> draft
      [] kind # "reverse" /\ Handed /\ ~recovered -> "handed"
      [] OTHER -> None

AddressesLoaded ==
    /\ book = "loading" /\ book' = "loaded" /\ recovered' = TRUE
    /\ \/ UNCHANGED <<form, draft, altered>>    \* the load failed, or brings nothing in
       \/ /\ Prefill # None
          /\ form' = Prefill /\ Autosave(Prefill) /\ altered' = (altered \/ step = 1)
    /\ UNCHANGED <<kind, opening, door, flagged, step, quoteVars, sendVars, serverVars, try>>

-----------------------------------------------------------------------------
(* Step 1: the form.                                                       *)

\* Any change of the fields, "Reset Fields" included.
Edit(f) ==
    /\ step = 0 /\ ~Loading /\ ~done /\ f \notin {form, "handed"}
    /\ form' = f /\ Autosave(f)
    /\ flagged' = (flagged /\ f # "blank")
    /\ UNCHANGED <<pageVars, door, step, quoteVars, sendVars, serverVars, ghostVars>>

\* useShipmentValuation: the answer for the values in the form now (older ones are cancelled).
Valuation ==
    /\ step = 0 /\ kind # "reverse" /\ flagged # NeedsEwayBill(form)
    /\ flagged' = NeedsEwayBill(form) /\ Autosave(form)
    /\ UNCHANGED <<pageVars, form, door, step, quoteVars, sendVars, serverVars, ghostVars>>

Quoting == \E t \in Tries : asks[t] # None

\* Another quote or another card is another booking to the user.
NextTry == try < MaxTries /\ try' = try + 1 /\ altered' = FALSE

\* requestQuote: the key goes, the old quote goes, and the cards are shown while it loads.
RequestQuote(d) ==
    /\ IF quote = None /\ ~Quoting /\ try = 1 THEN UNCHANGED ghostVars ELSE NextTry
    /\ asks' = [asks EXCEPT ![try'] = [form |-> form, door |-> d, compare |-> d = door]]
    /\ quote' = None /\ key' = None

\* onCompareRates.
CompareRates ==
    /\ step = 0 /\ Valid /\ ~Loading /\ waiting = None /\ ~done
    /\ step' = 1 /\ RequestQuote(door)
    /\ UNCHANGED <<pageVars, formVars, chosen, waiting, change, done, serverVars>>

\* handleDoorDeliveryChange, only in the B2B wizard and not while a quote loads.
ChangeDoor ==
    /\ kind = "b2b" /\ step = 1 /\ ~Quoting /\ ~done /\ change = None
    /\ door' = ~door /\ Autosave(form) /\ RequestQuote(~door)
    /\ UNCHANGED <<pageVars, form, flagged, step, chosen, waiting, change, done, serverVars>>

\* The answer, priced when it is given: the last one to arrive is the one on screen, whichever
\* request it belongs to. The card chosen before stays if it can still be booked.
QuoteAnswered(t, served) ==
    /\ asks[t] # None /\ asks' = [asks EXCEPT ![t] = None]
    /\ quote' = [served |-> served, total |-> Price(asks[t].form, asks[t].door)]
    /\ chosen' = IF chosen \in served THEN chosen ELSE "surface"
    /\ IF kind # "reverse" /\ asks[t].compare /\ asks[t].form = "dear"
       THEN step' = 0 /\ flagged' = TRUE /\ Autosave(form)    \* no e-way bill number: back to the form
       ELSE UNCHANGED <<step, flagged, draft>>
    /\ altered' = (altered \/ key # None)    \* it came behind a key that may already be booked
    /\ UNCHANGED <<pageVars, form, door, sendVars, serverVars, try>>

QuoteFailed(t) ==
    /\ asks[t] # None /\ asks' = [asks EXCEPT ![t] = None]
    /\ step' = IF asks[t].compare THEN 0 ELSE step
    /\ UNCHANGED <<pageVars, formVars, quote, chosen, sendVars, serverVars, ghostVars>>

-----------------------------------------------------------------------------
(* Step 2: the cards, Book, and the price dialog over them.                *)

\* selectOption.
SelectOption(o) ==
    /\ step = 1 /\ quote # None /\ o \in quote.served /\ o # chosen /\ change = None /\ ~done
    /\ chosen' = o /\ key' = None /\ NextTry
    /\ UNCHANGED <<pageVars, formVars, step, asks, quote, waiting, change, done, serverVars>>

Back ==
    /\ step = 1 /\ waiting = None /\ change = None /\ ~done /\ step' = 0
    /\ UNCHANGED <<pageVars, formVars, quoteVars, sendVars, serverVars, ghostVars>>

\* newBookingKey.
FreshKeys == {k \in Keys : /\ claims[k] = None /\ forgotten[k] = 0
                           /\ \A p \in Slots : posts[p] = None \/ posts[p].key # k}

\* send: at most one is awaited at a time; the key is made if there is none.
Send(body, held, plain) ==
    \E p \in Slots :
        /\ posts[p] = None
        /\ \E k \in Keys :
            /\ IF held # None THEN k = held ELSE k \in FreshKeys /\ \A j \in FreshKeys : k <= j
            /\ key' = k
            /\ posts' = [posts EXCEPT ![p] = [key |-> k, body |-> body, at |-> "sent", new |-> 0,
                                              try |-> try, plain |-> plain]]
        /\ waiting' = p

\* book, with canBook as it is rendered; a click while one is being sent is dropped.
Book ==
    /\ step = 1 /\ quote # None /\ chosen \in quote.served /\ waiting = None /\ change = None
    /\ Send([form |-> form, door |-> door, option |-> chosen, total |-> quote.total], key, ~altered)
    /\ UNCHANGED <<pageVars, formVars, step, quoteVars, change, done, claims, booked, base, forgotten, ghostVars>>

\* confirmPriceChange: a fresh key and the new total.
ConfirmPriceChange ==
    /\ change # None /\ waiting = None
    /\ Send(change, None, FALSE)
    /\ altered' = TRUE
    /\ UNCHANGED <<pageVars, formVars, step, quoteVars, change, done, claims, booked, base, forgotten, try>>

CancelPriceChange ==
    /\ change # None /\ waiting = None /\ change' = None
    /\ UNCHANGED <<pageVars, formVars, step, quoteVars, waiting, key, done, serverVars, ghostVars>>

\* mayHaveCommitted.
Unsure(answer) == answer \in {"down", "busy"}

\* What the wizard does with an answer.
Settled(answer, offer) ==
    /\ waiting' = None
    /\ key' = IF answer = "created" \/ Unsure(answer) THEN key ELSE None
    /\ change' = IF answer = "changed" THEN offer ELSE None
    /\ IF answer = "created"
       THEN done' = TRUE /\ draft' = None     \* handleBooked
       ELSE UNCHANGED <<done, draft>>
    /\ UNCHANGED <<pageVars, form, door, flagged, step, quoteVars, ghostVars>>

Answered ==
    /\ waiting # None /\ posts[waiting].at \notin {"sent", "running", "committed"}
    /\ Settled(posts[waiting].at, [posts[waiting].body EXCEPT !.total = posts[waiting].new])
    /\ posts' = [posts EXCEPT ![waiting] = None]
    /\ UNCHANGED <<claims, booked, base, forgotten>>

\* The connection is lost, or the proxy gives up: the request may still be worked on, but one that
\* has not reached the server never will.
NoAnswer ==
    /\ waiting # None /\ posts[waiting].at \in {"sent", "running", "committed"}
    /\ Settled("down", None)
    /\ posts' = IF posts[waiting].at = "sent" THEN [posts EXCEPT ![waiting] = None] ELSE posts
    /\ UNCHANGED <<claims, booked, base, forgotten>>

-----------------------------------------------------------------------------
(* The server: require_idempotency around create_shipment.                 *)

\* An answer nobody waits for is lost.
Reply(p, answer, new) ==
    posts' = [posts EXCEPT ![p] = IF p = waiting THEN [@ EXCEPT !.at = answer, !.new = new] ELSE None]
Continue(p, stage) == posts' = [posts EXCEPT ![p].at = stage]
Claimed(p) == Continue(p, "running") /\ claims' = [claims EXCEPT ![posts[p].key] = [body |-> posts[p].body, stored |-> FALSE]]

\* A variant for mutation testing: a key whose response is not stored yet is run again.
ClaimUnlessStored(p) ==
    LET claim == claims[posts[p].key] IN
    IF claim # None /\ claim.stored THEN Reply(p, "created", 0) /\ UNCHANGED claims ELSE Claimed(p)

\* claim_or_replay: one row per key; another body is refused, a running one is busy.
ClaimOrReplay(p) ==
    LET claim == claims[posts[p].key] IN
    CASE claim = None -> Claimed(p)
      [] claim # None /\ claim.body # posts[p].body -> Reply(p, "refused", 0) /\ UNCHANGED claims
      [] OTHER -> Reply(p, IF claim.stored THEN "created" ELSE "busy", 0) /\ UNCHANGED claims

Claim(p) ==
    /\ posts[p] # None /\ posts[p].at = "sent"
    /\ ClaimOrReplay(p)
    /\ UNCHANGED <<pageVars, formVars, step, quoteVars, sendVars, booked, base, forgotten, ghostVars>>

\* create_shipment prices the booking again.
Accepted(body) == Price(body.form, body.door) = body.total

\* The business transaction; or a refusal, after which the claim is released.
Work(p) ==
    /\ posts[p] # None /\ posts[p].at = "running"
    /\ LET post == posts[p]  price == Price(post.body.form, post.body.door) IN
       \/ /\ Accepted(post.body)
          /\ booked' = booked \cup {[nr |-> Cardinality(booked) + 1, key |-> post.key, try |-> post.try,
                                     plain |-> post.plain, agreed |-> post.body.total, paid |-> price]}
          /\ Continue(p, "committed") /\ UNCHANGED claims
       \/ /\ UNCHANGED booked /\ claims' = [claims EXCEPT ![post.key] = None]
          /\ IF ~Accepted(post.body) THEN Reply(p, "changed", price)
             ELSE \E answer \in {"refused", "down"} : Reply(p, answer, 0)
    /\ UNCHANGED <<pageVars, formVars, step, quoteVars, sendVars, base, forgotten, ghostVars>>

\* idem.store, in a transaction of its own, and the response.
Store(p) ==
    /\ posts[p] # None /\ posts[p].at = "committed"
    /\ claims' = [claims EXCEPT ![posts[p].key].stored = TRUE]
    /\ Reply(p, "created", 0)
    /\ UNCHANGED <<pageVars, formVars, step, quoteVars, sendVars, booked, base, forgotten, ghostVars>>

\* Anything raised after the business transaction (the response cannot be stored, the connection
\* to the database is lost) has _dependency release the claim of what is booked already: the same
\* key may be claimed, and book, again.
StoreFailed(p) ==
    /\ posts[p] # None /\ posts[p].at = "committed" /\ forgotten[posts[p].key] < MaxForgets
    /\ claims' = [claims EXCEPT ![posts[p].key] = None]
    /\ forgotten' = [forgotten EXCEPT ![posts[p].key] = @ + 1]
    /\ Reply(p, "down", 0)
    /\ UNCHANGED <<pageVars, formVars, step, quoteVars, sendVars, booked, base, ghostVars>>

\* The server stops, or cannot release either: the claim stays, without a response, for ever.
Crash(p) ==
    /\ posts[p] # None /\ posts[p].at \in {"running", "committed"}
    /\ Reply(p, "down", 0)
    /\ UNCHANGED <<pageVars, formVars, step, quoteVars, sendVars, claims, booked, base, forgotten, ghostVars>>

PriceMoves ==
    /\ base < MaxPrice /\ base' = base + 1
    /\ UNCHANGED <<pageVars, formVars, step, quoteVars, sendVars, posts, claims, booked, forgotten, ghostVars>>

Next ==
    \/ AddressesLoaded \/ Valuation \/ CompareRates \/ ChangeDoor \/ Back \/ Book
    \/ ConfirmPriceChange \/ CancelPriceChange \/ Answered \/ NoAnswer \/ PriceMoves
    \/ \E f \in Forms : Edit(f)
    \/ \E o \in Options : SelectOption(o)
    \/ \E t \in Tries : QuoteFailed(t) \/ \E served \in {Options, {"surface"}} : QuoteAnswered(t, served)
    \/ \E p \in Slots : Claim(p) \/ Work(p) \/ Store(p) \/ StoreFailed(p) \/ Crash(p)

Spec == Init /\ [][Next]_vars

-----------------------------------------------------------------------------
(* Properties.                                                             *)

TypeOK ==
    /\ kind \in Kinds /\ opening \in Openings /\ book \in {"loading", "loaded"}
    /\ {recovered, door, flagged, done, altered} \subseteq BOOLEAN
    /\ form \in Forms /\ draft \in Forms \cup {None} /\ step \in {0, 1}
    /\ chosen \in Options \cup {None} /\ key \in Keys \cup {None} /\ change \in Bodies \cup {None}
    /\ forgotten \in [Keys -> 0..MaxForgets]
    /\ waiting \in Slots \cup {None} /\ (waiting # None => posts[waiting] # None)
    /\ (quote # None => quote.served \subseteq Options /\ quote.total \in Totals)

\* A booking whose key the server forgot.
Forgotten(b) == forgotten[b.key] > 0

\* idempotency.py: however requests with one key overlap, time out and are repeated, and wherever
\* the server stops, one shipment at most is booked under it. The exception is a key whose claim was
\* released although its shipment was booked (lines 215-221): there the retry books again.
OneBookingPerKey == \A b, c \in booked : b.key = c.key /\ ~Forgotten(b) => b = c

\* use-quote-booking.ts, mayHaveCommitted: pressing Book again for the same quote and card never
\* books twice, as long as the server forgot no booking (above), no changed price was confirmed in
\* between, no hand-off came late enough to replace the form behind the cards, and no older quote
\* replaced the one that was booked from.
RetryBooksOnce ==
    \A b, c \in booked :
        b.try = c.try /\ b.plain /\ c.plain /\ ~Forgotten(b) /\ ~Forgotten(c) => b = c

\* The whole of what the message BOOKING_UNCONFIRMED_MESSAGE promises, of a server that forgets
\* no booking.
PressingAgainIsSafe ==
    \A b, c \in booked : b.try = c.try /\ ~Forgotten(b) /\ ~Forgotten(c) => b = c

\* Nobody pays another price than the one on the card or in the dialog, whichever quote was answered
\* last and however the tariff moved between quote, booking and retry.
AgreedPrice == \A b \in booked : b.paid = b.agreed

\* A booked order leaves no draft behind, although a quote or a valuation may still be answered and
\* write into the form.
BookedDraftGone == done => draft = None

\* The hand-off is applied once: the refresh of an address book that was warm does not overwrite what
\* the user typed over it.
KeepsTyping == kind # "reverse" /\ opening = "warm" /\ form # "handed" => form' # "handed"

\* What the user of the wizard saw and agreed to is what is booked.
ActedAsShown == AgreedPrice

\* One booking in the user's mind is one shipment, and leaves nothing behind to book again.
OncePerIntent == OneBookingPerKey /\ RetryBooksOnce /\ BookedDraftGone

=============================================================================
