--------------------------- MODULE BookingProofs ---------------------------
(***************************************************************************)
(* Proofs about Booking, for any number of tries, keys, requests in flight *)
(* and prices. Two arguments carry them. On the server, the claim of a key *)
(* is held from the moment a request starts to work until its shipment is  *)
(* committed, and for ever after unless it is released then (`forgotten`), *)
(* so no two requests work under one key, and what is booked under a key   *)
(* that was not released is booked alone. On the screen, as long as        *)
(* nothing altered what was booked from, every request of a try that may   *)
(* still book carries the held key and the body on screen: it can be       *)
(* refused only by its own work, which books nothing.                      *)
(*                                                                         *)
(* After them four screens: two that set what a booking costs, PrimeLanes  *)
(* and CarrierBilling, and two that follow the parcel, OpsBoard and        *)
(* Tracking; what they promise, for every value of their constants, as     *)
(* parts of TypeOK, OncePerIntent, ActedAsShown and TypingKept of MCDesks. *)
(* A section declares the constants and variables its screen adds and      *)
(* names its operators with a prefix; ...Constants is what a proof asks of *)
(* the constants, and every instance of MCDesks satisfies it.              *)
(***************************************************************************)
EXTENDS Booking, Naturals, Sequences, FiniteSetTheorems, TLAPS

\* What a request, a claim, a quote and a booking are.
Stages == {"sent", "running", "committed", "created", "busy", "refused", "changed", "down"}
Posts == [key : Keys, body : Bodies, at : Stages, new : Nat, try : Tries, plain : BOOLEAN]
Claims == [body : Bodies, stored : BOOLEAN]
Asks == [form : Forms, door : BOOLEAN, compare : BOOLEAN]
Quotes == [served : SUBSET Options, total : Totals]
Bookings == [nr : Nat, key : Keys, try : Tries, plain : BOOLEAN, agreed : Totals, paid : Totals]

\* What the constants must be: the instances of MCDesks are such. None is none of the other values.
Constants ==
    /\ MaxTries \in Nat \ {0} /\ MaxKeys \in Nat /\ MaxPrice \in Nat \ {0} /\ MaxForgets \in Nat
    /\ {"blank", "billed"} \subseteq Forms /\ ("handed" \in Forms \/ Openings \subseteq {"new"})
    /\ None \notin Forms /\ None \notin Options /\ None \notin Slots /\ None \notin Keys
    /\ None \notin Bodies /\ None \notin Posts /\ None \notin Claims /\ None \notin Asks /\ None \notin Quotes

Types ==
    /\ kind \in Kinds /\ opening \in Openings /\ book \in {"loading", "loaded"}
    /\ recovered \in BOOLEAN /\ door \in BOOLEAN /\ flagged \in BOOLEAN /\ done \in BOOLEAN
    /\ altered \in BOOLEAN /\ try \in Tries /\ step \in {0, 1} /\ base \in 1..MaxPrice
    /\ form \in Forms /\ draft \in Forms \cup {None}
    /\ asks \in [Tries -> Asks \cup {None}] /\ quote \in Quotes \cup {None}
    /\ chosen \in Options \cup {None} /\ key \in Keys \cup {None} /\ change \in Bodies \cup {None}
    /\ waiting \in Slots \cup {None}
    /\ posts \in [Slots -> Posts \cup {None}] /\ claims \in [Keys -> Claims \cup {None}]
    /\ booked \subseteq Bookings /\ IsFiniteSet(booked) /\ forgotten \in [Keys -> 0..MaxForgets]

\* The request the wizard waits for is there, and an offered price is one the server can compute.
Waited == waiting # None => posts[waiting] # None
Offered == \A p \in Slots : posts[p] # None /\ posts[p].at = "changed" => posts[p].new \in Totals

-----------------------------------------------------------------------------
(* The server.                                                             *)

\* A request the server works on, and one that may still lead to a booking, or has.
Live(p) == posts[p] # None /\ posts[p].at \in {"running", "committed"}
Hopeful(p) == posts[p] # None /\ posts[p].plain /\ posts[p].at \notin {"refused", "changed"}

\* The bookings whose key the server did not forget.
Kept == {b \in booked : ~Forgotten(b)}

\* A request at work holds the claim of its key, so no other one works under that key; what nobody
\* waits for any more is at work; a booked key that is not forgotten stays claimed, and is not booked
\* by a request at work.
ClaimHeld == \A p \in Slots : Live(p) =>
    claims[posts[p].key] # None /\ claims[posts[p].key].body = posts[p].body /\ ~claims[posts[p].key].stored
OneAtWork == \A p, q \in Slots : Live(p) /\ Live(q) /\ posts[p].key = posts[q].key => p = q
OthersLive == \A p \in Slots : posts[p] # None /\ p # waiting => Live(p)
BookedClaimed == \A b \in Kept : claims[b.key] # None
RunningUnbooked == \A p \in Slots :
    posts[p] # None /\ posts[p].at = "running" => \A b \in Kept : b.key # posts[p].key
KeptAlone == \A b, c \in Kept : b.key = c.key => b = c
ServerInv == ClaimHeld /\ OneAtWork /\ OthersLive /\ BookedClaimed /\ RunningUnbooked /\ KeptAlone

-----------------------------------------------------------------------------
(* One try of the user.                                                    *)

\* The requests and kept bookings of one try share the key, and it is the held one while nothing altered.
OneKeyPerTry ==
    /\ \A p, q \in Slots : Hopeful(p) /\ Hopeful(q) /\ posts[p].try = posts[q].try => posts[p].key = posts[q].key
    /\ \A p \in Slots : \A b \in Kept : Hopeful(p) /\ b.plain /\ b.try = posts[p].try => b.key = posts[p].key
    /\ \A b, c \in Kept : b.plain /\ c.plain /\ b.try = c.try => b.key = c.key
HeldKey == ~altered =>
    /\ \A p \in Slots : Hopeful(p) /\ posts[p].try = try => key = posts[p].key
    /\ \A b \in Kept : b.plain /\ b.try = try => key = b.key
\* Without a quote nothing can have been sent in this try. The awaited request is the one the key
\* was made for, if it is held at all; one sent from the price dialog leaves no key to a later try.
TriesPassed == (\A p \in Slots : posts[p] # None => posts[p].try <= try) /\ (\A b \in booked : b.try <= try)
KeyNeedsQuote == quote = None /\ ~altered => key = None
WaitedKey == waiting # None => key = None \/ key = posts[waiting].key
ConfirmedApart == waiting # None /\ ~altered => posts[waiting].plain \/ key = None
\* A refused request leaves nothing under its key, at work or kept: the wizard may forget the key.
RefusedAlone == waiting # None /\ posts[waiting].plain /\ posts[waiting].at \in {"refused", "changed"} =>
    /\ \A p \in Slots : p # waiting /\ posts[p] # None => posts[p].key # posts[waiting].key
    /\ \A b \in Kept : b.key # posts[waiting].key
\* What Book would send; whatever is or will be claimed under the held key asks for the same, so a
\* request sent from the cards is never refused for its body.
Shown == [form |-> form, door |-> door, option |-> chosen, total |-> quote.total]
SameBody == \A p \in Slots :
    posts[p] # None /\ posts[p].plain /\ posts[p].at = "sent" /\ claims[posts[p].key] # None
        => claims[posts[p].key].body = posts[p].body
HeldBody == ~altered /\ step = 1 /\ key # None =>
    /\ claims[key] # None => claims[key].body = Shown
    /\ \A p \in Slots : posts[p] # None /\ posts[p].at = "sent" /\ posts[p].key = key => posts[p].body = Shown
RetryInv == OneKeyPerTry /\ HeldKey /\ TriesPassed /\ KeyNeedsQuote /\ WaitedKey /\ ConfirmedApart
    /\ RefusedAlone /\ SameBody /\ HeldBody

-----------------------------------------------------------------------------
(* What is on the screen.                                                  *)

\* A hand-off with a warm address book is applied when the page opens, and not again.
WarmRecovered == kind # "reverse" /\ opening = "warm" => recovered
IInv ==
    /\ Constants /\ Types /\ Waited /\ Offered /\ ServerInv /\ RetryInv
    /\ BookedDraftGone /\ WarmRecovered /\ AgreedPrice

-----------------------------------------------------------------------------
(* Types.                                                                  *)

LEMMA PriceTyped ==
    ASSUME Constants, base \in 1..MaxPrice, NEW f, NEW d
    PROVE  Price(f, d) \in Totals /\ Price(f, d) \in Nat
BY DEF Constants, Price, Totals

LEMMA Initially == Constants /\ Init => IInv
<1> SUFFICES ASSUME Constants, Init PROVE IInv
  OBVIOUS
<1>1. form \in Forms /\ draft \in Forms \cup {None} /\ recovered \in BOOLEAN
  BY DEF Init, Constants, Handed
<1>2. 1 \in Tries /\ 1 \in 1..MaxPrice
  BY DEF Constants, Tries
<1>3. /\ asks \in [Tries -> Asks \cup {None}]
      /\ posts \in [Slots -> Posts \cup {None}]
      /\ claims \in [Keys -> Claims \cup {None}]
      /\ (\A p \in Slots : posts[p] = None) /\ booked = {} /\ Kept = {}
      /\ forgotten \in [Keys -> 0..MaxForgets]
  BY DEF Init, Kept, Constants
<1>4. Types
  BY <1>1, <1>2, <1>3, FS_EmptySet DEF Types, Init, Handed
<1>5. Waited /\ Offered /\ ServerInv
  BY <1>3 DEF Init, Waited, Offered, ServerInv, ClaimHeld, OneAtWork, OthersLive, BookedClaimed,
       RunningUnbooked, KeptAlone, Live
<1>6. RetryInv
  <2>1. OneKeyPerTry /\ HeldKey /\ TriesPassed
    BY <1>3 DEF OneKeyPerTry, HeldKey, TriesPassed, Hopeful
  <2>2. KeyNeedsQuote /\ WaitedKey /\ ConfirmedApart /\ RefusedAlone /\ SameBody /\ HeldBody
    BY <1>3 DEF Init, KeyNeedsQuote, WaitedKey, ConfirmedApart, RefusedAlone, SameBody, HeldBody
  <2> QED BY <2>1, <2>2 DEF RetryInv
<1>7. BookedDraftGone /\ WarmRecovered /\ AgreedPrice
  BY <1>3 DEF Init, Handed, BookedDraftGone, WarmRecovered, AgreedPrice
<1> QED BY <1>4, <1>5, <1>6, <1>7 DEF IInv

\* What an answer and the next stage of a request leave of it.
LEMMA Replied ==
    ASSUME Types, NEW p \in Slots, posts[p] # None, NEW answer \in Stages, NEW new \in Nat, Constants,
           Reply(p, answer, new)
    PROVE  /\ posts' \in [Slots -> Posts \cup {None}]
           /\ \A q \in Slots : q # p => posts'[q] = posts[q]
           /\ p # waiting => posts'[p] = None
           /\ p = waiting =>
                /\ posts'[p] # None /\ posts'[p].at = answer /\ posts'[p].new = new
                /\ posts'[p].key = posts[p].key /\ posts'[p].body = posts[p].body
                /\ posts'[p].try = posts[p].try /\ posts'[p].plain = posts[p].plain
<1>1. posts \in [Slots -> Posts \cup {None}] /\ posts[p] \in Posts
  BY DEF Types
<1> DEFINE post == IF p = waiting THEN [posts[p] EXCEPT !.at = answer, !.new = new] ELSE None
<1>2. posts' = [posts EXCEPT ![p] = post]
  BY <1>1 DEF Reply
<1>3. post \in Posts \cup {None} /\ (p = waiting => post \in Posts)
  BY <1>1 DEF Posts
<1>4. p = waiting => /\ post # None /\ post.at = answer /\ post.new = new
                     /\ post.key = posts[p].key /\ post.body = posts[p].body
                     /\ post.try = posts[p].try /\ post.plain = posts[p].plain
  BY <1>1, <1>3 DEF Posts, Constants
<1>5. posts'[p] = post /\ \A q \in Slots : q # p => posts'[q] = posts[q]
  BY <1>1, <1>2
<1>6. posts' \in [Slots -> Posts \cup {None}]
  <2> HIDE DEF post
  <2> QED BY <1>1, <1>2, <1>3
<1>7. p # waiting => post = None
  OBVIOUS
<1> HIDE DEF post
<1> QED BY <1>4, <1>5, <1>6, <1>7

LEMMA Continued ==
    ASSUME Types, NEW p \in Slots, posts[p] # None, NEW stage \in Stages, Constants, Continue(p, stage)
    PROVE  /\ posts' \in [Slots -> Posts \cup {None}]
           /\ \A q \in Slots : q # p => posts'[q] = posts[q]
           /\ posts'[p] # None /\ posts'[p].at = stage /\ posts'[p].new = posts[p].new
           /\ posts'[p].key = posts[p].key /\ posts'[p].body = posts[p].body
           /\ posts'[p].try = posts[p].try /\ posts'[p].plain = posts[p].plain
<1>1. posts \in [Slots -> Posts \cup {None}] /\ posts[p] \in Posts
  BY DEF Types
<1> DEFINE post == [posts[p] EXCEPT !.at = stage]
<1>2. posts' = [posts EXCEPT ![p] = post]
  BY <1>1 DEF Continue
<1>3. post \in Posts
  BY <1>1 DEF Posts
<1>4. /\ post # None /\ post.at = stage /\ post.new = posts[p].new
      /\ post.key = posts[p].key /\ post.body = posts[p].body
      /\ post.try = posts[p].try /\ post.plain = posts[p].plain
  BY <1>1, <1>3 DEF Posts, Constants
<1> HIDE DEF post
<1>5. posts'[p] = post /\ \A q \in Slots : q # p => posts'[q] = posts[q]
  BY <1>1, <1>2
<1>6. posts' \in [Slots -> Posts \cup {None}]
  BY <1>1, <1>2, <1>3
<1> QED BY <1>4, <1>5, <1>6

\* What sending leaves: one more request under way, with the held key or a fresh one.
LEMMA Sending ==
    ASSUME Constants, Types, NEW body \in Bodies, NEW held \in Keys \cup {None}, NEW plain \in BOOLEAN,
           Send(body, held, plain)
    PROVE  \E p \in Slots :
             /\ posts[p] = None /\ waiting' = p /\ key' \in Keys
             /\ IF held # None THEN key' = held ELSE key' \in FreshKeys
             /\ posts' \in [Slots -> Posts \cup {None}]
             /\ \A q \in Slots : q # p => posts'[q] = posts[q]
             /\ posts'[p] # None /\ posts'[p].key = key' /\ posts'[p].body = body
             /\ posts'[p].at = "sent" /\ posts'[p].new = 0
             /\ posts'[p].try = try /\ posts'[p].plain = plain
<1>1. PICK p \in Slots, k \in Keys :
        /\ posts[p] = None /\ waiting' = p /\ key' = k
        /\ IF held # None THEN k = held ELSE k \in FreshKeys
        /\ posts' = [posts EXCEPT ![p] = [key |-> k, body |-> body, at |-> "sent", new |-> 0,
                                          try |-> try, plain |-> plain]]
  BY DEF Send
<1> DEFINE post == [key |-> k, body |-> body, at |-> "sent", new |-> 0, try |-> try, plain |-> plain]
<1>2. post \in Posts
  BY DEF Types, Posts, Stages
<1>3. /\ post.key = k /\ post.body = body /\ post.at = "sent" /\ post.new = 0
      /\ post.try = try /\ post.plain = plain
  OBVIOUS
<1>4. posts' = [posts EXCEPT ![p] = post]
  BY <1>1
<1> HIDE DEF post
<1>5. posts \in [Slots -> Posts \cup {None}]
  BY DEF Types
<1>6. posts'[p] = post /\ (\A q \in Slots : q # p => posts'[q] = posts[q]) /\ post # None
  BY <1>2, <1>4, <1>5 DEF Constants
<1>7. posts' \in [Slots -> Posts \cup {None}]
  BY <1>2, <1>4, <1>5
<1> QED BY <1>1, <1>3, <1>6, <1>7

\* The pages' own actions: requests, claims and bookings stay. The held key stays with its try,
\* or the key goes; and a key that stays belongs to what is on screen, unless that altered.
Page ==
    \/ AddressesLoaded \/ Valuation \/ CompareRates \/ ChangeDoor \/ Back \/ CancelPriceChange
    \/ (\E f \in Forms : Edit(f)) \/ (\E o \in Options : SelectOption(o))
    \/ (\E t \in Tries : QuoteFailed(t) \/ \E served \in {Options, {"surface"}} : QuoteAnswered(t, served))

LEMMA DraftKept ==
    ASSUME Constants, Types, BookedDraftGone, NEW f \in Forms, Autosave(f)
    PROVE  draft' \in Forms \cup {None} /\ (done => draft' = None)
BY DEF Types, BookedDraftGone, Autosave

LEMMA QuoteRequested ==
    ASSUME Constants, Types, NEW d \in BOOLEAN, RequestQuote(d)
    PROVE  /\ asks' \in [Tries -> Asks \cup {None}] /\ quote' = None /\ key' = None /\ try' \in Tries
           /\ altered' \in BOOLEAN
           /\ (quote = None /\ try' = try /\ altered' = altered) \/ (try' = try + 1 /\ altered' = FALSE)
<1>1. (quote = None /\ try' = try /\ altered' = altered) \/ (try' = try + 1 /\ try < MaxTries /\ altered' = FALSE)
  BY DEF RequestQuote, NextTry, ghostVars
<1>2. try' \in Tries /\ altered' \in BOOLEAN
  <2>1. try \in 1..MaxTries /\ MaxTries \in Nat /\ altered \in BOOLEAN
    BY DEF Types, Tries, Constants
  <2>2. altered' \in BOOLEAN
    BY <1>1, <2>1
  <2>3. try' \in 1..MaxTries
    BY <1>1, <2>1
  <2> QED BY <2>2, <2>3 DEF Tries
<1>3. [form |-> form, door |-> d, compare |-> d = door] \in Asks
  BY DEF Types, Asks
<1>4. asks' \in [Tries -> Asks \cup {None}]
  BY <1>2, <1>3 DEF RequestQuote, Types
<1> QED BY <1>1, <1>2, <1>4 DEF RequestQuote

\* What a page's own action does to the key, the quote and the body on screen.
KeepsServer == UNCHANGED <<waiting, serverVars>>
KeyMoves ==
    \/ try' = try /\ key' = key /\ (altered => altered')
    \/ try' = try /\ key' = None /\ altered'
    \/ try' = try + 1 /\ key' = None
QuoteMoves == quote' = None /\ ~altered' => key' = None
ShownMoves ==
    ~altered' /\ step' = 1 /\ key' # None => ~altered /\ step = 1 /\ key' = key /\ Shown' = Shown
PageMoves == KeepsServer /\ KeyMoves /\ QuoteMoves /\ ShownMoves /\ Types' /\ BookedDraftGone'

LEMMA PageMoving ==
    ASSUME Constants, Types, BookedDraftGone, KeyNeedsQuote, Page
    PROVE  PageMoves
<1> USE DEF pageVars, formVars, quoteVars, sendVars, serverVars, ghostVars
<1>1. CASE AddressesLoaded
  <2>1. Prefill # None => Prefill \in Forms
    BY DEF Prefill, Handed, Types, Constants
  <2>2. form' \in Forms /\ draft' \in Forms \cup {None} /\ (done => draft' = None) /\ altered' \in BOOLEAN
    <3>1. CASE UNCHANGED <<form, draft, altered>>
      BY <3>1 DEF Types, BookedDraftGone
    <3>2. CASE Prefill # None /\ form' = Prefill /\ Autosave(Prefill) /\ altered' = (altered \/ step = 1)
      BY <2>1, <3>2, DraftKept DEF Types
    <3> QED BY <1>1, <3>1, <3>2 DEF AddressesLoaded
  <2>3. Types' /\ BookedDraftGone'
    BY <1>1, <2>2 DEF AddressesLoaded, Types, BookedDraftGone
  <2>4. KeepsServer /\ try' = try /\ key' = key /\ quote' = quote
    BY <1>1 DEF AddressesLoaded, KeepsServer
  <2>4a. altered => altered'
    <3>1. altered' = altered \/ altered' = (altered \/ step = 1)
      BY <1>1 DEF AddressesLoaded
    <3>2. CASE altered' = altered
      BY <3>2
    <3>3. CASE altered' = (altered \/ step = 1)
      BY <3>3
    <3> QED BY <3>1, <3>2, <3>3
  <2>4b. KeyMoves /\ QuoteMoves
    BY <2>4, <2>4a DEF KeyMoves, QuoteMoves, KeyNeedsQuote
  <2>5. ShownMoves
    BY <1>1 DEF AddressesLoaded, ShownMoves, Shown
  <2> QED BY <2>3, <2>4, <2>4b, <2>5 DEF PageMoves
<1>2. CASE Valuation
  <2>1. draft' \in Forms \cup {None} /\ (done => draft' = None)
    BY <1>2, DraftKept DEF Valuation, Types
  <2>2. flagged' \in BOOLEAN
    BY <1>2 DEF Valuation, NeedsEwayBill
  <2>3. Types' /\ BookedDraftGone'
    BY <1>2, <2>1, <2>2 DEF Valuation, Types, BookedDraftGone
  <2>4. KeepsServer /\ KeyMoves /\ QuoteMoves /\ ShownMoves
    BY <1>2 DEF Valuation, KeepsServer, KeyMoves, QuoteMoves, ShownMoves, KeyNeedsQuote
  <2> QED BY <2>3, <2>4 DEF PageMoves
<1>3. CASE CompareRates
  <2>1. RequestQuote(door) /\ door \in BOOLEAN
    BY <1>3 DEF CompareRates, Types
  <2>2. /\ asks' \in [Tries -> Asks \cup {None}] /\ quote' = None /\ key' = None /\ try' \in Tries
        /\ altered' \in BOOLEAN
        /\ (quote = None /\ try' = try /\ altered' = altered) \/ (try' = try + 1 /\ altered' = FALSE)
    BY <2>1, QuoteRequested
  <2>3. Types' /\ BookedDraftGone'
    BY <1>3, <2>2 DEF CompareRates, Types, BookedDraftGone
  <2>4. KeepsServer /\ KeyMoves /\ QuoteMoves /\ ShownMoves
    BY <1>3, <2>2 DEF CompareRates, KeepsServer, KeyMoves, QuoteMoves, ShownMoves, KeyNeedsQuote
  <2> QED BY <2>3, <2>4 DEF PageMoves
<1>4. CASE ChangeDoor
  <2>1. RequestQuote(~door)
    BY <1>4 DEF ChangeDoor
  <2> DEFINE d == ~door
  <2>1a. d \in BOOLEAN
    OBVIOUS
  <2>2. /\ asks' \in [Tries -> Asks \cup {None}] /\ quote' = None /\ key' = None /\ try' \in Tries
        /\ altered' \in BOOLEAN
        /\ (quote = None /\ try' = try /\ altered' = altered) \/ (try' = try + 1 /\ altered' = FALSE)
    <3>1. RequestQuote(d)
      BY <2>1
    <3> HIDE DEF d
    <3> QED BY <3>1, <2>1a, QuoteRequested
  <2>3. draft' \in Forms \cup {None} /\ (done => draft' = None)
    BY <1>4, DraftKept DEF ChangeDoor, Types
  <2>4. Types' /\ BookedDraftGone'
    BY <1>4, <2>2, <2>3 DEF ChangeDoor, Types, BookedDraftGone
  <2>5. KeepsServer /\ KeyMoves /\ QuoteMoves /\ ShownMoves
    BY <1>4, <2>2 DEF ChangeDoor, KeepsServer, KeyMoves, QuoteMoves, ShownMoves, KeyNeedsQuote
  <2> QED BY <2>4, <2>5 DEF PageMoves
<1>5. CASE Back \/ CancelPriceChange
  <2>1. Types' /\ BookedDraftGone'
    BY <1>5 DEF Back, CancelPriceChange, Types, BookedDraftGone
  <2>2. KeepsServer /\ KeyMoves /\ QuoteMoves /\ ShownMoves
    BY <1>5 DEF Back, CancelPriceChange, KeepsServer, KeyMoves, QuoteMoves, ShownMoves, Shown, KeyNeedsQuote
  <2> QED BY <2>1, <2>2 DEF PageMoves
<1>6. CASE \E f \in Forms : Edit(f)
  <2>1. PICK f \in Forms : Edit(f)
    BY <1>6
  <2>2. draft' \in Forms \cup {None} /\ (done => draft' = None)
    BY <2>1, DraftKept DEF Edit
  <2>3. flagged' \in BOOLEAN
    BY <2>1 DEF Edit
  <2>4. Types' /\ BookedDraftGone'
    BY <2>1, <2>2, <2>3 DEF Edit, Types, BookedDraftGone
  <2>5. KeepsServer /\ KeyMoves /\ QuoteMoves /\ ShownMoves
    BY <2>1 DEF Edit, KeepsServer, KeyMoves, QuoteMoves, ShownMoves, KeyNeedsQuote
  <2> QED BY <2>4, <2>5 DEF PageMoves
<1>7. CASE \E o \in Options : SelectOption(o)
  <2>1. PICK o \in Options : SelectOption(o)
    BY <1>7
  <2>2. try' = try + 1 /\ try' \in Tries /\ altered' = FALSE
    BY <2>1 DEF SelectOption, NextTry, Types, Tries, Constants
  <2>3. Types' /\ BookedDraftGone'
    BY <2>1, <2>2 DEF SelectOption, Types, BookedDraftGone
  <2>4. KeepsServer /\ KeyMoves /\ QuoteMoves /\ ShownMoves
    BY <2>1, <2>2 DEF SelectOption, KeepsServer, KeyMoves, QuoteMoves, ShownMoves
  <2> QED BY <2>3, <2>4 DEF PageMoves
<1>8. CASE \E t \in Tries : QuoteFailed(t)
  <2>1. PICK t \in Tries : QuoteFailed(t)
    BY <1>8
  <2>2. asks' \in [Tries -> Asks \cup {None}] /\ step' \in {0, step}
    BY <2>1 DEF QuoteFailed, Types
  <2>3. Types' /\ BookedDraftGone'
    BY <2>1, <2>2 DEF QuoteFailed, Types, BookedDraftGone
  <2>4. KeepsServer /\ KeyMoves /\ QuoteMoves
    BY <2>1 DEF QuoteFailed, KeepsServer, KeyMoves, QuoteMoves, KeyNeedsQuote
  <2>5. ShownMoves
    BY <2>1, <2>2 DEF QuoteFailed, ShownMoves, Shown
  <2> QED BY <2>3, <2>4, <2>5 DEF PageMoves
<1>9. CASE \E t \in Tries : \E served \in {Options, {"surface"}} : QuoteAnswered(t, served)
  <2>1. PICK t \in Tries, served \in {Options, {"surface"}} : QuoteAnswered(t, served)
    BY <1>9
  <2>2. asks[t] \in Asks /\ asks' \in [Tries -> Asks \cup {None}]
    BY <2>1 DEF QuoteAnswered, Types
  <2>3. Price(asks[t].form, asks[t].door) \in Totals
    BY PriceTyped DEF Types
  <2>4. quote' \in Quotes
    BY <2>1, <2>3 DEF QuoteAnswered, Quotes, Options
  <2>5. chosen' \in Options
    BY <2>1 DEF QuoteAnswered, Options
  <2>6. /\ step' \in {0, 1} /\ flagged' \in BOOLEAN
        /\ draft' \in Forms \cup {None} /\ (done => draft' = None)
    <3>1. CASE step' = 0 /\ flagged' = TRUE /\ Autosave(form)
      BY <3>1, DraftKept DEF Types
    <3>2. CASE UNCHANGED <<step, flagged, draft>>
      BY <3>2 DEF Types, BookedDraftGone
    <3> QED BY <2>1, <3>1, <3>2 DEF QuoteAnswered
  <2>7. altered' \in BOOLEAN /\ (altered => altered') /\ (~altered' => key = None)
    BY <2>1 DEF QuoteAnswered, Types
  <2>8. Types' /\ BookedDraftGone'
    BY <2>1, <2>2, <2>4, <2>5, <2>6, <2>7 DEF QuoteAnswered, Types, BookedDraftGone
  <2>9. KeepsServer /\ KeyMoves /\ QuoteMoves /\ ShownMoves
    BY <2>1, <2>7 DEF QuoteAnswered, KeepsServer, KeyMoves, QuoteMoves, ShownMoves
  <2> QED BY <2>8, <2>9 DEF PageMoves
<1> QED BY <1>1, <1>2, <1>3, <1>4, <1>5, <1>6, <1>7, <1>8, <1>9 DEF Page

-----------------------------------------------------------------------------
(* What the other actions do, in the terms of the invariant.               *)

\* A request goes out: with the held key if there is one, from what is on screen or from the dialog.
Sends(p, body, plain) ==
    /\ posts[p] = None /\ waiting = None /\ waiting' = p /\ key' \in Keys
    /\ IF plain /\ key # None THEN key' = key ELSE plain => key' \in FreshKeys
    /\ posts' \in [Slots -> Posts \cup {None}]
    /\ \A q \in Slots : q # p => posts'[q] = posts[q]
    /\ posts'[p] # None /\ posts'[p].key = key' /\ posts'[p].body = body /\ posts'[p].at = "sent"
    /\ posts'[p].try = try /\ posts'[p].plain = plain
    /\ UNCHANGED <<formVars, step, quoteVars, claims, booked, base, forgotten, try>>
\* Book, from the cards as they are or after something altered; and the price dialog.
Pressed(p) ==
    \/ quote # None /\ step = 1 /\ ~altered /\ altered' = altered /\ Sends(p, Shown, TRUE)
    \/ altered' /\ Sends(p, posts'[p].body, FALSE)

LEMMA SendMoving ==
    ASSUME Constants, Types, BookedDraftGone, Offered, Book \/ ConfirmPriceChange
    PROVE  (\E p \in Slots : Pressed(p)) /\ Types' /\ Waited' /\ Offered' /\ BookedDraftGone'
<1> USE DEF pageVars, formVars, quoteVars, sendVars, serverVars, ghostVars
<1>1. CASE Book
  <2>1. quote \in Quotes /\ chosen \in Options
    BY <1>1 DEF Book, Types, Quotes
  <2>2. Shown \in Bodies
    BY <2>1 DEF Shown, Bodies, Types, Quotes
  <2>3. Send(Shown, key, ~altered) /\ key \in Keys \cup {None} /\ (~altered) \in BOOLEAN
    BY <1>1 DEF Book, Shown, Types
  <2> DEFINE plain == ~altered
  <2>4. plain \in BOOLEAN /\ Send(Shown, key, plain)
    BY <2>3
  <2>5. PICK p \in Slots :
          /\ posts[p] = None /\ waiting' = p /\ key' \in Keys
          /\ IF key # None THEN key' = key ELSE key' \in FreshKeys
          /\ posts' \in [Slots -> Posts \cup {None}]
          /\ \A q \in Slots : q # p => posts'[q] = posts[q]
          /\ posts'[p] # None /\ posts'[p].key = key' /\ posts'[p].body = Shown
          /\ posts'[p].at = "sent" /\ posts'[p].new = 0
          /\ posts'[p].try = try /\ posts'[p].plain = plain
    <3> HIDE DEF plain
    <3> QED BY <2>2, <2>3, <2>4, Sending
  <2>6. Types' /\ Waited' /\ BookedDraftGone'
    BY <1>1, <2>5 DEF Book, Types, Waited, BookedDraftGone
  <2>7. Offered'
    BY <2>5 DEF Offered
  <2>8. Pressed(p)
    <3>1. altered \in BOOLEAN /\ altered' = altered /\ waiting = None /\ quote # None /\ step = 1
      BY <1>1 DEF Book, Types
    <3>2. CASE altered
      <4>1. plain = FALSE
        BY <3>2
      <4>2. Sends(p, posts'[p].body, FALSE)
        BY <1>1, <2>5, <3>1, <4>1 DEF Book, Sends
      <4> QED BY <3>1, <3>2, <4>2 DEF Pressed
    <3>3. CASE ~altered
      <4>1. plain = TRUE
        BY <3>3
      <4>2. Sends(p, Shown, TRUE)
        BY <1>1, <2>5, <3>1, <4>1 DEF Book, Sends
      <4> QED BY <3>1, <3>3, <4>2 DEF Pressed
    <3> QED BY <3>2, <3>3
  <2> QED BY <2>6, <2>7, <2>8
<1>2. CASE ConfirmPriceChange
  <2>1. change \in Bodies
    BY <1>2 DEF ConfirmPriceChange, Types
  <2>2. PICK p \in Slots :
          /\ posts[p] = None /\ waiting' = p /\ key' \in Keys
          /\ posts' \in [Slots -> Posts \cup {None}]
          /\ \A q \in Slots : q # p => posts'[q] = posts[q]
          /\ posts'[p] # None /\ posts'[p].key = key' /\ posts'[p].body = change
          /\ posts'[p].at = "sent" /\ posts'[p].new = 0
          /\ posts'[p].try = try /\ posts'[p].plain = FALSE
    <3>1. Send(change, None, FALSE)
      BY <1>2 DEF ConfirmPriceChange
    <3>2. None \in Keys \cup {None} /\ FALSE \in BOOLEAN
      OBVIOUS
    <3> DEFINE held == None  plain == FALSE
    <3>3. held \in Keys \cup {None} /\ plain \in BOOLEAN /\ Send(change, held, plain)
      BY <3>1, <3>2
    <3> HIDE DEF held, plain
    <3>4. PICK p \in Slots :
            /\ posts[p] = None /\ waiting' = p /\ key' \in Keys
            /\ posts' \in [Slots -> Posts \cup {None}]
            /\ \A q \in Slots : q # p => posts'[q] = posts[q]
            /\ posts'[p] # None /\ posts'[p].key = key' /\ posts'[p].body = change
            /\ posts'[p].at = "sent" /\ posts'[p].new = 0
            /\ posts'[p].try = try /\ posts'[p].plain = plain
      BY <2>1, <3>3, Sending
    <3> USE DEF plain
    <3> QED BY <3>4
  <2>3. Types' /\ Waited' /\ BookedDraftGone'
    BY <1>2, <2>2 DEF ConfirmPriceChange, Types, Waited, BookedDraftGone
  <2>4. Offered'
    BY <2>2 DEF Offered
  <2>5. Sends(p, posts'[p].body, FALSE)
    BY <1>2, <2>2 DEF ConfirmPriceChange, Sends
  <2>6. Pressed(p)
    BY <1>2, <2>5 DEF ConfirmPriceChange, Pressed
  <2> QED BY <2>3, <2>4, <2>6
<1> QED BY <1>1, <1>2

\* The awaited request is settled: the key goes if the answer was a refusal.
Settles ==
    /\ waiting # None /\ waiting' = None
    /\ \A q \in Slots : q # waiting => posts'[q] = posts[q]
    /\ IF posts[waiting].at \in {"running", "committed"} THEN posts' = posts ELSE posts'[waiting] = None
    /\ key' = IF posts[waiting].at \in {"refused", "changed"} THEN None ELSE key
    /\ UNCHANGED <<form, door, step, quoteVars, claims, booked, base, forgotten, try, altered>>

LEMMA SettleMoving ==
    ASSUME Constants, Types, BookedDraftGone, Waited, Offered, Answered \/ NoAnswer
    PROVE  Settles /\ Types' /\ Waited' /\ Offered' /\ BookedDraftGone'
<1> USE DEF pageVars, formVars, quoteVars, sendVars, serverVars, ghostVars
<1>1. waiting \in Slots /\ posts[waiting] \in Posts /\ posts \in [Slots -> Posts \cup {None}]
  BY DEF Answered, NoAnswer, Types, Waited
<1> DEFINE at == posts[waiting].at
<1>2. CASE Answered
  <2>1. at \in {"created", "busy", "refused", "changed", "down"}
    BY <1>1, <1>2 DEF Answered, Posts, Stages
  <2> DEFINE offer == [posts[waiting].body EXCEPT !.total = posts[waiting].new]
  <2>2. Settled(at, offer)
    BY <1>2 DEF Answered
  <2>3. at = "changed" => offer \in Bodies
    <3>1. posts[waiting].body \in Bodies /\ (at = "changed" => posts[waiting].new \in Totals)
      BY <1>1, <1>2 DEF Offered, Posts, Answered, Constants
    <3> QED BY <3>1 DEF Bodies
  <2>4. posts' \in [Slots -> Posts \cup {None}] /\ posts'[waiting] = None
        /\ \A q \in Slots : q # waiting => posts'[q] = posts[q]
    BY <1>1, <1>2 DEF Answered
  <2>5. /\ waiting' = None /\ key' = (IF at \in {"refused", "changed"} THEN None ELSE key)
        /\ UNCHANGED <<pageVars, form, door, flagged, step, quoteVars, ghostVars>>
        /\ change' = (IF at = "changed" THEN offer ELSE None)
        /\ (done' = TRUE /\ draft' = None) \/ (done' = done /\ draft' = draft)
    BY <2>1, <2>2 DEF Settled, Unsure
  <2> HIDE DEF offer
  <2>6. Settles
    BY <1>2, <2>1, <2>4, <2>5 DEF Answered, Settles
  <2>7a. key' \in Keys \cup {None} /\ change' \in Bodies \cup {None}
    BY <2>3, <2>5 DEF Types
  <2>7b. done' \in BOOLEAN /\ draft' \in Forms \cup {None} /\ (done' => draft' = None)
    <3>1. CASE done' = TRUE /\ draft' = None
      BY <3>1
    <3>2. CASE done' = done /\ draft' = draft
      BY <3>2 DEF Types, BookedDraftGone
    <3> QED BY <2>5, <3>1, <3>2
  <2>7. Types' /\ Waited' /\ BookedDraftGone'
    BY <1>2, <2>4, <2>5, <2>7a, <2>7b DEF Answered, Types, Waited, BookedDraftGone
  <2>8. Offered'
    BY <2>4 DEF Offered
  <2> QED BY <2>6, <2>7, <2>8
<1>3. CASE NoAnswer
  <2>1. at \in {"sent", "running", "committed"}
    BY <1>3 DEF NoAnswer
  <2>2. /\ waiting' = None /\ key' = key /\ change' = None
        /\ UNCHANGED <<pageVars, form, door, flagged, step, quoteVars, ghostVars, done, draft>>
    BY <1>3 DEF NoAnswer, Settled, Unsure
  <2>3. posts' \in [Slots -> Posts \cup {None}] /\ \A q \in Slots : q # waiting => posts'[q] = posts[q]
    BY <1>1, <1>3 DEF NoAnswer
  <2>4. IF at = "sent" THEN posts'[waiting] = None ELSE posts' = posts
    BY <1>1, <1>3 DEF NoAnswer
  <2>5. Settles
    BY <1>3, <2>1, <2>2, <2>3, <2>4 DEF NoAnswer, Settles
  <2>6. Types' /\ Waited' /\ BookedDraftGone'
    BY <1>3, <2>2, <2>3 DEF NoAnswer, Types, Waited, BookedDraftGone
  <2>7. Offered'
    BY <2>1, <2>3, <2>4 DEF Offered
  <2> QED BY <2>5, <2>6, <2>7
<1> QED BY <1>2, <1>3

\* One step of the server with a request: what becomes of it, of its claim and of the bookings.
Answers(p, answers) ==
    /\ p # waiting => posts'[p] = None
    /\ p = waiting => posts'[p] # None /\ posts'[p].at \in answers
Starts(p) ==
    /\ posts[p].at = "sent" /\ claims[posts[p].key] = None /\ booked' = booked
    /\ claims' = [claims EXCEPT ![posts[p].key] = [body |-> posts[p].body, stored |-> FALSE]]
    /\ posts'[p] # None /\ posts'[p].at = "running"
Dismissed(p) ==
    /\ posts[p].at = "sent" /\ UNCHANGED <<claims, booked>>
    /\ \/ Answers(p, {"created", "busy"})
       \/ Answers(p, {"refused"}) /\ claims[posts[p].key] # None /\ claims[posts[p].key].body # posts[p].body
Books(p) ==
    /\ posts[p].at = "running" /\ claims' = claims
    /\ posts'[p] # None /\ posts'[p].at = "committed"
    /\ \E b \in Bookings :
         /\ booked' = booked \cup {b} /\ b.agreed = b.paid
         /\ b.key = posts[p].key /\ b.try = posts[p].try /\ b.plain = posts[p].plain
Released(p) ==
    /\ posts[p].at = "running" /\ claims' = [claims EXCEPT ![posts[p].key] = None] /\ booked' = booked
    /\ Answers(p, {"refused", "changed", "down"})
Ends(p) ==
    /\ posts[p].at \in {"running", "committed"} /\ booked' = booked
    /\ \/ claims' = claims
       \/ posts[p].at = "committed" /\ claims' = [claims EXCEPT ![posts[p].key].stored = TRUE]
    /\ Answers(p, {"created", "down"})
\* What is booked is forgotten.
Forgets(p) ==
    /\ posts[p].at = "committed" /\ claims' = [claims EXCEPT ![posts[p].key] = None] /\ booked' = booked
    /\ forgotten' \in [Keys -> 0..MaxForgets]
    /\ \A b \in Kept' : b \in Kept /\ b.key # posts[p].key
    /\ Answers(p, {"down"})
Serves(p) ==
    /\ posts[p] # None
    /\ posts' \in [Slots -> Posts \cup {None}] /\ claims' \in [Keys -> Claims \cup {None}]
    /\ \A q \in Slots : q # p => posts'[q] = posts[q]
    /\ posts'[p] # None =>
         /\ posts'[p].key = posts[p].key /\ posts'[p].body = posts[p].body
         /\ posts'[p].try = posts[p].try /\ posts'[p].plain = posts[p].plain
    /\ (forgotten' = forgotten /\ (Starts(p) \/ Dismissed(p) \/ Books(p) \/ Released(p) \/ Ends(p))) \/ Forgets(p)
    /\ UNCHANGED <<pageVars, formVars, step, quoteVars, sendVars, base, ghostVars>>

LEMMA ServerMoving ==
    ASSUME Constants, Types, Offered, ServerInv, NEW p \in Slots,
           Claim(p) \/ Work(p) \/ Store(p) \/ StoreFailed(p) \/ Crash(p)
    PROVE  Serves(p) /\ Offered'
<1> DEFINE post == posts[p]  k == posts[p].key
<1>1. /\ post # None /\ post \in Posts /\ k \in Keys /\ post.body \in Bodies
      /\ claims \in [Keys -> Claims \cup {None}]
  BY DEF Claim, Work, Store, StoreFailed, Crash, Types, Posts
<1>2. CASE Claim(p)
  <2>1. UNCHANGED <<pageVars, formVars, step, quoteVars, sendVars, base, ghostVars>>
        /\ booked' = booked /\ forgotten' = forgotten /\ post.at = "sent"
    BY <1>2 DEF Claim
  <2>2. CASE claims[k] = None
    <3>1. Claimed(p)
      BY <1>2, <2>2 DEF Claim, ClaimOrReplay
    <3>2. Continue(p, "running") /\ "running" \in Stages
      BY <3>1 DEF Claimed, Stages
    <3>3. /\ posts' \in [Slots -> Posts \cup {None}]
          /\ \A q \in Slots : q # p => posts'[q] = posts[q]
          /\ posts'[p] # None /\ posts'[p].at = "running" /\ posts'[p].new = posts[p].new
          /\ posts'[p].key = posts[p].key /\ posts'[p].body = posts[p].body
          /\ posts'[p].try = posts[p].try /\ posts'[p].plain = posts[p].plain
      BY <1>1, <3>2, Continued
    <3>4. claims' = [claims EXCEPT ![k] = [body |-> post.body, stored |-> FALSE]]
      BY <3>1 DEF Claimed
    <3>5. [body |-> post.body, stored |-> FALSE] \in Claims
      BY <1>1 DEF Claims
    <3>6. claims' \in [Keys -> Claims \cup {None}]
      BY <1>1, <3>4, <3>5
    <3>7. Starts(p)
      BY <2>1, <2>2, <3>3, <3>4 DEF Starts
    <3>8. Serves(p)
      BY <1>1, <2>1, <3>3, <3>6, <3>7 DEF Serves
    <3> QED BY <3>3, <3>8 DEF Offered
  <2>3. CASE claims[k] # None
    <3>1. /\ claims' = claims
          /\ \/ claims[k].body # post.body /\ Reply(p, "refused", 0)
             \/ Reply(p, "created", 0) \/ Reply(p, "busy", 0)
      BY <1>2, <2>3 DEF Claim, ClaimOrReplay
    <3>2. PICK answer \in {"refused", "created", "busy"} :
            Reply(p, answer, 0) /\ (answer = "refused" => claims[k].body # post.body)
      BY <3>1
    <3>3. answer \in Stages /\ 0 \in Nat
      BY DEF Stages
    <3>4. /\ posts' \in [Slots -> Posts \cup {None}]
          /\ \A q \in Slots : q # p => posts'[q] = posts[q]
          /\ p # waiting => posts'[p] = None
          /\ p = waiting =>
               /\ posts'[p] # None /\ posts'[p].at = answer /\ posts'[p].new = 0
               /\ posts'[p].key = posts[p].key /\ posts'[p].body = posts[p].body
               /\ posts'[p].try = posts[p].try /\ posts'[p].plain = posts[p].plain
      BY <1>1, <3>2, <3>3, Replied
    <3>5. Dismissed(p)
      BY <2>1, <2>3, <3>1, <3>2, <3>4 DEF Dismissed, Answers
    <3>6. Serves(p)
      BY <1>1, <2>1, <3>1, <3>4, <3>5 DEF Serves
    <3> QED BY <3>4, <3>6 DEF Offered
  <2> QED BY <2>2, <2>3
<1>3. CASE Work(p)
  <2> DEFINE price == Price(post.body.form, post.body.door)
  <2>1. UNCHANGED <<pageVars, formVars, step, quoteVars, sendVars, base, forgotten, ghostVars>> /\ post.at = "running"
    BY <1>3 DEF Work
  <2>2. price \in Totals /\ price \in Nat
    BY PriceTyped DEF Types
  <2>3. CASE claims' = claims
    <3> DEFINE b == [nr |-> Cardinality(booked) + 1, key |-> k, try |-> post.try,
                     plain |-> post.plain, agreed |-> post.body.total, paid |-> price]
    <3>1. claims[k] # None
      BY <1>1, <2>1 DEF ServerInv, ClaimHeld, Live
    <3>2. Accepted(post.body) /\ booked' = booked \cup {b} /\ Continue(p, "committed")
      <4>1. claims' # [claims EXCEPT ![k] = None]
        BY <1>1, <2>3, <3>1
      <4> QED BY <1>3, <4>1 DEF Work
    <3>3. Cardinality(booked) + 1 \in Nat
      BY FS_CardinalityType DEF Types
    <3>4. b \in Bookings /\ b.agreed = b.paid
          /\ b.key = k /\ b.try = post.try /\ b.plain = post.plain
      <4>1. post.body.total = price
        BY <3>2 DEF Accepted
      <4> HIDE DEF price
      <4> QED BY <1>1, <2>2, <3>3, <4>1 DEF Bookings, Posts
    <3>5. /\ posts' \in [Slots -> Posts \cup {None}]
          /\ \A q \in Slots : q # p => posts'[q] = posts[q]
          /\ posts'[p] # None /\ posts'[p].at = "committed" /\ posts'[p].new = posts[p].new
          /\ posts'[p].key = posts[p].key /\ posts'[p].body = posts[p].body
          /\ posts'[p].try = posts[p].try /\ posts'[p].plain = posts[p].plain
      <4>1. "committed" \in Stages
        BY DEF Stages
      <4> QED BY <1>1, <3>2, <4>1, Continued
    <3> HIDE DEF b
    <3>6. Books(p)
      BY <2>1, <2>3, <3>2, <3>4, <3>5 DEF Books
    <3>7. Serves(p)
      BY <1>1, <2>1, <2>3, <3>5, <3>6 DEF Serves
    <3> QED BY <3>5, <3>7 DEF Offered
  <2>4. CASE claims' # claims
    <3>1. /\ booked' = booked /\ claims' = [claims EXCEPT ![k] = None]
          /\ \/ Reply(p, "changed", price) \/ Reply(p, "refused", 0) \/ Reply(p, "down", 0)
      BY <1>3, <2>4 DEF Work
    <3>2. PICK answer \in {"changed", "refused", "down"}, new \in Nat :
            Reply(p, answer, new) /\ (answer = "changed" => new \in Totals)
      <4> HIDE DEF price
      <4>1. 0 \in Nat
        OBVIOUS
      <4> QED BY <2>2, <3>1, <4>1
    <3>3. answer \in Stages
      BY DEF Stages
    <3>4. /\ posts' \in [Slots -> Posts \cup {None}]
          /\ \A q \in Slots : q # p => posts'[q] = posts[q]
          /\ p # waiting => posts'[p] = None
          /\ p = waiting =>
               /\ posts'[p] # None /\ posts'[p].at = answer /\ posts'[p].new = new
               /\ posts'[p].key = posts[p].key /\ posts'[p].body = posts[p].body
               /\ posts'[p].try = posts[p].try /\ posts'[p].plain = posts[p].plain
      BY <1>1, <3>2, <3>3, Replied
    <3>5. Released(p)
      BY <2>1, <3>1, <3>4 DEF Released, Answers
    <3>6. claims' \in [Keys -> Claims \cup {None}]
      BY <1>1, <3>1
    <3>7. Serves(p)
      BY <1>1, <2>1, <3>4, <3>5, <3>6 DEF Serves
    <3> QED BY <3>2, <3>4, <3>7 DEF Offered
  <2> QED BY <2>3, <2>4
<1>4. CASE Store(p) \/ Crash(p)
  <2>1. UNCHANGED <<pageVars, formVars, step, quoteVars, sendVars, base, ghostVars>>
        /\ booked' = booked /\ forgotten' = forgotten /\ post.at \in {"running", "committed"}
    BY <1>4 DEF Store, Crash
  <2>2. PICK answer \in {"created", "down"} : Reply(p, answer, 0)
    BY <1>4 DEF Store, Crash
  <2>3. answer \in Stages /\ 0 \in Nat
    BY DEF Stages
  <2>4. /\ posts' \in [Slots -> Posts \cup {None}]
        /\ \A q \in Slots : q # p => posts'[q] = posts[q]
        /\ p # waiting => posts'[p] = None
        /\ p = waiting =>
             /\ posts'[p] # None /\ posts'[p].at = answer /\ posts'[p].new = 0
             /\ posts'[p].key = posts[p].key /\ posts'[p].body = posts[p].body
             /\ posts'[p].try = posts[p].try /\ posts'[p].plain = posts[p].plain
    BY <1>1, <2>2, <2>3, Replied
  <2>5. \/ claims' = claims
        \/ post.at = "committed" /\ claims' = [claims EXCEPT ![k].stored = TRUE]
    BY <1>4 DEF Store, Crash
  <2>6. claims' \in [Keys -> Claims \cup {None}]
    <3>1. claims[k] # None /\ claims[k] \in Claims
      BY <1>1, <2>1 DEF ServerInv, ClaimHeld, Live
    <3>2. [claims[k] EXCEPT !.stored = TRUE] \in Claims
      BY <3>1 DEF Claims
    <3>3. claims' = claims \/ claims' = [claims EXCEPT ![k] = [claims[k] EXCEPT !.stored = TRUE]]
      BY <1>1, <2>5
    <3> DEFINE claim == [claims[k] EXCEPT !.stored = TRUE]
    <3> HIDE DEF claim
    <3>4. claims' = claims \/ claims' = [claims EXCEPT ![k] = claim]
      BY <3>3 DEF claim
    <3>5. claim \in Claims
      BY <3>2 DEF claim
    <3> QED BY <1>1, <3>4, <3>5
  <2>7. Ends(p)
    BY <2>1, <2>4, <2>5 DEF Ends, Answers
  <2>8. Serves(p)
    BY <1>1, <2>1, <2>4, <2>6, <2>7 DEF Serves
  <2> QED BY <2>4, <2>8 DEF Offered
<1>5. CASE StoreFailed(p)
  <2>1. UNCHANGED <<pageVars, formVars, step, quoteVars, sendVars, base, ghostVars>>
        /\ booked' = booked /\ post.at = "committed" /\ Reply(p, "down", 0)
        /\ claims' = [claims EXCEPT ![k] = None]
        /\ forgotten[k] < MaxForgets /\ forgotten' = [forgotten EXCEPT ![k] = @ + 1]
    BY <1>5 DEF StoreFailed
  <2>2. "down" \in Stages /\ 0 \in Nat
    BY DEF Stages
  <2>3. /\ posts' \in [Slots -> Posts \cup {None}]
        /\ \A q \in Slots : q # p => posts'[q] = posts[q]
        /\ p # waiting => posts'[p] = None
        /\ p = waiting =>
             /\ posts'[p] # None /\ posts'[p].at = "down" /\ posts'[p].new = 0
             /\ posts'[p].key = posts[p].key /\ posts'[p].body = posts[p].body
             /\ posts'[p].try = posts[p].try /\ posts'[p].plain = posts[p].plain
    BY <1>1, <2>1, <2>2, Replied
  <2>4. forgotten \in [Keys -> 0..MaxForgets] /\ MaxForgets \in Nat
    BY DEF Types, Constants
  <2>5. forgotten' \in [Keys -> 0..MaxForgets] /\ forgotten'[k] > 0
        /\ \A j \in Keys : j # k => forgotten'[j] = forgotten[j]
    BY <1>1, <2>1, <2>4
  <2>6. \A b \in Kept' : b \in Kept /\ b.key # k
    <3>1. \A b \in booked : b.key \in Keys
      BY DEF Types, Bookings
    <3> QED BY <2>1, <2>5, <3>1 DEF Kept, Forgotten
  <2>7. Forgets(p)
    BY <2>1, <2>3, <2>5, <2>6 DEF Forgets, Answers
  <2>8. claims' \in [Keys -> Claims \cup {None}]
    BY <1>1, <2>1
  <2>9. Serves(p)
    BY <1>1, <2>1, <2>3, <2>7, <2>8 DEF Serves
  <2> QED BY <2>3, <2>9 DEF Offered
<1> QED BY <1>2, <1>3, <1>4, <1>5

LEMMA ServesTyped ==
    ASSUME Constants, Types, Waited, BookedDraftGone, NEW p \in Slots, Serves(p)
    PROVE  Types' /\ Waited' /\ BookedDraftGone'
<1> USE DEF pageVars, formVars, quoteVars, sendVars, serverVars, ghostVars
<1>1. booked' \subseteq Bookings /\ IsFiniteSet(booked')
  BY FS_AddElement DEF Types, Serves, Starts, Dismissed, Books, Released, Ends, Forgets
<1>1a. forgotten' \in [Keys -> 0..MaxForgets]
  BY DEF Types, Serves, Forgets
<1>2. Types'
  BY <1>1, <1>1a DEF Types, Serves
<1>3. Waited'
  BY DEF Serves, Starts, Dismissed, Books, Released, Ends, Forgets, Answers, Waited, Types
<1>4. BookedDraftGone'
  BY DEF Serves, BookedDraftGone
<1> QED BY <1>2, <1>3, <1>4

-----------------------------------------------------------------------------
(* The server's part of the invariant.                                     *)

LEMMA KeptServed ==
    ASSUME Types, NEW p \in Slots, Serves(p)
    PROVE  \A b \in Kept' : b \in Kept \/
             (Books(p) /\ b.key = posts[p].key /\ b.try = posts[p].try /\ b.plain = posts[p].plain)
<1>1. CASE Forgets(p)
  BY <1>1 DEF Forgets
<1>2. CASE forgotten' = forgotten /\ (Starts(p) \/ Dismissed(p) \/ Released(p) \/ Ends(p))
  BY <1>2 DEF Starts, Dismissed, Released, Ends, Kept, Forgotten
<1>3. CASE forgotten' = forgotten /\ Books(p)
  <2>1. PICK c \in Bookings : /\ booked' = booked \cup {c}
          /\ c.key = posts[p].key /\ c.try = posts[p].try /\ c.plain = posts[p].plain
    BY <1>3 DEF Books
  <2> QED BY <1>3, <2>1 DEF Kept, Forgotten
<1> QED BY <1>1, <1>2, <1>3 DEF Serves

LEMMA ServerKeptByPages ==
    ASSUME ServerInv, UNCHANGED <<waiting, posts, claims, booked, forgotten>>
    PROVE  ServerInv'
BY DEF Kept, Forgotten, ServerInv, ClaimHeld, OneAtWork, OthersLive, BookedClaimed, RunningUnbooked, KeptAlone, Live

LEMMA ServerKeptBySending ==
    ASSUME Constants, Types, ServerInv, NEW p \in Slots, Pressed(p)
    PROVE  ServerInv'
<1>1. /\ waiting = None /\ waiting' = p /\ \A q \in Slots : q # p => posts'[q] = posts[q]
      /\ posts'[p].at = "sent" /\ claims' = claims /\ Kept' = Kept
  BY DEF Pressed, Sends, Kept, Forgotten
<1>2. \A q \in Slots : posts[q] # None => Live(q)
  BY <1>1 DEF ServerInv, OthersLive, Constants
<1>3. \A q \in Slots : Live(q)' => q # p /\ Live(q)
  BY <1>1 DEF Live
<1>4. ClaimHeld' /\ OneAtWork' /\ OthersLive'
  BY <1>1, <1>2, <1>3 DEF ServerInv, ClaimHeld, OneAtWork, OthersLive, Live
<1>5. BookedClaimed' /\ RunningUnbooked' /\ KeptAlone'
  BY <1>1, <1>3 DEF ServerInv, BookedClaimed, RunningUnbooked, KeptAlone, Live
<1> QED BY <1>4, <1>5 DEF ServerInv

LEMMA ServerKeptBySettling ==
    ASSUME Constants, Types, ServerInv, Settles
    PROVE  ServerInv'
<1>1. /\ waiting \in Slots /\ waiting' = None /\ \A q \in Slots : q # waiting => posts'[q] = posts[q]
      /\ posts'[waiting] = None \/ (posts' = posts /\ posts[waiting].at \in {"running", "committed"})
      /\ claims' = claims /\ Kept' = Kept
  BY DEF Settles, Types, Kept, Forgotten
<1>2. \A q \in Slots : posts'[q] # None => posts'[q] = posts[q] /\ Live(q)
  BY <1>1 DEF ServerInv, OthersLive, Live
<1>3. ClaimHeld' /\ OneAtWork' /\ OthersLive'
  BY <1>1, <1>2 DEF ServerInv, ClaimHeld, OneAtWork, OthersLive, Live
<1>4. BookedClaimed' /\ RunningUnbooked' /\ KeptAlone'
  BY <1>1, <1>2 DEF ServerInv, BookedClaimed, RunningUnbooked, KeptAlone, Live
<1> QED BY <1>3, <1>4 DEF ServerInv

LEMMA ServerKeptByServing ==
    ASSUME Constants, Types, ServerInv, NEW p \in Slots, Serves(p)
    PROVE  ServerInv'
<1>1. /\ posts[p] # None /\ posts[p] \in Posts /\ posts[p].key \in Keys /\ waiting' = waiting
      /\ \A q \in Slots : q # p => posts'[q] = posts[q]
      /\ posts'[p] # None => posts'[p].key = posts[p].key /\ posts'[p].body = posts[p].body
      /\ claims \in [Keys -> Claims \cup {None}]
      /\ \A q \in Slots : posts[q] # None => posts[q].key \in Keys
      /\ \A b \in Kept : b.key \in Keys
  BY DEF Serves, Types, Posts, Bookings, Kept, sendVars
<1>1a. /\ \A b \in Kept' : b \in Kept \/ (Books(p) /\ b.key = posts[p].key)
       /\ ~Books(p) => Kept' \subseteq Kept
  BY KeptServed
<1>2. OthersLive'
  BY <1>1 DEF Serves, ServerInv, OthersLive, Live, Starts, Dismissed, Books, Released, Ends, Forgets, Answers
<1>3. CASE Starts(p)
  <2>1. /\ claims[posts[p].key] = None /\ Kept' \subseteq Kept
        /\ claims'[posts[p].key] = [body |-> posts[p].body, stored |-> FALSE]
        /\ claims'[posts[p].key] # None
        /\ \A k \in Keys : k # posts[p].key => claims'[k] = claims[k]
    <3>1. [body |-> posts[p].body, stored |-> FALSE] \in Claims
      BY <1>1 DEF Posts, Claims
    <3>2. [body |-> posts[p].body, stored |-> FALSE] # None
      BY <3>1 DEF Constants
    <3> QED BY <1>1, <1>1a, <1>3, <3>2 DEF Starts, Books
  <2>2. \A q \in Slots : Live(q) => posts[q].key # posts[p].key
    BY <2>1 DEF ServerInv, ClaimHeld
  <2>3. \A q \in Slots : q # p => (Live(q)' <=> Live(q))
    BY <1>1 DEF Live
  <2>4. ClaimHeld' /\ OneAtWork'
    BY <1>1, <1>3, <2>1, <2>2, <2>3 DEF ServerInv, ClaimHeld, OneAtWork, Starts, Live
  <2>5. \A b \in Kept : b.key # posts[p].key
    BY <2>1 DEF ServerInv, BookedClaimed
  <2>6. BookedClaimed' /\ KeptAlone'
    BY <1>1, <2>1, <2>5 DEF ServerInv, BookedClaimed, KeptAlone
  <2>7. RunningUnbooked'
    BY <1>1, <2>1, <2>5 DEF ServerInv, RunningUnbooked
  <2> QED BY <1>2, <2>4, <2>6, <2>7 DEF ServerInv
<1>4. CASE Dismissed(p)
  <2>1. claims' = claims /\ Kept' \subseteq Kept /\ \A q \in Slots : Live(q)' => q # p /\ posts'[q] = posts[q]
    BY <1>1, <1>1a, <1>4 DEF Dismissed, Answers, Live, Books
  <2>2. ClaimHeld' /\ OneAtWork'
    BY <2>1 DEF ServerInv, ClaimHeld, OneAtWork, Live
  <2>3. BookedClaimed' /\ RunningUnbooked' /\ KeptAlone'
    BY <2>1 DEF ServerInv, BookedClaimed, RunningUnbooked, KeptAlone, Live
  <2> QED BY <1>2, <2>2, <2>3 DEF ServerInv
<1>5. CASE Books(p)
  <2>1. PICK b \in Bookings : Kept' \subseteq Kept \cup {b} /\ b.key = posts[p].key
    <3>1. PICK b \in Bookings : booked' = booked \cup {b} /\ b.key = posts[p].key
      BY <1>5 DEF Books
    <3>2. forgotten' = forgotten
      BY <1>5 DEF Serves, Books, Forgets
    <3>3. Kept' \subseteq Kept \cup {b}
      BY <3>1, <3>2 DEF Kept, Forgotten
    <3> QED BY <3>1, <3>3
  <2>2. claims' = claims /\ Live(p) /\ \A q \in Slots : Live(q)' <=> Live(q)
    BY <1>1, <1>5 DEF Books, Live
  <2>3. ClaimHeld' /\ OneAtWork'
    BY <1>1, <1>5, <2>2 DEF Books, ServerInv, ClaimHeld, OneAtWork, Live
  <2>4. \A c \in Kept : c.key # b.key
    BY <1>1, <1>5, <2>1 DEF Books, ServerInv, RunningUnbooked
  <2>5. BookedClaimed' /\ KeptAlone'
    BY <2>1, <2>2, <2>4 DEF ServerInv, BookedClaimed, KeptAlone, ClaimHeld
  <2>6. RunningUnbooked'
    <3> SUFFICES ASSUME NEW q \in Slots, posts'[q] # None, posts'[q].at = "running",
                        NEW c \in Kept'
                 PROVE  c.key # posts'[q].key
      BY DEF RunningUnbooked
    <3>1. q # p /\ posts'[q] = posts[q] /\ Live(q)
      BY <1>1, <1>5 DEF Books, Live
    <3>2. posts[q].key # b.key
      BY <2>1, <2>2, <3>1 DEF ServerInv, OneAtWork
    <3> QED BY <2>1, <3>1, <3>2 DEF ServerInv, RunningUnbooked
  <2> QED BY <1>2, <2>3, <2>5, <2>6 DEF ServerInv
<1>6. CASE Released(p)
  <2>1. /\ Kept' \subseteq Kept /\ Live(p) /\ posts[p].at = "running"
        /\ \A k \in Keys : k # posts[p].key => claims'[k] = claims[k]
        /\ \A q \in Slots : Live(q)' => q # p /\ posts'[q] = posts[q] /\ Live(q)
    BY <1>1, <1>1a, <1>6 DEF Released, Answers, Live, Books
  <2>2. \A q \in Slots : Live(q)' => posts[q].key # posts[p].key
    BY <2>1 DEF ServerInv, OneAtWork
  <2>3. ClaimHeld' /\ OneAtWork'
    BY <1>1, <2>1, <2>2 DEF ServerInv, ClaimHeld, OneAtWork, Live
  <2>4. \A b \in Kept : b.key # posts[p].key
    BY <1>1, <2>1 DEF ServerInv, RunningUnbooked
  <2>5. BookedClaimed' /\ RunningUnbooked' /\ KeptAlone'
    BY <1>1, <2>1, <2>4 DEF ServerInv, BookedClaimed, RunningUnbooked, KeptAlone, Live
  <2> QED BY <1>2, <2>3, <2>5 DEF ServerInv
<1>7. CASE Ends(p)
  <2>1. /\ Kept' \subseteq Kept /\ Live(p)
        /\ \A q \in Slots : Live(q)' => q # p /\ posts'[q] = posts[q] /\ Live(q)
    BY <1>1, <1>1a, <1>7 DEF Ends, Answers, Live, Books
  <2>2. /\ \A k \in Keys : k # posts[p].key => claims'[k] = claims[k]
        /\ claims'[posts[p].key] # None
    <3>1. claims[posts[p].key] # None /\ claims[posts[p].key] \in Claims
      BY <1>1, <2>1 DEF ServerInv, ClaimHeld
    <3>2. CASE claims' = claims
      BY <3>1, <3>2
    <3>3. CASE claims' = [claims EXCEPT ![posts[p].key].stored = TRUE]
      <4>1. claims'[posts[p].key] = [claims[posts[p].key] EXCEPT !.stored = TRUE]
            /\ \A k \in Keys : k # posts[p].key => claims'[k] = claims[k]
        BY <1>1, <3>3
      <4>2. [claims[posts[p].key] EXCEPT !.stored = TRUE] \in Claims
        BY <3>1 DEF Claims
      <4> QED BY <4>1, <4>2 DEF Constants
    <3> QED BY <1>7, <3>2, <3>3 DEF Ends
  <2>3. \A q \in Slots : Live(q)' => posts[q].key # posts[p].key
    BY <2>1 DEF ServerInv, OneAtWork
  <2>4. ClaimHeld' /\ OneAtWork'
    BY <1>1, <2>1, <2>2, <2>3 DEF ServerInv, ClaimHeld, OneAtWork, Live
  <2>5. BookedClaimed' /\ RunningUnbooked' /\ KeptAlone'
    BY <1>1, <2>1, <2>2 DEF ServerInv, BookedClaimed, RunningUnbooked, KeptAlone, Live
  <2> QED BY <1>2, <2>4, <2>5 DEF ServerInv
<1>8. CASE Forgets(p)
  <2>1. /\ Live(p) /\ posts[p].at = "committed"
        /\ \A b \in Kept' : b \in Kept /\ b.key # posts[p].key
        /\ \A k \in Keys : k # posts[p].key => claims'[k] = claims[k]
        /\ \A q \in Slots : Live(q)' => q # p /\ posts'[q] = posts[q] /\ Live(q)
    BY <1>1, <1>8 DEF Forgets, Answers, Live
  <2>2. \A q \in Slots : Live(q)' => posts[q].key # posts[p].key
    BY <2>1 DEF ServerInv, OneAtWork
  <2>3. ClaimHeld' /\ OneAtWork'
    BY <1>1, <2>1, <2>2 DEF ServerInv, ClaimHeld, OneAtWork, Live
  <2>4. BookedClaimed' /\ KeptAlone'
    BY <1>1, <2>1 DEF ServerInv, BookedClaimed, KeptAlone
  <2>5. RunningUnbooked'
    BY <1>1, <2>1 DEF ServerInv, RunningUnbooked, Live
  <2> QED BY <1>2, <2>3, <2>4, <2>5 DEF ServerInv
<1> QED BY <1>3, <1>4, <1>5, <1>6, <1>7, <1>8 DEF Serves

-----------------------------------------------------------------------------
(* The part of the invariant that is about one try.                        *)

LEMMA RetryKeptByPages ==
    ASSUME Constants, Types, RetryInv, KeepsServer, KeyMoves, QuoteMoves, ShownMoves
    PROVE  RetryInv'
<1>1. UNCHANGED <<waiting, posts, claims, booked>> /\ Kept' = Kept /\ Kept \subseteq booked /\ try \in Nat
  BY DEF KeepsServer, serverVars, Types, Tries, Kept, Forgotten
<1>2. OneKeyPerTry' /\ RefusedAlone' /\ SameBody'
  BY <1>1 DEF RetryInv, OneKeyPerTry, RefusedAlone, SameBody, Hopeful
<1>3. (try' = try \/ try' = try + 1) /\ TriesPassed'
  <2>1. /\ try' = try \/ try' = try + 1
        /\ \A p \in Slots : posts[p] # None => posts[p].try \in Nat
        /\ \A b \in booked : b.try \in Nat
    BY DEF KeyMoves, Types, Posts, Bookings, Tries
  <2> QED BY <1>1, <2>1 DEF RetryInv, TriesPassed
<1>4. HeldKey'
  <2>1. CASE try' = try /\ key' = key /\ (altered => altered')
    BY <1>1, <2>1 DEF RetryInv, HeldKey, Hopeful
  <2>2. CASE altered'
    BY <2>2 DEF HeldKey
  <2>3. CASE try' = try + 1
    <3>1. (\A p \in Slots : posts[p] # None => posts[p].try # try') /\ (\A b \in booked : b.try # try')
      <4>1. /\ \A p \in Slots : posts[p] # None => posts[p].try \in Nat
            /\ \A b \in booked : b.try \in Nat
        BY DEF Types, Posts, Bookings, Tries
      <4> QED BY <1>1, <2>3, <4>1 DEF RetryInv, TriesPassed
    <3> QED BY <1>1, <3>1 DEF HeldKey, Hopeful
  <2> QED BY <2>1, <2>2, <2>3 DEF KeyMoves
<1>5. KeyNeedsQuote'
  BY DEF QuoteMoves, KeyNeedsQuote
<1>6. WaitedKey' /\ ConfirmedApart'
  BY <1>1 DEF KeyMoves, RetryInv, WaitedKey, ConfirmedApart
<1>7. HeldBody'
  <2> SUFFICES ASSUME ~altered', step' = 1, key' # None
               PROVE  /\ claims'[key'] # None => claims'[key'].body = Shown'
                      /\ \A p \in Slots : posts'[p] # None /\ posts'[p].at = "sent" /\ posts'[p].key = key'
                                            => posts'[p].body = Shown'
    BY DEF HeldBody
  <2>1. ~altered /\ step = 1 /\ key' = key /\ key # None /\ Shown' = Shown
    BY DEF ShownMoves
  <2> QED BY <1>1, <2>1 DEF RetryInv, HeldBody
<1> QED BY <1>2, <1>3, <1>4, <1>5, <1>6, <1>7 DEF RetryInv

LEMMA RetryKeptBySending ==
    ASSUME Constants, Types, ServerInv, RetryInv, NEW p \in Slots, Pressed(p)
    PROVE  RetryInv'
<1>1. /\ posts[p] = None /\ waiting = None /\ waiting' = p /\ key' \in Keys /\ key' # None
      /\ \A q \in Slots : q # p => posts'[q] = posts[q]
      /\ posts'[p] # None /\ posts'[p].key = key' /\ posts'[p].at = "sent" /\ posts'[p].try = try
      /\ UNCHANGED <<form, door, step, quote, chosen, claims, booked, try>> /\ Kept' = Kept
  BY DEF Pressed, Sends, formVars, quoteVars, Constants, Kept, Forgotten
<1>2. TriesPassed'
  BY <1>1 DEF Types, Tries, RetryInv, TriesPassed
<1>3. WaitedKey' /\ RefusedAlone'
  BY <1>1 DEF WaitedKey, RefusedAlone
<1>4. \A q \in Slots : Hopeful(q)' /\ q # p => Hopeful(q) /\ posts'[q] = posts[q]
  BY <1>1 DEF Hopeful
<1>5. \A q \in Slots : q # p /\ posts'[q] # None => posts'[q] = posts[q] /\ posts[q].at # "sent"
  BY <1>1 DEF ServerInv, OthersLive, Live, Constants
<1>6. CASE quote # None /\ step = 1 /\ ~altered /\ altered' = altered /\ Sends(p, Shown, TRUE)
  <2>1. /\ posts'[p].plain = TRUE /\ posts'[p].body = Shown
        /\ IF key # None THEN key' = key ELSE key' \in FreshKeys
    BY <1>6 DEF Sends
  <2>2. /\ \A q \in Slots : Hopeful(q) /\ posts[q].try = try => key # None /\ posts[q].key = key'
        /\ \A b \in Kept : b.plain /\ b.try = try => key # None /\ b.key = key'
    <3>1. /\ \A q \in Slots : Hopeful(q) /\ posts[q].try = try => key = posts[q].key
          /\ \A b \in Kept : b.plain /\ b.try = try => key = b.key
      BY <1>6 DEF RetryInv, HeldKey
    <3>2. /\ \A q \in Slots : Hopeful(q) => posts[q].key # None
          /\ \A b \in Kept : b.key # None
      BY DEF Types, Posts, Bookings, Hopeful, Constants, Kept
    <3> QED BY <2>1, <3>1, <3>2
  <2>3. OneKeyPerTry'
    <3>1. \A q \in Slots : Hopeful(q)' /\ q # p /\ posts'[q].try = try => posts'[q].key = key'
      BY <1>4, <2>2
    <3>2. \A q, r \in Slots : Hopeful(q)' /\ Hopeful(r)' /\ posts'[q].try = posts'[r].try
            => posts'[q].key = posts'[r].key
      BY <1>1, <1>4, <3>1 DEF RetryInv, OneKeyPerTry
    <3>3. \A q \in Slots : \A b \in Kept : Hopeful(q)' /\ b.plain /\ b.try = posts'[q].try
            => b.key = posts'[q].key
      BY <1>1, <1>4, <2>2 DEF RetryInv, OneKeyPerTry
    <3> QED BY <1>1, <3>2, <3>3 DEF RetryInv, OneKeyPerTry
  <2>4. HeldKey'
    BY <1>1, <1>4, <2>2 DEF HeldKey
  <2>5. KeyNeedsQuote' /\ ConfirmedApart'
    BY <1>1, <1>6, <2>1 DEF KeyNeedsQuote, ConfirmedApart
  <2>6. claims[key'] # None => key = key' /\ claims[key'].body = Shown
    <3>1. key' \in FreshKeys => claims[key'] = None
      BY DEF FreshKeys
    <3> QED BY <1>6, <2>1, <3>1 DEF RetryInv, HeldBody
  <2>7. Shown' = Shown
    BY <1>1 DEF Shown
  <2>8. HeldBody'
    BY <1>1, <1>5, <2>1, <2>6, <2>7 DEF HeldBody
  <2>9. SameBody'
    BY <1>1, <1>5, <2>1, <2>6 DEF SameBody
  <2> QED BY <1>2, <1>3, <2>3, <2>4, <2>5, <2>8, <2>9 DEF RetryInv
<1>7. CASE altered' /\ Sends(p, posts'[p].body, FALSE)
  <2>1. ~posts'[p].plain
    BY <1>7 DEF Sends
  <2>2. \A q \in Slots : Hopeful(q)' => Hopeful(q) /\ posts'[q] = posts[q]
    BY <1>4, <2>1 DEF Hopeful
  <2>3. OneKeyPerTry'
    BY <1>1, <2>2 DEF RetryInv, OneKeyPerTry
  <2>4. HeldKey' /\ KeyNeedsQuote' /\ ConfirmedApart' /\ HeldBody'
    BY <1>7 DEF HeldKey, KeyNeedsQuote, ConfirmedApart, HeldBody
  <2>5. SameBody'
    BY <1>5, <2>1 DEF SameBody
  <2> QED BY <1>2, <1>3, <2>3, <2>4, <2>5 DEF RetryInv
<1> QED BY <1>6, <1>7 DEF Pressed

LEMMA RetryKeptBySettling ==
    ASSUME Constants, Types, Waited, ServerInv, RetryInv, Settles
    PROVE  RetryInv'
<1>1. /\ waiting \in Slots /\ waiting' = None /\ \A q \in Slots : q # waiting => posts'[q] = posts[q]
      /\ posts'[waiting] = None \/ (posts' = posts /\ posts[waiting].at \in {"running", "committed"})
      /\ key' = IF posts[waiting].at \in {"refused", "changed"} THEN None ELSE key
      /\ UNCHANGED <<form, door, step, quote, chosen, claims, booked, try, altered>> /\ Kept' = Kept
      /\ posts[waiting].at \in {"refused", "changed"} => posts'[waiting] = None
  BY DEF Settles, Types, formVars, quoteVars, Kept, Forgotten
<1>2. \A q \in Slots : posts'[q] # None => posts'[q] = posts[q]
  BY <1>1
<1>3. OneKeyPerTry' /\ TriesPassed' /\ SameBody'
  BY <1>1, <1>2 DEF RetryInv, OneKeyPerTry, TriesPassed, SameBody, Hopeful
<1>4. KeyNeedsQuote' /\ WaitedKey' /\ ConfirmedApart' /\ RefusedAlone'
  BY <1>1 DEF RetryInv, KeyNeedsQuote, WaitedKey, ConfirmedApart, RefusedAlone
<1>5. HeldBody'
  <2>1. Shown' = Shown
    BY <1>1 DEF Shown
  <2> QED BY <1>1, <1>2, <2>1 DEF RetryInv, HeldBody
<1>6. HeldKey'
  <2>1. CASE key' = key
    BY <1>1, <1>2, <2>1 DEF RetryInv, HeldKey, Hopeful
  <2>2. CASE posts[waiting].at \in {"refused", "changed"} /\ ~altered
    <3> DEFINE k == posts[waiting].key
    <3>1. key = None \/ (key = k /\ posts[waiting].plain)
      BY <1>1, <2>2 DEF RetryInv, WaitedKey, ConfirmedApart, Constants
    <3>2. /\ \A q \in Slots : Hopeful(q) => posts[q].key # None /\ q # waiting
          /\ \A b \in Kept : b.key # None
      BY <2>2 DEF Types, Posts, Bookings, Hopeful, Constants, Kept
    <3>3. /\ \A q \in Slots : ~(Hopeful(q) /\ posts[q].try = try)
          /\ \A b \in Kept : ~(b.plain /\ b.try = try)
      <4>1. CASE key = None
        BY <2>2, <3>2, <4>1 DEF RetryInv, HeldKey
      <4>2. CASE key = k /\ posts[waiting].plain
        <5>1. /\ \A q \in Slots : q # waiting /\ posts[q] # None => posts[q].key # k
              /\ \A b \in Kept : b.key # k
          BY <1>1, <2>2, <4>2 DEF RetryInv, RefusedAlone, Constants
        <5> QED BY <2>2, <3>2, <4>2, <5>1 DEF RetryInv, HeldKey, Hopeful
      <4> QED BY <3>1, <4>1, <4>2
    <3> QED BY <1>1, <1>2, <3>3 DEF HeldKey, Hopeful
  <2>3. CASE altered
    BY <1>1, <2>3 DEF HeldKey
  <2> QED BY <1>1, <2>1, <2>2, <2>3
<1> QED BY <1>3, <1>4, <1>5, <1>6 DEF RetryInv

LEMMA RetryKeptByServing ==
    ASSUME Constants, Types, Waited, ServerInv, RetryInv, NEW p \in Slots, Serves(p)
    PROVE  RetryInv'
<1>1. /\ posts[p] # None /\ posts[p] \in Posts /\ posts[p].key \in Keys
      /\ UNCHANGED <<form, door, step, quote, chosen, waiting, key, try, altered>>
      /\ \A q \in Slots : q # p => posts'[q] = posts[q]
      /\ posts'[p] # None =>
           /\ posts'[p].key = posts[p].key /\ posts'[p].body = posts[p].body
           /\ posts'[p].try = posts[p].try /\ posts'[p].plain = posts[p].plain
      /\ claims \in [Keys -> Claims \cup {None}]
      /\ \A q \in Slots : posts[q] # None => posts[q].key \in Keys
      /\ \A b \in Kept : b.key \in Keys
  BY DEF Serves, Types, Posts, Bookings, Kept, formVars, quoteVars, sendVars, ghostVars
<1>2. posts[p].at \in {"sent", "running", "committed"}
  BY DEF Serves, Starts, Dismissed, Books, Released, Ends, Forgets
<1>3. posts'[p] # None => posts'[p].at # "sent"
  BY DEF Serves, Starts, Dismissed, Books, Released, Ends, Forgets, Answers
\* A booking is made of its request.
<1>4. \A b \in Kept' : b \in Kept \/
        (Books(p) /\ b.key = posts[p].key /\ b.try = posts[p].try /\ b.plain = posts[p].plain)
  BY KeptServed
<1>4a. \A b \in booked' : b \in booked \/ (Books(p) /\ b.try = posts[p].try)
  BY DEF Serves, Starts, Dismissed, Books, Released, Ends, Forgets
<1>5. \A q \in Slots : Hopeful(q)' => Hopeful(q) /\ posts'[q].key = posts[q].key /\ posts'[q].try = posts[q].try
  BY <1>1, <1>2 DEF Hopeful
<1>6. Hopeful(p) <=> posts[p].plain
  BY <1>1, <1>2 DEF Hopeful
<1>7. OneKeyPerTry'
  <2>1. \A q, r \in Slots : Hopeful(q)' /\ Hopeful(r)' /\ posts'[q].try = posts'[r].try => posts'[q].key = posts'[r].key
    BY <1>5 DEF RetryInv, OneKeyPerTry
  <2>2. \A q \in Slots : \A b \in Kept' : Hopeful(q)' /\ b.plain /\ b.try = posts'[q].try => b.key = posts'[q].key
    BY <1>4, <1>5, <1>6 DEF RetryInv, OneKeyPerTry
  <2>3. \A b, c \in Kept' : b.plain /\ c.plain /\ b.try = c.try => b.key = c.key
    <3> SUFFICES ASSUME NEW b \in Kept', NEW c \in Kept', b.plain, c.plain, b.try = c.try
                 PROVE  b.key = c.key
      OBVIOUS
    <3>1. CASE b \in Kept /\ c \in Kept
      BY <3>1 DEF RetryInv, OneKeyPerTry
    <3>2. CASE b \notin Kept /\ c \in Kept
      BY <1>4, <1>6, <3>2 DEF RetryInv, OneKeyPerTry
    <3>3. CASE b \in Kept /\ c \notin Kept
      BY <1>4, <1>6, <3>3 DEF RetryInv, OneKeyPerTry
    <3>4. CASE b \notin Kept /\ c \notin Kept
      BY <1>4, <3>4
    <3> QED BY <3>1, <3>2, <3>3, <3>4
  <2> QED BY <2>1, <2>2, <2>3 DEF OneKeyPerTry
<1>8. HeldKey'
  BY <1>1, <1>4, <1>5, <1>6 DEF RetryInv, HeldKey
<1>9. TriesPassed'
  BY <1>1, <1>4a DEF RetryInv, TriesPassed
<1>10. KeyNeedsQuote' /\ WaitedKey' /\ ConfirmedApart'
  <2>1. waiting # None => posts'[waiting].key = posts[waiting].key /\ posts'[waiting].plain = posts[waiting].plain
    <3>1. waiting = p => posts'[p] # None
      BY DEF Serves, Starts, Dismissed, Books, Released, Ends, Forgets, Answers
    <3> QED BY <1>1, <3>1 DEF Types
  <2> QED BY <1>1, <2>1 DEF RetryInv, KeyNeedsQuote, WaitedKey, ConfirmedApart
<1>11. \A k \in Keys : claims'[k] # None =>
         \/ claims[k] # None /\ claims'[k].body = claims[k].body
         \/ Starts(p) /\ k = posts[p].key /\ claims'[k].body = posts[p].body
  <2>1. CASE Starts(p)
    BY <1>1, <2>1 DEF Starts
  <2>2. CASE Dismissed(p) \/ Books(p)
    BY <2>2 DEF Dismissed, Books
  <2>3. CASE Released(p)
    BY <1>1, <2>3 DEF Released
  <2>4. CASE Ends(p)
    <3>1. claims[posts[p].key] # None /\ claims[posts[p].key] \in Claims
      BY <1>1, <2>4 DEF Ends, ServerInv, ClaimHeld, Live
    <3>2. CASE claims' = claims
      BY <3>2
    <3>3. CASE claims' = [claims EXCEPT ![posts[p].key].stored = TRUE]
      <4>1. claims'[posts[p].key] = [claims[posts[p].key] EXCEPT !.stored = TRUE]
            /\ \A k \in Keys : k # posts[p].key => claims'[k] = claims[k]
        BY <1>1, <3>3
      <4>2. claims'[posts[p].key].body = claims[posts[p].key].body
        BY <3>1, <4>1 DEF Claims
      <4> QED BY <3>1, <4>1, <4>2
    <3> QED BY <2>4, <3>2, <3>3 DEF Ends
  <2>5. CASE Forgets(p)
    BY <1>1, <2>5 DEF Forgets
  <2> QED BY <2>1, <2>2, <2>3, <2>4, <2>5 DEF Serves
<1>12. RefusedAlone'
  <2> SUFFICES ASSUME waiting # None, posts'[waiting].plain, posts'[waiting].at \in {"refused", "changed"}
               PROVE  /\ \A q \in Slots : q # waiting /\ posts'[q] # None => posts'[q].key # posts'[waiting].key
                      /\ \A b \in Kept' : b.key # posts'[waiting].key
    BY <1>1 DEF RefusedAlone
  <2>1. CASE p # waiting
    <3>1. posts'[waiting] = posts[waiting] /\ waiting \in Slots
      BY <1>1, <2>1 DEF Types
    <3>2. /\ \A q \in Slots : q # waiting /\ posts[q] # None => posts[q].key # posts[waiting].key
          /\ \A b \in Kept : b.key # posts[waiting].key
      BY <3>1 DEF RetryInv, RefusedAlone
    <3> QED BY <1>1, <1>4, <2>1, <3>1, <3>2
  <2>2. CASE p = waiting
    <3>1. posts'[p] # None
      BY <2>2 DEF Serves, Starts, Dismissed, Books, Released, Ends, Forgets, Answers
    <3>2. posts[p].plain /\ posts'[p].key = posts[p].key
      BY <1>1, <2>2, <3>1
    <3>3. Released(p)
      <4>1. ~Starts(p) /\ ~Books(p) /\ ~Ends(p) /\ ~Forgets(p)
        BY <2>2 DEF Starts, Books, Ends, Forgets, Answers
      <4>2. ~Dismissed(p)
        BY <1>1, <2>2, <3>2 DEF Dismissed, Answers, RetryInv, SameBody
      <4> QED BY <4>1, <4>2 DEF Serves
    <3>4. Live(p) /\ posts[p].at = "running" /\ Kept' \subseteq Kept
      <4>1. ~Books(p)
        BY <3>3 DEF Released, Books, Answers
      <4> QED BY <1>1, <1>4, <3>3, <4>1 DEF Released, Live
    <3>5. \A q \in Slots : q # p /\ posts[q] # None => posts[q].key # posts[p].key
      BY <2>2, <3>4 DEF ServerInv, OthersLive, OneAtWork
    <3>6. \A b \in Kept : b.key # posts[p].key
      BY <1>1, <3>4 DEF ServerInv, RunningUnbooked
    <3> QED BY <1>1, <2>2, <3>2, <3>4, <3>5, <3>6
  <2> QED BY <2>1, <2>2
<1>13. SameBody'
  <2> SUFFICES ASSUME NEW q \in Slots, posts'[q] # None, posts'[q].plain, posts'[q].at = "sent",
                      claims'[posts'[q].key] # None
               PROVE  claims'[posts'[q].key].body = posts'[q].body
    BY DEF SameBody
  <2>1. q # p /\ posts'[q] = posts[q]
    BY <1>1, <1>3
  <2>2. ~Starts(p)
    BY <1>1, <2>1 DEF ServerInv, OthersLive, Live, Starts
  <2>3. claims[posts[q].key] # None /\ claims'[posts[q].key].body = claims[posts[q].key].body
    BY <1>1, <1>11, <2>1, <2>2
  <2> QED BY <2>1, <2>3 DEF RetryInv, SameBody
<1>14. HeldBody'
  <2> SUFFICES ASSUME ~altered, step = 1, key # None
               PROVE  /\ claims'[key] # None => claims'[key].body = Shown
                      /\ \A q \in Slots : posts'[q] # None /\ posts'[q].at = "sent" /\ posts'[q].key = key
                                            => posts'[q].body = Shown
    BY <1>1 DEF HeldBody, Shown
  <2>1. /\ claims[key] # None => claims[key].body = Shown
        /\ \A q \in Slots : posts[q] # None /\ posts[q].at = "sent" /\ posts[q].key = key
                              => posts[q].body = Shown
    BY DEF RetryInv, HeldBody
  <2>2. key \in Keys
    BY DEF Types
  <2>3. claims'[key] # None => claims'[key].body = Shown
    BY <1>1, <1>11, <2>1, <2>2 DEF Starts
  <2> QED BY <1>1, <1>3, <2>1, <2>3
<1> QED BY <1>7, <1>8, <1>9, <1>10, <1>12, <1>13, <1>14 DEF RetryInv

-----------------------------------------------------------------------------
(* The theorems.                                                           *)

LEMMA RestKept ==
    ASSUME Constants, IInv, Next
    PROVE  WarmRecovered' /\ AgreedPrice'
<1> USE DEF pageVars
<1>1. UNCHANGED kind /\ UNCHANGED opening /\ (recovered => recovered')
  <2>1. CASE AddressesLoaded
    BY <2>1 DEF AddressesLoaded
  <2>2. CASE UNCHANGED pageVars
    BY <2>2
  <2>3. AddressesLoaded \/ UNCHANGED pageVars
    BY DEF Next, Valuation, CompareRates, ChangeDoor, Back, Book, ConfirmPriceChange, CancelPriceChange,
         Answered, NoAnswer, Settled, PriceMoves, Edit, SelectOption, QuoteFailed, QuoteAnswered,
         Claim, Work, Store, StoreFailed, Crash
  <2> QED BY <2>1, <2>2, <2>3
<1>2. WarmRecovered'
  BY <1>1 DEF IInv, WarmRecovered
<1>3. \A b \in booked' : b \in booked \/ b.paid = b.agreed
  <2>1. CASE \E p \in Slots : Work(p)
    BY <2>1 DEF Work, Accepted
  <2>2. CASE ~(\E p \in Slots : Work(p))
    BY <2>2 DEF Next, AddressesLoaded, Valuation, CompareRates, ChangeDoor, Back, Book, ConfirmPriceChange,
         CancelPriceChange, Answered, NoAnswer, PriceMoves, Edit, SelectOption, QuoteFailed, QuoteAnswered,
         Claim, Store, StoreFailed, Crash, serverVars
  <2> QED BY <2>1, <2>2
<1>4. AgreedPrice'
  BY <1>3 DEF IInv, AgreedPrice
<1> QED BY <1>2, <1>4

LEMMA Inductive == IInv /\ [Next]_vars => IInv'
<1> SUFFICES ASSUME IInv, [Next]_vars PROVE IInv'
  OBVIOUS
<1>0. Constants /\ Constants'
  BY DEF IInv, Constants, Tries, Keys, Posts, Claims, Asks, Quotes, Bodies, Totals, Stages, Options
<1>1. Types /\ Waited /\ Offered /\ ServerInv /\ RetryInv /\ BookedDraftGone /\ WarmRecovered /\ AgreedPrice
  BY DEF IInv
<1>2. CASE UNCHANGED vars
  <2> USE DEF vars, pageVars, formVars, quoteVars, sendVars, serverVars, ghostVars
  <2>1. Types' /\ Waited' /\ Offered' /\ BookedDraftGone' /\ WarmRecovered' /\ AgreedPrice'
    BY <1>0, <1>1, <1>2 DEF Types, Waited, Offered, BookedDraftGone, WarmRecovered, AgreedPrice
  <2>2. ServerInv'
    BY <1>0, <1>1, <1>2, ServerKeptByPages
  <2>3. KeepsServer /\ KeyMoves /\ QuoteMoves /\ ShownMoves
    BY <1>0, <1>1, <1>2 DEF KeepsServer, KeyMoves, QuoteMoves, ShownMoves, Shown, RetryInv, KeyNeedsQuote
  <2>4. RetryInv'
    BY <1>0, <1>1, <2>3, RetryKeptByPages
  <2> QED BY <1>0, <2>1, <2>2, <2>4 DEF IInv
<1>3. CASE Page
  <2>1. PageMoves
    BY <1>0, <1>1, <1>3, PageMoving DEF RetryInv
  <2>2. UNCHANGED <<waiting, posts, claims, booked, forgotten>>
    BY <2>1 DEF PageMoves, KeepsServer, serverVars
  <2>3. ServerInv' /\ RetryInv'
    BY <1>0, <1>1, <2>1, <2>2, ServerKeptByPages, RetryKeptByPages DEF PageMoves
  <2>4. Waited' /\ Offered'
    BY <1>0, <1>1, <2>2 DEF Waited, Offered
  <2>5. WarmRecovered' /\ AgreedPrice'
    BY <1>0, <1>3, RestKept DEF Page, Next
  <2> QED BY <1>0, <2>1, <2>3, <2>4, <2>5 DEF IInv, PageMoves
<1>4. CASE PriceMoves
  <2> USE DEF pageVars, formVars, quoteVars, sendVars, serverVars, ghostVars
  <2>1. base' \in 1..MaxPrice
    BY <1>0, <1>1, <1>4 DEF PriceMoves, Types, Constants
  <2>2. Types' /\ Waited' /\ Offered' /\ BookedDraftGone' /\ WarmRecovered' /\ AgreedPrice'
    BY <1>0, <1>1, <1>4, <2>1 DEF PriceMoves, Types, Waited, Offered, BookedDraftGone, WarmRecovered, AgreedPrice
  <2>3. ServerInv'
    BY <1>0, <1>1, <1>4, ServerKeptByPages DEF PriceMoves
  <2>4. RetryInv'
    BY <1>0, <1>1, <1>4 DEF PriceMoves, RetryInv, OneKeyPerTry, HeldKey, TriesPassed, KeyNeedsQuote, WaitedKey,
         ConfirmedApart, RefusedAlone, SameBody, HeldBody, Hopeful, Shown, Kept, Forgotten
  <2> QED BY <1>0, <2>2, <2>3, <2>4 DEF IInv
<1>5. CASE Book \/ ConfirmPriceChange
  <2>1. (\E p \in Slots : Pressed(p)) /\ Types' /\ Waited' /\ Offered' /\ BookedDraftGone'
    BY <1>0, <1>1, <1>5, SendMoving
  <2>2. ServerInv' /\ RetryInv'
    BY <1>0, <1>1, <2>1, ServerKeptBySending, RetryKeptBySending
  <2>3. WarmRecovered' /\ AgreedPrice'
    BY <1>0, <1>5, RestKept DEF Next
  <2> QED BY <1>0, <2>1, <2>2, <2>3 DEF IInv
<1>6. CASE Answered \/ NoAnswer
  <2>1. Settles /\ Types' /\ Waited' /\ Offered' /\ BookedDraftGone'
    BY <1>0, <1>1, <1>6, SettleMoving
  <2>2. ServerInv' /\ RetryInv'
    BY <1>0, <1>1, <2>1, ServerKeptBySettling, RetryKeptBySettling
  <2>3. WarmRecovered' /\ AgreedPrice'
    BY <1>0, <1>6, RestKept DEF Next
  <2> QED BY <1>0, <2>1, <2>2, <2>3 DEF IInv
<1>7. CASE \E p \in Slots : Claim(p) \/ Work(p) \/ Store(p) \/ StoreFailed(p) \/ Crash(p)
  <2>1. PICK p \in Slots : Claim(p) \/ Work(p) \/ Store(p) \/ StoreFailed(p) \/ Crash(p)
    BY <1>7
  <2>2. Serves(p) /\ Offered'
    BY <1>0, <1>1, <2>1, ServerMoving
  <2>3. Types' /\ Waited' /\ BookedDraftGone'
    BY <1>0, <1>1, <2>2, ServesTyped
  <2>4. ServerInv' /\ RetryInv'
    BY <1>0, <1>1, <2>2, ServerKeptByServing, RetryKeptByServing
  <2>5. WarmRecovered' /\ AgreedPrice'
    BY <1>0, <1>7, RestKept DEF Next
  <2> QED BY <1>0, <2>2, <2>3, <2>4, <2>5 DEF IInv
<1>8. Page \/ PriceMoves \/ Book \/ ConfirmPriceChange \/ Answered \/ NoAnswer
      \/ (\E p \in Slots : Claim(p) \/ Work(p) \/ Store(p) \/ StoreFailed(p) \/ Crash(p)) \/ UNCHANGED vars
  BY DEF Next, Page
<1> QED BY <1>2, <1>3, <1>4, <1>5, <1>6, <1>7, <1>8

\* The types, in particular that a price sent, booked and paid is one the server can compute.
THEOREM TypeCorrect == Constants /\ Spec => []TypeOK
<1>1. IInv => TypeOK
  BY DEF IInv, Types, Waited, TypeOK, Quotes
<1> QED BY <1>1, Initially, Inductive, PTL DEF Spec

\* One booking in the user's mind is one shipment: however requests with one key overlap, time out and
\* are repeated, and wherever the server stops, one shipment at most is booked under a key whose
\* claim was not released after it had booked (idempotency.py, lines 215-221); pressing Book again books no second one unless a changed price, a late hand-off
\* or an older quote came between (use-quote-booking.ts, mayHaveCommitted); and a booked order
\* leaves no draft.
THEOREM BooksOnce == Constants /\ Spec => []OncePerIntent
<1>1. IInv => OncePerIntent
  <2> SUFFICES ASSUME IInv PROVE OncePerIntent
    OBVIOUS
  <2>1. OneBookingPerKey
    BY DEF IInv, ServerInv, KeptAlone, Kept, Forgotten, OneBookingPerKey
  <2>2. RetryBooksOnce
    BY DEF IInv, ServerInv, RetryInv, OneKeyPerTry, KeptAlone, Kept, RetryBooksOnce
  <2> QED BY <2>1, <2>2 DEF IInv, OncePerIntent
<1> QED BY <1>1, Initially, Inductive, PTL DEF Spec

\* Nobody pays another price than the one on the card or in the dialog.
THEOREM PaysAsShown == Constants /\ Spec => []ActedAsShown
<1>1. IInv => ActedAsShown
  BY DEF IInv, ActedAsShown
<1> QED BY <1>1, Initially, Inductive, PTL DEF Spec

\* The refresh of an address book that was warm leaves what the user typed over the hand-off.
THEOREM TypingKept == Constants /\ Spec => [][KeepsTyping]_vars
<1>1. IInv /\ [Next]_vars => [KeepsTyping]_vars
  <2> SUFFICES ASSUME IInv, Next, kind # "reverse", opening = "warm", form # "handed"
               PROVE  form' # "handed"
    BY DEF KeepsTyping
  <2>1. form' = form \/ form' # "handed"
    <3>1. CASE AddressesLoaded
      BY <3>1 DEF IInv, WarmRecovered, AddressesLoaded, Prefill
    <3>2. CASE \E f \in Forms : Edit(f)
      BY <3>2 DEF Edit
    <3>3. CASE UNCHANGED form
      BY <3>3 DEF IInv, WarmRecovered
    <3>4. AddressesLoaded \/ (\E f \in Forms : Edit(f)) \/ UNCHANGED form
      BY DEF Next, Valuation, CompareRates, ChangeDoor, Back, Book, ConfirmPriceChange, CancelPriceChange,
           Answered, NoAnswer, Settled, PriceMoves, SelectOption, QuoteFailed, QuoteAnswered,
           Claim, Work, Store, StoreFailed, Crash, formVars
    <3> QED BY <3>1, <3>2, <3>3, <3>4
  <2> QED BY <2>1
<1> QED BY <1>1, Initially, Inductive, PTL DEF Spec

-----------------------------------------------------------------------------
(* Prime lanes: one lane of a route is active at most, whoever edits, switches  *)
(* or imports; an edit sends what was typed over the row that was shown; and a  *)
(* file is imported only as it was checked.                                    *)

CONSTANTS Lanes, Seed, Values, Files, CanEdit, MaxEdits, MaxOthers
VARIABLES lanes, others, activeOnly, lanesShown, load, edits, row, open, file, report, busy, told
PL == INSTANCE PrimeLanes

PlFields == {"rate", "docket"}
PlRows == [rate : Values, docket : Values, active : BOOLEAN]
PlDrafts == [values : [PlFields -> Values], typed : SUBSET PlFields, refreshed : BOOLEAN]
PlPatches ==
    [at : {"idle", "going", "answered", "failed"}, fields : SUBSET (PlFields \cup {"active"}),
     values : [PlFields -> Values] \cup [active : BOOLEAN] \cup {None}, typed : SUBSET (PlFields \cup {"active"}),
     refreshed : BOOLEAN, row : PlRows \cup {None}]
PlFile(f) == DOMAIN f \subseteq Lanes /\ \A l \in DOMAIN f : f[l] \in PlRows
PlConstants ==
    /\ IsFiniteSet(Lanes) /\ 1 \in Values /\ \A f \in Files : PlFile(f)
    /\ None \notin PlRows /\ None \notin PlDrafts /\ None \notin Files

PlOne(ls) == \A l, m \in PL!ActiveIn(ls) : l = m
\* Rows of a table: of lanes there are.
PlListed(t) == DOMAIN t \subseteq PL!Existing(lanes) /\ \A l \in DOMAIN t : t[l] \in PlRows
PlServer == lanes \in [Lanes -> PlRows \cup {None}] /\ PlOne(lanes)
PlTable == PlListed(lanesShown) /\ (load.at = "read" => PlListed(load.rows)) /\ activeOnly \in BOOLEAN
\* What is typed differs from the row shown in what was typed only, unless that row was read again.
PlTypedOver(d, shown) == d.refreshed \/ \A f \in PlFields : d.values[f] # shown[f] => f \in d.typed
PlDraft ==
    /\ draft \in [Lanes -> PlDrafts \cup {None}]
    /\ \A l \in Lanes : draft[l] # None => l \in DOMAIN lanesShown /\ PlTypedOver(draft[l], lanesShown[l])
\* A request on its way changes a row there is, either its fields or whether it is active.
PlSent(p) ==
    /\ "active" \notin p.fields => p.values \in [PlFields -> Values]
    /\ "active" \in p.fields => p.values \in [active : BOOLEAN]
PlPatch ==
    /\ row \in [Lanes -> PlPatches]
    /\ \A l \in Lanes :
        /\ row[l].fields \subseteq row[l].typed \/ row[l].refreshed
        /\ row[l].at # "idle" => l \in PL!Existing(lanes) /\ PlSent(row[l])
        /\ row[l].at = "answered" => row[l].row \in PlRows
PlImport ==
    /\ open \in BOOLEAN /\ file \in Files \cup {None} /\ (report # None => report.of = file)
    /\ busy = [at |-> busy.at, dry |-> busy.dry, report |-> busy.report]
    /\ busy.at # "idle" => file # None
    /\ busy.at = "answered" => busy.report.of = file
    /\ busy.at # "idle" /\ ~busy.dry => report # None /\ ~report.plan.blocked
PlInv == PlServer /\ PlTable /\ PlDraft /\ PlPatch /\ PlImport

-----------------------------------------------------------------------------
(* Sets with one member at most.                                                *)

LEMMA PlFew ==
    ASSUME NEW S, IsFiniteSet(S)
    PROVE  PL!Cardinality(S) <= 1 <=> \A l, m \in S : l = m
<1>1. \A T : PL!Cardinality(T) = Cardinality(T)
  BY DEF PL!Cardinality, Cardinality
<1>2. ASSUME \A l, m \in S : l = m PROVE Cardinality(S) <= 1
  <2>1. CASE S = {}
    BY <2>1, FS_EmptySet
  <2>2. CASE S # {}
    <3>1. PICK l : l \in S
      BY <2>2
    <3>2. S = {l}
      BY <1>2, <3>1
    <3>3. Cardinality({l}) = 1
      BY FS_Singleton
    <3> QED BY <3>2, <3>3
  <2> QED BY <2>1, <2>2
<1>3. ASSUME Cardinality(S) <= 1, NEW l \in S, NEW m \in S PROVE l = m
  <2> SUFFICES ASSUME l # m PROVE FALSE
    OBVIOUS
  <2>1. IsFiniteSet({l}) /\ Cardinality({l}) = 1
    BY FS_Singleton
  <2>2. Cardinality({l} \cup {m}) = 2
    BY <2>1, FS_AddElement
  <2>3. {l} \cup {m} \in SUBSET S
    OBVIOUS
  <2>4. Cardinality({l} \cup {m}) <= Cardinality(S) /\ Cardinality(S) \in Nat
    BY <2>3, FS_Subset, FS_CardinalityType
  <2> QED BY <1>3, <2>2, <2>4
<1> QED BY <1>1, <1>2, <1>3

LEMMA PlFinite ==
    ASSUME PlConstants
    PROVE  (\A ls : IsFiniteSet(PL!ActiveIn(ls))) /\ \A f \in Files : IsFiniteSet(PL!ActiveOf(f))
<1>1. \A ls : PL!ActiveIn(ls) \in SUBSET Lanes
  BY DEF PL!ActiveIn, PL!Existing
<1>2. \A f \in Files : PL!ActiveOf(f) \in SUBSET Lanes
  BY DEF PlConstants, PlFile, PL!ActiveOf
<1> QED BY <1>1, <1>2, FS_Subset DEF PlConstants

-----------------------------------------------------------------------------
(* What the server does to the lanes.                                           *)

\* A request for a row leaves rows of their kind, one of them active at most, and takes none away.
LEMMA PlPatched ==
    ASSUME PlConstants, PlServer, NEW l \in PL!Existing(lanes), NEW p, p.fields \subseteq PlFields \cup {"active"}, PlSent(p)
    PROVE  PL!Patched(l, p) \in [Lanes -> PlRows \cup {None}] /\ PlOne(PL!Patched(l, p))
           /\ PL!Existing(PL!Patched(l, p)) = PL!Existing(lanes)
<1> DEFINE after == PL!Patched(l, p)
<1>0. l \in Lanes /\ lanes[l] \in PlRows
  BY DEF PlServer, PL!Existing
<1>1. CASE "active" \notin p.fields
  <2>1. p.values \in [PlFields -> Values] /\ p.fields \subseteq PlFields
    BY <1>1 DEF PlSent
  <2>2. DOMAIN lanes[l] = {"rate", "docket", "active"} /\ lanes[l].rate \in Values /\ lanes[l].docket \in Values /\ lanes[l].active \in BOOLEAN
    BY <1>0 DEF PlRows
  <2> DEFINE new == [f \in DOMAIN lanes[l] |-> IF f \in p.fields THEN p.values[f] ELSE lanes[l][f]]
  <2>3. new \in PlRows /\ new.active = lanes[l].active
    BY <1>1, <2>1, <2>2 DEF PlRows, PlFields
  <2>4. after = [lanes EXCEPT ![l] = new]
    BY <1>1 DEF PL!Patched
  <2> HIDE DEF new, after
  <2>5. after \in [Lanes -> PlRows \cup {None}] /\ \A m \in Lanes : after[m] = IF m = l THEN new ELSE lanes[m]
    BY <1>0, <2>3, <2>4 DEF PlServer
  <2>6. PL!Existing(after) = PL!Existing(lanes)
    BY <1>0, <2>3, <2>5 DEF PL!Existing, PlConstants
  <2>7. PL!ActiveIn(after) = PL!ActiveIn(lanes)
    BY <2>3, <2>5, <2>6 DEF PL!ActiveIn, PL!Existing
  <2> QED BY <2>5, <2>6, <2>7 DEF PlOne, PlServer, after
<1>2. CASE "active" \in p.fields
  <2>1. p.values.active \in BOOLEAN
    BY <1>2 DEF PlSent
  <2> DEFINE b == p.values.active
  <2>2. after = [m \in Lanes |-> IF m = l THEN [lanes[l] EXCEPT !.active = b]
                                 ELSE IF m \in PL!Existing(lanes) /\ b /\ ~lanes[l].active
                                      THEN [lanes[m] EXCEPT !.active = FALSE] ELSE lanes[m]]
    BY <1>2 DEF PL!Patched
  <2>3. b \in BOOLEAN
    BY <2>1
  <2>4. \A m \in PL!Existing(lanes), c \in BOOLEAN :
            [lanes[m] EXCEPT !.active = c] \in PlRows /\ [lanes[m] EXCEPT !.active = c].active = c
    BY DEF PL!Existing, PlServer, PlRows
  <2> HIDE DEF b, after
  <2>5. after \in [Lanes -> PlRows \cup {None}]
    BY <2>2, <2>3, <2>4 DEF PlServer
  <2>6. PL!Existing(after) = PL!Existing(lanes)
    BY <2>2, <2>3, <2>4 DEF PL!Existing, PlConstants
  <2>7. ASSUME NEW m \in PL!ActiveIn(after) PROVE (m = l /\ b) \/ (m # l /\ m \in PL!ActiveIn(lanes) /\ (b => lanes[l].active))
    BY <2>2, <2>3, <2>4, <2>6, <2>7 DEF PL!ActiveIn, PL!Existing
  <2>8. lanes[l].active => l \in PL!ActiveIn(lanes)
    BY DEF PL!ActiveIn
  <2>9. PlOne(after)
    BY <2>7, <2>8 DEF PlOne, PlServer
  <2> QED BY <2>5, <2>6, <2>9 DEF after
<1> QED BY <1>1, <1>2

\* A clean file does too, and importing it again changes nothing.
LEMMA PlApplied ==
    ASSUME PlConstants, PlServer, NEW f \in Files, ~PL!Errors(f)
    PROVE  LET after == PL!AppliedPlan(lanes, f)
           IN  /\ after \in [Lanes -> PlRows \cup {None}] /\ PlOne(after) /\ PL!Existing(lanes) \subseteq PL!Existing(after)
               /\ PL!NoChanges(PL!PlanOf(after, f))
<1> DEFINE after == PL!AppliedPlan(lanes, f)
           gone == PL!Displaced(lanes, f)
<1>1. PlFile(f)
  BY DEF PlConstants
<1>2. \A l, m \in PL!ActiveOf(f) : l = m
  <2>1. IsFiniteSet(PL!ActiveOf(f))
    BY PlFinite
  <2>2. PL!Cardinality(PL!ActiveOf(f)) = Cardinality(PL!ActiveOf(f))
    BY DEF PL!Cardinality, Cardinality
  <2>3. PL!Cardinality(PL!ActiveOf(f)) \in Nat
    BY <2>1, <2>2, FS_CardinalityType
  <2>4. ~(PL!Cardinality(PL!ActiveOf(f)) > 1)
    BY DEF PL!Errors
  <2>5. PL!Cardinality(PL!ActiveOf(f)) <= 1
    BY <2>3, <2>4
  <2> QED BY <2>1, <2>5, PlFew
<1>3. gone = (IF PL!ActiveOf(f) = {} THEN {} ELSE PL!ActiveIn(lanes) \ DOMAIN f)
  BY DEF PL!Displaced, PL!Displaces
<1>4. after = [l \in Lanes |-> IF l \in DOMAIN f THEN f[l] ELSE IF l \in gone THEN [lanes[l] EXCEPT !.active = FALSE] ELSE lanes[l]]
  BY DEF PL!AppliedPlan
<1>5. \A l \in gone : lanes[l] \in PlRows /\ [lanes[l] EXCEPT !.active = FALSE] \in PlRows /\ ~[lanes[l] EXCEPT !.active = FALSE].active
  <2>1. \A l \in gone : lanes[l] \in PlRows
    BY <1>3 DEF PL!ActiveIn, PL!Existing, PlServer
  <2> QED BY <2>1 DEF PlRows
<1> HIDE DEF gone, after
<1>6. after \in [Lanes -> PlRows \cup {None}]
  BY <1>1, <1>4, <1>5 DEF PlServer, PlFile
<1>7. PL!Existing(lanes) \subseteq PL!Existing(after) /\ DOMAIN f \subseteq PL!Existing(after)
  BY <1>1, <1>4, <1>5 DEF PL!Existing, PlFile, PlConstants
<1>8. ASSUME NEW l \in PL!ActiveIn(after)
      PROVE  l \in PL!ActiveOf(f) \/ (l \notin DOMAIN f /\ PL!ActiveOf(f) = {} /\ l \in PL!ActiveIn(lanes))
  <2>1. l \in Lanes /\ after[l] # None /\ after[l].active
    BY <1>8 DEF PL!ActiveIn, PL!Existing
  <2>2. CASE l \in DOMAIN f
    BY <1>4, <2>1, <2>2 DEF PL!ActiveOf
  <2>3. CASE l \in gone /\ l \notin DOMAIN f
    BY <1>4, <1>5, <2>1, <2>3
  <2>4. CASE l \notin gone /\ l \notin DOMAIN f
    <3>1. l \in PL!ActiveIn(lanes)
      BY <1>4, <2>1, <2>4 DEF PL!ActiveIn, PL!Existing
    <3> QED BY <1>3, <2>4, <3>1
  <2> QED BY <2>2, <2>3, <2>4
<1>9. PlOne(after)
  BY <1>2, <1>8 DEF PlOne, PlServer
<1>10. PL!NoChanges(PL!PlanOf(after, f))
  <2>1. DOMAIN f \ PL!Existing(after) = {}
    BY <1>7
  <2>2. \A l \in DOMAIN f : after[l] = f[l]
    BY <1>1, <1>4 DEF PlFile
  <2>3. {l \in DOMAIN f \cap PL!Existing(after) : f[l] # after[l] /\ f[l] # [after[l] EXCEPT !.active = FALSE]} = {}
    BY <2>2
  <2>4. PL!Displaced(after, f) = {}
    <3>1. PL!ActiveOf(f) # {} => PL!ActiveIn(after) \subseteq DOMAIN f
      BY <1>8 DEF PL!ActiveOf
    <3> QED BY <3>1 DEF PL!Displaced, PL!Displaces
  <2>5. {l \in DOMAIN f \cap PL!ActiveIn(after) : ~f[l].active} = {}
    BY <2>2 DEF PL!ActiveIn
  <2> QED BY <2>1, <2>3, <2>4, <2>5 DEF PL!NoChanges, PL!PlanOf
<1> QED BY <1>6, <1>7, <1>9, <1>10 DEF after

\* Rows that were listed stay rows of lanes there are.
LEMMA PlStays ==
    ASSUME PL!Existing(lanes) \subseteq PL!Existing(lanes')
    PROVE  \A t : PlListed(t) => PlListed(t)'
BY DEF PlListed

LEMMA PlInit == PlConstants /\ PL!Init => PlInv
<1> SUFFICES ASSUME PlConstants, PL!Init PROVE PlInv
  OBVIOUS
<1>1. PlServer
  <2>1. \A b \in BOOLEAN : PL!NewRow(b) \in PlRows /\ PL!NewRow(b).active = b
    BY DEF PlConstants, PL!NewRow, PlRows
  <2>2. lanes \in [Lanes -> PlRows \cup {None}]
    BY <2>1 DEF PL!Init
  <2>3. \A l \in PL!ActiveIn(lanes) : l = PL!First
    BY <2>1 DEF PL!Init, PL!ActiveIn, PL!Existing
  <2> QED BY <2>2, <2>3 DEF PlServer, PlOne
<1>2. PlTable
  BY DEF PL!Init, PL!NoRows, PL!Idle, PlTable, PlListed
<1>3. PlDraft
  BY DEF PL!Init, PlDraft
<1>4. PL!NoPatch \in PlPatches /\ PL!NoPatch.fields = {} /\ PL!NoPatch.at = "idle"
  BY DEF PL!NoPatch, PlPatches
<1>5. PlPatch
  BY <1>4 DEF PL!Init, PlPatch
<1>6. PlImport
  BY DEF PL!Init, PL!NotBusy, PlImport
<1> QED BY <1>1, <1>2, <1>3, <1>5, <1>6 DEF PlInv

\* The lanes change, and nothing of the page.
LEMMA PlServed ==
    ASSUME PlConstants, PlInv, lanes' \in [Lanes -> PlRows \cup {None}], PlOne(lanes'), PL!Existing(lanes) \subseteq PL!Existing(lanes')
    PROVE  /\ PlServer' /\ (UNCHANGED PL!tableVars => PlTable') /\ (UNCHANGED <<lanesShown, draft>> => PlDraft')
           /\ UNCHANGED row => PlPatch'
<1>1. PlServer'
  BY DEF PlServer, PlOne, PL!ActiveIn, PL!Existing
<1>2. UNCHANGED PL!tableVars => PlTable'
  BY DEF PlInv, PlTable, PlListed, PL!tableVars, PL!Existing
<1>3. UNCHANGED <<lanesShown, draft>> => PlDraft'
  BY DEF PlInv, PlDraft
<1>4. UNCHANGED row => PlPatch'
  BY DEF PlInv, PlPatch, PL!Existing
<1> QED BY <1>1, <1>2, <1>3, <1>4

LEMMA PlOthers ==
    ASSUME PlConstants, PlInv, PL!OthersAct
    PROVE  PlInv'
<1>1. PICK l \in PL!Existing(lanes) :
          \/ \E f \in PL!Fields, v \in Values : v # lanes[l][f] /\ lanes' = [lanes EXCEPT ![l][f] = v]
          \/ lanes' = PL!Patched(l, [fields |-> {"active"}, values |-> [active |-> TRUE]])
  BY DEF PL!OthersAct
<1>2. lanes' \in [Lanes -> PlRows \cup {None}] /\ PlOne(lanes') /\ PL!Existing(lanes) \subseteq PL!Existing(lanes')
  <2>1. CASE lanes' = PL!Patched(l, [fields |-> {"active"}, values |-> [active |-> TRUE]])
    <3> DEFINE p == [fields |-> {"active"}, values |-> [active |-> TRUE]]
    <3>1. p.fields \subseteq PlFields \cup {"active"} /\ PlSent(p)
      BY DEF PlSent
    <3> HIDE DEF p
    <3>2. lanes' = PL!Patched(l, p)
      BY <2>1 DEF p
    <3> QED BY <3>1, <3>2, PlPatched DEF PlInv
  <2>2. ASSUME NEW f \in PL!Fields, NEW v \in Values, lanes' = [lanes EXCEPT ![l][f] = v]
        PROVE  lanes' \in [Lanes -> PlRows \cup {None}] /\ PlOne(lanes') /\ PL!Existing(lanes) \subseteq PL!Existing(lanes')
    <3>1. l \in Lanes /\ lanes[l] \in PlRows
      BY DEF PL!Existing, PlInv, PlServer
    <3> DEFINE new == [lanes[l] EXCEPT ![f] = v]
    <3>2. new \in PlRows /\ new.active = lanes[l].active
      <4>1. CASE f = "rate"
        BY <3>1, <4>1 DEF PlRows
      <4>2. CASE f = "docket"
        BY <3>1, <4>2 DEF PlRows
      <4> QED BY <4>1, <4>2 DEF PL!Fields
    <3> HIDE DEF new
    <3>3. lanes' = [lanes EXCEPT ![l] = new]
      BY <2>2 DEF new
    <3>4. lanes' \in [Lanes -> PlRows \cup {None}] /\ \A m \in Lanes : lanes'[m] = IF m = l THEN new ELSE lanes[m]
      BY <3>1, <3>2, <3>3 DEF PlInv, PlServer
    <3>5. PL!Existing(lanes') = PL!Existing(lanes)
      BY <3>1, <3>2, <3>4 DEF PL!Existing, PlConstants
    <3>6. PL!ActiveIn(lanes') = PL!ActiveIn(lanes)
      BY <3>2, <3>4, <3>5 DEF PL!ActiveIn, PL!Existing
    <3> QED BY <3>4, <3>5, <3>6 DEF PlOne, PlInv, PlServer
  <2> QED BY <1>1, <2>1, <2>2
<1>3. UNCHANGED PL!tableVars /\ UNCHANGED PL!rowVars /\ UNCHANGED PL!importVars
  BY DEF PL!OthersAct
<1> QED BY <1>2, <1>3, PlServed DEF PlInv, PlImport, PL!tableVars, PL!rowVars, PL!importVars

-----------------------------------------------------------------------------
(* The table and its rows.                                                      *)

LEMMA PlLoads ==
    ASSUME PlConstants, PlInv,
           PL!SetActiveOnly \/ PL!LoadAnswered \/ \E a \in BOOLEAN : PL!ServeLoad(a)
    PROVE  PlInv'
<1> USE DEF PlInv
<1>1. CASE PL!SetActiveOnly
  BY <1>1 DEF PL!SetActiveOnly, PL!Load, PL!Idle, PlServer, PlTable, PlListed, PlDraft, PlPatch, PlImport, PL!serverVars, PL!rowVars, PL!importVars
<1>2. ASSUME NEW a \in BOOLEAN, PL!ServeLoad(a) PROVE PlInv'
  <2>1. \A b : PlListed(PL!ListLanes(b))
    BY DEF PlListed, PL!ListLanes, PL!ActiveIn, PL!Existing, PlServer
  <2>2. PL!Existing(lanes') = PL!Existing(lanes) /\ lanesShown' = lanesShown /\ activeOnly' = activeOnly
    BY <1>2 DEF PL!ServeLoad, PL!serverVars
  <2>3. load'.at = "read" => \E b : load'.rows = PL!ListLanes(b)
    <3>1. CASE a
      <4>1. load' = [load EXCEPT !.at = "read", !.rows = PL!ListLanes(load.of)]
        BY <1>2, <3>1 DEF PL!ServeLoad
      <4>2. load'.rows = PL!ListLanes(load.of) \/ load'.at # "read"
        BY <1>2, <4>1 DEF PL!ServeLoad
      <4> QED BY <4>2
    <3>2. CASE ~a
      <4>1. load' = [load EXCEPT !.at = "failed"] /\ load.at = "going"
        BY <1>2, <3>2 DEF PL!ServeLoad
      <4>2. load'.at # "read"
        BY <4>1
      <4> QED BY <4>2
    <3> QED BY <3>1, <3>2
  <2>4. PlTable'
    BY <2>1, <2>2, <2>3 DEF PlTable, PlListed
  <2> QED BY <1>2, <2>4 DEF PL!ServeLoad, PlServer, PlDraft, PlPatch, PlImport, PL!serverVars, PL!rowVars, PL!importVars
<1>3. CASE PL!LoadAnswered
  <2>1. CASE load.at = "read"
    <3>1. lanesShown' = load.rows /\ draft' = PL!DraftsOver(load.rows) /\ PlListed(load.rows) /\ load' = PL!Idle
      BY <1>3, <2>1 DEF PL!LoadAnswered, PlTable
    <3>2. PlTable'
      BY <1>3, <3>1 DEF PL!LoadAnswered, PL!Idle, PlTable, PlListed, PL!serverVars
    <3>3. draft' = [l \in Lanes |-> IF draft[l] = None \/ l \notin DOMAIN load.rows THEN None
                                     ELSE IF load.rows[l] # lanesShown[l] THEN [draft[l] EXCEPT !.refreshed = TRUE] ELSE draft[l]]
      BY <3>1 DEF PL!DraftsOver
    <3>4. ASSUME NEW d \in PlDrafts PROVE [d EXCEPT !.refreshed = TRUE] \in PlDrafts /\ [d EXCEPT !.refreshed = TRUE].refreshed
      BY DEF PlDrafts
    <3>5. PlDraft'
      <4> SUFFICES ASSUME NEW l \in Lanes
                   PROVE  /\ draft'[l] \in PlDrafts \cup {None}
                          /\ draft'[l] # None => l \in DOMAIN lanesShown' /\ PlTypedOver(draft'[l], lanesShown'[l])
        BY <3>3 DEF PlDraft
      <4>1. CASE draft[l] = None \/ l \notin DOMAIN load.rows
        BY <3>3, <4>1
      <4>2. CASE draft[l] # None /\ l \in DOMAIN load.rows /\ load.rows[l] # lanesShown[l]
        BY <3>1, <3>3, <3>4, <4>2 DEF PlDraft, PlTypedOver
      <4>3. CASE draft[l] # None /\ l \in DOMAIN load.rows /\ load.rows[l] = lanesShown[l]
        BY <3>1, <3>3, <4>3 DEF PlDraft
      <4> QED BY <4>1, <4>2, <4>3
    <3> QED BY <1>3, <3>2, <3>5 DEF PL!LoadAnswered, PlServer, PlPatch, PlImport, PL!serverVars, PL!importVars
  <2>2. CASE load.at # "read"
    BY <1>3, <2>2 DEF PL!LoadAnswered, PL!Idle, PlServer, PlTable, PlListed, PlDraft, PlPatch, PlImport, PL!serverVars, PL!importVars
  <2> QED BY <2>1, <2>2
<1> QED BY <1>1, <1>2, <1>3

\* A row starts to be edited as it is shown.
LEMMA PlTyped ==
    ASSUME PlConstants, PlInv, NEW l \in Lanes,
           PL!EditLane(l) \/ PL!Cancel(l) \/ \E f \in PL!Fields, v \in Values : PL!TypeLane(l, f, v)
    PROVE  PlInv'
<1>1. UNCHANGED PL!serverVars /\ UNCHANGED PL!tableVars /\ UNCHANGED row /\ UNCHANGED PL!importVars
  BY DEF PL!EditLane, PL!Cancel, PL!TypeLane
<1>2. /\ draft' = [draft EXCEPT ![l] = draft'[l]]
      /\ draft'[l] \in PlDrafts \cup {None}
      /\ draft'[l] # None => l \in DOMAIN lanesShown /\ PlTypedOver(draft'[l], lanesShown[l])
  <2>0. draft \in [Lanes -> PlDrafts \cup {None}]
    BY DEF PlInv, PlDraft
  <2>1. CASE PL!EditLane(l)
    <3> DEFINE d == [values |-> [f \in PL!Fields |-> lanesShown[l][f]], typed |-> {}, refreshed |-> FALSE]
    <3>1. draft' = [draft EXCEPT ![l] = d] /\ l \in DOMAIN lanesShown
      BY <2>1 DEF PL!EditLane, PL!Editable
    <3>2. lanesShown[l] \in PlRows
      BY <3>1 DEF PlInv, PlTable, PlListed
    <3>3. lanesShown[l].rate \in Values /\ lanesShown[l].docket \in Values
      BY <3>2 DEF PlRows
    <3>4. d \in PlDrafts /\ PlTypedOver(d, lanesShown[l])
      BY <3>3 DEF PlDrafts, PlFields, PL!Fields, PlTypedOver
    <3> HIDE DEF d
    <3> QED BY <2>0, <3>1, <3>4
  <2>2. CASE PL!Cancel(l)
    BY <2>0, <2>2 DEF PL!Cancel
  <2>3. ASSUME NEW f \in PL!Fields, NEW v \in Values, PL!TypeLane(l, f, v)
        PROVE  /\ draft' = [draft EXCEPT ![l] = draft'[l]]
               /\ draft'[l] \in PlDrafts \cup {None}
               /\ draft'[l] # None => l \in DOMAIN lanesShown /\ PlTypedOver(draft'[l], lanesShown[l])
    <3> DEFINE d == [draft[l] EXCEPT !.values[f] = v, !.typed = @ \cup {f}]
    <3>1. draft[l] \in PlDrafts /\ l \in DOMAIN lanesShown /\ PlTypedOver(draft[l], lanesShown[l]) /\ draft' = [draft EXCEPT ![l] = d] /\ f \in PlFields
      BY <2>0, <2>3 DEF PL!TypeLane, PL!Editable, PlInv, PlDraft, PL!Fields, PlFields
    <3>2. ASSUME NEW e \in PlDrafts, NEW g, g = [e EXCEPT !.values[f] = v, !.typed = @ \cup {f}]
          PROVE  /\ g \in PlDrafts /\ g.refreshed = e.refreshed /\ g.typed = e.typed \cup {f}
                 /\ g.values = [e.values EXCEPT ![f] = v]
      BY <3>1, <3>2 DEF PlDrafts
    <3>3. d \in PlDrafts /\ d.refreshed = draft[l].refreshed /\ d.typed = draft[l].typed \cup {f} /\ d.values = [draft[l].values EXCEPT ![f] = v]
      BY <3>1, <3>2
    <3> HIDE DEF d
    <3>4. draft[l].values \in [PlFields -> Values]
      BY <3>1 DEF PlDrafts
    <3>5. PlTypedOver(d, lanesShown[l])
      BY <3>1, <3>3, <3>4 DEF PlTypedOver
    <3> QED BY <2>0, <3>1, <3>3, <3>5
  <2> QED BY <2>1, <2>2, <2>3
<1>3. PlDraft'
  BY <1>1, <1>2 DEF PlInv, PlDraft, PL!tableVars
<1> QED BY <1>1, <1>3 DEF PlInv, PlServer, PlTable, PlListed, PlPatch, PlImport, PL!serverVars, PL!tableVars, PL!importVars

LEMMA PlSaves ==
    ASSUME PlConstants, PlInv, NEW l \in Lanes, PL!Save(l) \/ PL!ToggleActive(l)
    PROVE  PlInv'
<1>1. UNCHANGED PL!serverVars /\ UNCHANGED PL!tableVars /\ UNCHANGED PL!importVars /\ l \in DOMAIN lanesShown
  BY DEF PL!Save, PL!ToggleActive, PL!Editable
<1>2. l \in PL!Existing(lanes) /\ lanesShown[l] \in PlRows
  BY <1>1 DEF PlInv, PlTable, PlListed
<1>3. PlDraft'
  BY <1>1 DEF PL!Save, PL!ToggleActive, PlInv, PlDraft, PL!tableVars
<1>4. ASSUME NEW p \in PlPatches, row' = [row EXCEPT ![l] = p], p.at = "going", PlSent(p), p.fields \subseteq p.typed \/ p.refreshed
      PROVE  PlPatch'
  <2>1. \A m \in Lanes : row'[m] = IF m = l THEN p ELSE row[m]
    BY <1>4 DEF PlInv, PlPatch
  <2>2. PL!Existing(lanes') = PL!Existing(lanes)
    BY <1>1 DEF PL!serverVars
  <2> QED BY <1>2, <1>4, <2>1, <2>2 DEF PlInv, PlPatch
<1>5. PlPatch'
  <2>1. CASE UNCHANGED row
    BY <1>1, <2>1 DEF PlInv, PlPatch, PL!serverVars
  <2>2. CASE PL!Save(l) /\ ~UNCHANGED row
    <3> DEFINE d == draft[l]
               F == PL!PatchFields(l)
    <3>1. d \in PlDrafts /\ PlTypedOver(d, lanesShown[l])
          /\ row' = [row EXCEPT ![l] = [PL!NoPatch EXCEPT !.at = "going", !.fields = F, !.values = d.values, !.typed = d.typed, !.refreshed = d.refreshed]]
      BY <2>2 DEF PL!Save, PlInv, PlDraft
    <3>2. F = {f \in PlFields : d.values[f] # lanesShown[l][f]}
      BY DEF PL!PatchFields, PL!ChangedFields, PL!Fields, PlFields
    <3>3. d.values \in [PlFields -> Values] /\ d.typed \in SUBSET PlFields /\ d.refreshed \in BOOLEAN
      BY <3>1 DEF PlDrafts
    <3>4. F \in SUBSET PlFields /\ "active" \notin F /\ (F \subseteq d.typed \/ d.refreshed)
      BY <3>1, <3>2 DEF PlTypedOver, PlFields
    <3> HIDE DEF d, F
    <3> DEFINE p == [PL!NoPatch EXCEPT !.at = "going", !.fields = F, !.values = d.values, !.typed = d.typed, !.refreshed = d.refreshed]
    <3>5. p \in PlPatches /\ p.fields = F /\ p.values = d.values /\ p.typed = d.typed /\ p.refreshed = d.refreshed /\ p.at = "going"
      <4> DEFINE v == d.values
                 T == d.typed
                 x == d.refreshed
      <4>1. F \in SUBSET (PlFields \cup {"active"}) /\ T \in SUBSET (PlFields \cup {"active"})
            /\ v \in [PlFields -> Values] \cup [active : BOOLEAN] /\ x \in BOOLEAN
        BY <3>3, <3>4
      <4> HIDE DEF v, T, x
      <4>2. p = [PL!NoPatch EXCEPT !.at = "going", !.fields = F, !.values = v, !.typed = T, !.refreshed = x]
        BY DEF v, T, x
      <4> HIDE DEF p, F
      <4>3. ASSUME NEW q, q = [PL!NoPatch EXCEPT !.at = "going", !.fields = F, !.values = v, !.typed = T, !.refreshed = x]
            PROVE  q \in PlPatches /\ q.fields = F /\ q.values = v /\ q.typed = T /\ q.refreshed = x /\ q.at = "going"
        BY <4>1, <4>3 DEF PL!NoPatch, PlPatches
      <4>4. p \in PlPatches /\ p.fields = F /\ p.values = v /\ p.typed = T /\ p.refreshed = x /\ p.at = "going"
        BY <4>2, <4>3, Zenon
      <4> QED BY <4>4 DEF v, T, x
    <3> HIDE DEF p
    <3>6. PlSent(p)
      BY <3>3, <3>4, <3>5 DEF PlSent
    <3>7. row' = [row EXCEPT ![l] = p]
      BY <3>1 DEF p
    <3> QED BY <1>4, <3>4, <3>5, <3>6, <3>7
  <2>3. CASE PL!ToggleActive(l)
    <3> DEFINE v == [active |-> ~lanesShown[l].active]
               p == [PL!NoPatch EXCEPT !.at = "going", !.fields = {"active"}, !.values = v, !.typed = {"active"}]
    <3>1. row' = [row EXCEPT ![l] = p]
      BY <2>3 DEF PL!ToggleActive
    <3>2. v \in [active : BOOLEAN]
      BY <1>2 DEF PlRows
    <3> HIDE DEF v
    <3>3. p \in PlPatches /\ p.fields = {"active"} /\ p.values = v /\ p.typed = {"active"} /\ p.at = "going"
      BY <3>2 DEF PL!NoPatch, PlPatches
    <3> HIDE DEF p
    <3>4. PlSent(p)
      BY <3>2, <3>3 DEF PlSent
    <3> QED BY <1>4, <3>1, <3>3, <3>4
  <2> QED BY <2>1, <2>2, <2>3
<1> QED BY <1>1, <1>3, <1>5 DEF PlInv, PlServer, PlTable, PlListed, PlImport, PL!serverVars, PL!tableVars, PL!importVars

LEMMA PlServes ==
    ASSUME PlConstants, PlInv, NEW l \in Lanes, NEW a \in BOOLEAN, NEW b \in BOOLEAN, PL!ServePatch(l, a, b)
    PROVE  PlInv'
<1>1. /\ UNCHANGED PL!tableVars /\ UNCHANGED draft /\ UNCHANGED PL!importVars
      /\ row[l].at = "going" /\ row[l] \in PlPatches /\ l \in PL!Existing(lanes) /\ PlSent(row[l])
  BY DEF PL!ServePatch, PlInv, PlPatch
<1>2. row[l].fields \subseteq PlFields \cup {"active"}
  BY <1>1 DEF PlPatches
<1>3. lanes' \in [Lanes -> PlRows \cup {None}] /\ PlOne(lanes') /\ PL!Existing(lanes') = PL!Existing(lanes)
  <2>1. CASE a
    <3>1. lanes' = PL!Patched(l, row[l])
      BY <2>1 DEF PL!ServePatch
    <3> QED BY <1>1, <1>2, <3>1, PlPatched DEF PlInv
  <2>2. CASE ~a
    BY <2>2 DEF PL!ServePatch, PlInv, PlServer
  <2> QED BY <2>1, <2>2
<1>4. lanes'[l] \in PlRows /\ l \in Lanes
  BY <1>1, <1>3 DEF PL!Existing
<1>5. \E p \in PlPatches : /\ row' = [row EXCEPT ![l] = p] /\ p.fields = row[l].fields /\ p.typed = row[l].typed /\ p.refreshed = row[l].refreshed
                           /\ p.values = row[l].values /\ (p.at = "answered" => p.row \in PlRows)
  <2> DEFINE q == row[l]
  <2>1. q \in PlPatches
    BY <1>1
  <2>2. \/ row' = [row EXCEPT ![l] = [q EXCEPT !.at = "answered", !.row = lanes'[l]]]
        \/ row' = [row EXCEPT ![l] = [q EXCEPT !.at = "failed"]]
    BY DEF PL!ServePatch
  <2> HIDE DEF q
  <2>3. ASSUME NEW p, p = [q EXCEPT !.at = "answered", !.row = lanes'[l]]
        PROVE  p \in PlPatches /\ p.fields = q.fields /\ p.typed = q.typed /\ p.refreshed = q.refreshed /\ p.values = q.values /\ p.row = lanes'[l]
    BY <1>4, <2>1, <2>3 DEF PlPatches
  <2>4. ASSUME NEW p, p = [q EXCEPT !.at = "failed"]
        PROVE  p \in PlPatches /\ p.fields = q.fields /\ p.typed = q.typed /\ p.refreshed = q.refreshed /\ p.values = q.values /\ p.at = "failed"
    BY <2>1, <2>4 DEF PlPatches
  <2> QED BY <1>4, <2>2, <2>3, <2>4 DEF q
<1>6. PlPatch'
  <2>1. PICK p \in PlPatches : /\ row' = [row EXCEPT ![l] = p] /\ p.fields = row[l].fields /\ p.typed = row[l].typed /\ p.refreshed = row[l].refreshed
                               /\ p.values = row[l].values /\ (p.at = "answered" => p.row \in PlRows)
    BY <1>5
  <2>2. \A m \in Lanes : row'[m] = IF m = l THEN p ELSE row[m]
    BY <2>1 DEF PlInv, PlPatch
  <2>3. row' \in [Lanes -> PlPatches]
    BY <2>1 DEF PlInv, PlPatch
  <2>4. PlSent(p)
    BY <1>1, <2>1 DEF PlSent
  <2> QED BY <1>1, <1>3, <2>1, <2>2, <2>3, <2>4 DEF PlInv, PlPatch
<1> QED BY <1>1, <1>3, <1>6, PlServed DEF PlInv, PlImport, PL!tableVars, PL!importVars

LEMMA PlAnswers ==
    ASSUME PlConstants, PlInv, NEW l \in Lanes, PL!PatchAnswered(l) \/ PL!PatchFailed(l)
    PROVE  PlInv'
<1>1. UNCHANGED PL!serverVars /\ activeOnly' = activeOnly /\ UNCHANGED PL!importVars /\ row' = [row EXCEPT ![l] = PL!NoPatch]
  BY DEF PL!PatchAnswered, PL!PatchFailed, PL!tableVars
<1>2. PlPatch'
  <2>1. PL!NoPatch \in PlPatches /\ PL!NoPatch.fields = {} /\ PL!NoPatch.at = "idle"
    BY DEF PL!NoPatch, PlPatches
  <2>2. \A m \in Lanes : row'[m] = IF m = l THEN PL!NoPatch ELSE row[m]
    BY <1>1 DEF PlInv, PlPatch
  <2>3. row' \in [Lanes -> PlPatches]
    BY <1>1, <2>1 DEF PlInv, PlPatch
  <2>4. PL!Existing(lanes') = PL!Existing(lanes)
    BY <1>1 DEF PL!serverVars
  <2> QED BY <2>1, <2>2, <2>3, <2>4 DEF PlInv, PlPatch
<1>3. PlTable' /\ PlDraft'
  <2>1. CASE PL!PatchFailed(l)
    BY <1>1, <2>1 DEF PL!PatchFailed, PL!DraftOnFailure, PL!DraftKept, PlInv, PlTable, PlListed, PlDraft, PL!tableVars, PL!serverVars
  <2>2. CASE PL!PatchAnswered(l) /\ "active" \in row[l].fields
    BY <1>1, <2>2 DEF PL!PatchAnswered, PL!Load, PL!Idle, PlInv, PlTable, PlListed, PlDraft, PL!serverVars
  <2>3. CASE PL!PatchAnswered(l) /\ "active" \notin row[l].fields
    <3>1. /\ lanesShown' = [m \in DOMAIN lanesShown |-> IF m = l THEN row[l].row ELSE lanesShown[m]]
          /\ draft' = [draft EXCEPT ![l] = None] /\ load' = load /\ row[l].row \in PlRows
      BY <2>3 DEF PL!PatchAnswered, PlInv, PlPatch
    <3>2. PlTable'
      BY <1>1, <3>1 DEF PlInv, PlTable, PlListed, PL!serverVars
    <3>3. PlDraft'
      BY <1>1, <3>1 DEF PlInv, PlDraft
    <3> QED BY <3>2, <3>3
  <2> QED BY <2>1, <2>2, <2>3
<1> QED BY <1>1, <1>2, <1>3 DEF PlInv, PlServer, PlImport, PL!serverVars, PL!importVars

-----------------------------------------------------------------------------
(* The import.                                                                  *)

LEMMA PlImports ==
    ASSUME PlConstants, PlInv,
           \/ PL!OpenImport \/ PL!HandleOpenChange \/ PL!RunDryRun \/ PL!ConfirmImport \/ PL!ImportAnswered \/ PL!ImportFailed
           \/ \E f \in Files : PL!HandleFileChange(f)
    PROVE  PlInv'
<1>1. UNCHANGED PL!serverVars /\ UNCHANGED PL!rowVars /\ activeOnly' = activeOnly /\ lanesShown' = lanesShown
      /\ (load' = load \/ load'.at = "going")
  BY DEF PL!OpenImport, PL!HandleOpenChange, PL!RunDryRun, PL!ConfirmImport, PL!ImportAnswered, PL!ImportFailed, PL!HandleFileChange,
     PL!tableVars, PL!Load, PL!Idle
<1>2. PlImport'
  <2> USE DEF PlInv, PlImport, PL!NotBusy
  <2>1. CASE PL!OpenImport
    BY <2>1 DEF PL!OpenImport
  <2>7. CASE PL!ImportFailed
    BY <2>7 DEF PL!ImportFailed
  <2>2. CASE PL!HandleOpenChange
    BY <2>2 DEF PL!HandleOpenChange, PL!AtDialog
  <2>3. CASE PL!RunDryRun
    BY <2>3 DEF PL!RunDryRun, PL!AtDialog
  <2>4. CASE PL!ConfirmImport
    BY <2>4 DEF PL!ConfirmImport, PL!AtDialog, PL!CanImport
  <2>5. CASE PL!ImportAnswered
    BY <2>5 DEF PL!ImportAnswered
  <2>6. ASSUME NEW f \in Files, PL!HandleFileChange(f) PROVE PlImport'
    BY <2>6 DEF PL!HandleFileChange, PL!AtDialog, PL!ReportOnChange, PL!ReportDropped
  <2> QED BY <2>1, <2>2, <2>3, <2>4, <2>5, <2>6, <2>7
<1> QED BY <1>1, <1>2 DEF PlInv, PlServer, PlTable, PlListed, PlDraft, PlPatch, PL!serverVars, PL!rowVars

LEMMA PlImported ==
    ASSUME PlConstants, PlInv, NEW a \in BOOLEAN, NEW b \in BOOLEAN, PL!ServeImport(a, b)
    PROVE  PlInv'
<1>1. UNCHANGED PL!tableVars /\ UNCHANGED PL!rowVars /\ UNCHANGED <<open, file, report>> /\ busy.at = "going" /\ file \in Files
  BY DEF PL!ServeImport, PlInv, PlImport
<1>2. lanes' \in [Lanes -> PlRows \cup {None}] /\ PlOne(lanes') /\ PL!Existing(lanes) \subseteq PL!Existing(lanes')
  <2>1. CASE a /\ ~busy.dry /\ ~PL!Errors(file)
    <3>1. lanes' = PL!AppliedPlan(lanes, file)
      BY <2>1 DEF PL!ServeImport
    <3> QED BY <1>1, <2>1, <3>1, PlApplied DEF PlInv
  <2>2. CASE ~(a /\ ~busy.dry /\ ~PL!Errors(file))
    BY <2>2 DEF PL!ServeImport, PlInv, PlServer
  <2> QED BY <2>1, <2>2
<1>3. PlImport'
  <2>1. CASE a /\ b
    <3>1. busy' = [busy EXCEPT !.at = "answered", !.report = [of |-> file, plan |-> PL!PlanOf(lanes, file)]]
      BY <2>1 DEF PL!ServeImport
    <3>2. busy' = [at |-> "answered", dry |-> busy.dry, report |-> [of |-> file, plan |-> PL!PlanOf(lanes, file)]]
      BY <3>1 DEF PlInv, PlImport
    <3> QED BY <1>1, <3>2 DEF PlInv, PlImport
  <2>2. CASE ~(a /\ b)
    <3>1. busy' = [busy EXCEPT !.at = "failed"]
      BY <2>2 DEF PL!ServeImport
    <3>2. busy' = [at |-> "failed", dry |-> busy.dry, report |-> busy.report]
      BY <3>1 DEF PlInv, PlImport
    <3> QED BY <1>1, <3>2 DEF PlInv, PlImport
  <2> QED BY <2>1, <2>2
<1> QED BY <1>1, <1>2, <1>3, PlServed DEF PlInv, PL!tableVars, PL!rowVars

LEMMA PlStep == PlConstants /\ PlInv /\ [PL!Next]_(PL!vars) => PlInv'
<1> SUFFICES ASSUME PlConstants, PlInv, [PL!Next]_(PL!vars) PROVE PlInv'
  OBVIOUS
<1>1. CASE UNCHANGED PL!vars
  BY <1>1 DEF PL!vars, PlInv, PlServer, PlTable, PlListed, PlDraft, PlPatch, PlImport
<1>2. CASE PL!Next
  BY <1>2, PlOthers, PlLoads, PlTyped, PlSaves, PlServes, PlAnswers, PlImports, PlImported DEF PL!Next
<1> QED BY <1>1, <1>2

\* Types; one lane of a route is active at most, also after a clean file, which changes nothing when it is imported again; an
\* edit sends what was typed, unless the row was read again under it; and a file is imported only after that very file was
\* checked and found clean (components/pricing-admin, services/prime_admin).
THEOREM LanesAsEdited ==
    ASSUME PlConstants
    PROVE  PL!Spec => [](PL!TypeOK /\ PL!OncePerIntent /\ PL!ActedAsShown)
<1>1. PL!Init => PlInv
  BY PlInit
<1>2. PlInv /\ [PL!Next]_(PL!vars) => PlInv'
  BY PlStep
<1>3. PlInv => PL!TypeOK /\ PL!OncePerIntent /\ PL!ActedAsShown
  <2> SUFFICES ASSUME PlInv PROVE PL!TypeOK /\ PL!OncePerIntent /\ PL!ActedAsShown
    OBVIOUS
  <2>1. PL!TypeOK
    <3>1. \A l \in PL!Existing(lanes) : lanes[l] \in PlRows
      BY DEF PlInv, PlServer, PL!Existing
    <3>2. \A l \in PL!Existing(lanes) : lanes[l].rate \in Values /\ lanes[l].docket \in Values /\ lanes[l].active \in BOOLEAN
      BY <3>1 DEF PlRows
    <3> QED BY <3>2 DEF PlInv, PlTable, PlListed, PlImport, PL!Existing, PL!TypeOK
  <2>2. PL!Cardinality(PL!ActiveIn(lanes)) <= 1
    BY PlFinite, PlFew DEF PlInv, PlServer, PlOne
  <2>3. ASSUME NEW f \in Files, ~PL!Errors(f)
        PROVE  LET after == PL!AppliedPlan(lanes, f)
               IN  PL!Cardinality(PL!ActiveIn(after)) <= 1 /\ PL!NoChanges(PL!PlanOf(after, f))
    <3>1. PlOne(PL!AppliedPlan(lanes, f)) /\ PL!NoChanges(PL!PlanOf(PL!AppliedPlan(lanes, f), f))
      BY <2>3, PlApplied DEF PlInv
    <3>2. IsFiniteSet(PL!ActiveIn(PL!AppliedPlan(lanes, f)))
      BY PlFinite
    <3> QED BY <3>1, <3>2, PlFew DEF PlOne
  <2>4. PL!ActedAsShown
    BY DEF PlInv, PlPatch, PlImport, PL!ActedAsShown
  <2> QED BY <2>1, <2>2, <2>3, <2>4 DEF PL!OncePerIntent
<1> QED BY <1>1, <1>2, <1>3, PTL DEF PL!Spec

\* A failure leaves what was typed in the rows and the file that was chosen.
THEOREM LaneTypingKept ==
    ASSUME None # "failed"
    PROVE  PL!Spec => [][PL!KeepsTyping]_(PL!vars)
<1>1. [PL!Next]_(PL!vars) => [PL!KeepsTyping]_(PL!vars)
  <2> SUFFICES ASSUME PL!Next, told' = "failed", told # "failed" PROVE UNCHANGED <<draft, file, report>>
    BY DEF PL!KeepsTyping
  <2>1. PL!ImportFailed \/ \E l \in Lanes : PL!PatchFailed(l)
    BY DEF PL!Next, PL!OthersAct, PL!SetActiveOnly, PL!LoadAnswered, PL!OpenImport, PL!HandleOpenChange, PL!RunDryRun, PL!ConfirmImport,
       PL!ImportAnswered, PL!EditLane, PL!Cancel, PL!Save, PL!ToggleActive, PL!PatchAnswered, PL!TypeLane, PL!HandleFileChange,
       PL!ServeLoad, PL!ServeImport, PL!ServePatch
  <2> QED BY <2>1 DEF PL!ImportFailed, PL!PatchFailed, PL!DraftOnFailure, PL!DraftKept, PL!rowVars, PL!importVars
<1> QED BY <1>1, PTL DEF PL!Spec

-----------------------------------------------------------------------------
(* The carrier booking card: a bill is money with GST, the wallet has paid what *)
(* is owed of it, and what a request on its way was pressed on is what is.       *)

CONSTANTS Role, InDialog, Ways, Amounts, Weights, Gst, MaxTypings, MaxPresses, MaxOpens
VARIABLES parcel, opens, state, fetch, status, editing, addingCharge, chargeAmount, typings, presses, save,
    charge, late, loose
CB == INSTANCE CarrierBilling

CbMoney == {x \in Int : \E n \in Int : x = Gst * n}
CbAwbs == {None, "mine", "theirs"}
CbKilos == Weights \cup {None}
CbCosts == Amounts \cup {None}
CbRows ==
    [awb : CbAwbs, kg : CbKilos, amount : CbCosts, weighed : [by : {None, "carrier", "hub"}, kg : CbKilos],
     extras : CbMoney, override : CbMoney, paid : Nat, cancelled : BOOLEAN]
CbBillings ==
    [awb : CbAwbs, kg : CbKilos, amount : CbCosts, billed : CbMoney, gap : Nat \cup {None}, gross : CbMoney \cup {None}]
\* A gap that is shown is what the carrier charged above the bill.
CbReads == {b \in CbBillings : CB!HasGap(b) => b.amount \in Amounts /\ b.gross = b.amount - b.billed /\ b.gross > 0}
CbForms == [awb : CbAwbs \cup {"taken"}, kg : CbKilos, amount : CbCosts]
CbSteps == {"idle", "going", "answered", "failed"}
CbSaves == [at : CbSteps, body : CbForms \cup {None}, seen : CbReads \cup {None}]
CbCharges ==
    [at : CbSteps, kind : {"recover", "price", None}, amount : CbMoney \cup {None}, on : CbReads \cup {None},
     seen : CbReads \cup {None}, there : CbReads \cup {None}]
CbConstants ==
    /\ InDialog \in BOOLEAN /\ Gst \in Nat \ {0} /\ Weights \subseteq Nat /\ Amounts \subseteq CbMoney \cap Nat
    /\ None \notin Int /\ None \notin CbBillings /\ None \notin CbForms /\ None \notin {"recover", "price"}

CbPaid(p) == p \in CbRows /\ p.extras >= 0 /\ (~p.cancelled => p.paid = CB!Owed(CB!TotalCost(p)))
CbSave ==
    /\ save \in CbSaves /\ (save.at # "idle" => save.body \in CbForms /\ save.body.awb # None)
    /\ save.at = "answered" => save.seen \in CbReads
\* A charge is asked of what was shown; once served it says what was there and what it left.
CbAsked(c) == c.on \in CbReads /\ c.amount \in CbMoney /\ c.amount > 0 /\ c.kind # None
              /\ (c.kind = "recover" => CB!HasGap(c.on) /\ c.amount = c.on.gross)
CbServed(c) ==
    /\ c.seen \in CbReads /\ c.there \in CbReads
    /\ c.kind = "price" => c.seen.billed = c.amount
    /\ c.kind = "recover" /\ c.on = c.there => c.seen.billed = c.seen.amount
CbCharged(c) ==
    /\ c \in CbCharges
    /\ c.at = "idle" => c = CB!NotCharging
    /\ c.at # "idle" => CbAsked(c)
    /\ c.at = "going" => c.seen = None
    /\ c.at = "answered" => c.seen # None
    /\ c.seen # None => CbServed(c)
CbForm == form \in CbForms /\ chargeAmount \in CbMoney \cup {None}
CbCard ==
    /\ state \in [kind : {"loading", "ready", "error"}, billing : CbReads \cup {None}]
    /\ state.kind = "ready" <=> state.billing # None
    /\ fetch \in [at : {"idle", "going", "read", "failed"}, seen : CbReads \cup {None}]
    /\ fetch.at = "read" => fetch.seen # None
    /\ fetch.at # "idle" => state.kind # "ready"
    /\ ~open => state = CB!Loading /\ fetch.at = "idle"
    /\ state.kind # "ready" => save.at = "idle" /\ charge.at = "idle"
    /\ loose \in BOOLEAN
\* Unless somebody came between, an answer was lost or two requests are on their way: what is shown, was answered or
\* was pressed on is the booking as it is.
CbCurrent ==
    ~loose =>
        /\ fetch.at = "read" => fetch.seen = CB!BuildCarrierBillingRead(parcel)
        /\ state.kind = "ready" /\ save.at # "answered" /\ charge.at # "answered" =>
              state.billing = CB!BuildCarrierBillingRead(parcel)
        /\ save.at = "answered" => save.seen = CB!BuildCarrierBillingRead(parcel)
        /\ charge.at = "answered" => charge.seen = CB!BuildCarrierBillingRead(parcel)
        /\ charge.at = "going" => charge.on = CB!BuildCarrierBillingRead(parcel)
        /\ charge.kind = "recover" /\ charge.seen # None => charge.there.gross = charge.amount
        /\ save.at # "idle" => editing /\ charge.at = "idle"
CbInv == CbPaid(parcel) /\ CbSave /\ CbCharged(charge) /\ CbCharged(late) /\ CbForm /\ CbCard /\ CbCurrent

-----------------------------------------------------------------------------
(* Money.                                                                       *)

LEMMA CbNetOfGross == ASSUME Gst \in Nat \ {0}, NEW n \in Int PROVE (Gst * n) \div Gst = n
OBVIOUS

LEMMA CbSum ==
    ASSUME CbConstants, NEW a \in CbMoney, NEW b \in CbMoney
    PROVE  /\ a \in Int /\ a + b \in CbMoney /\ a - b \in CbMoney /\ CB!Net(a) \in Int
           /\ Gst * (CB!Net(a) - CB!Net(b)) = a - b
           /\ CB!Net(a) - CB!Net(b) > 0 => a - b > 0
<1>1. Gst \in Nat \ {0}
  BY DEF CbConstants
<1>2. PICK n \in Int : a = Gst * n
  BY DEF CbMoney
<1>3. PICK m \in Int : b = Gst * m
  BY DEF CbMoney
<1>4. CB!Net(a) = n /\ CB!Net(b) = m
  BY <1>1, <1>2, <1>3, CbNetOfGross DEF CB!Net
<1>5. a + b = Gst * (n + m) /\ a - b = Gst * (n - m) /\ a \in Int /\ a + b \in Int /\ a - b \in Int
  BY <1>1, <1>2, <1>3
<1>6. n + m \in Int /\ n - m \in Int
  OBVIOUS
<1>7. n - m > 0 => Gst * (n - m) > 0
  BY <1>1, <1>6
<1> QED BY <1>4, <1>5, <1>6, <1>7 DEF CbMoney

LEMMA CbBill ==
    ASSUME CbConstants, NEW p \in CbRows
    PROVE  CB!Engine(p) \in CbMoney /\ CB!TotalCost(p) \in CbMoney /\ CB!Engine(p) + p.extras \in CbMoney
<1>1. \A n \in Nat : Gst * n \in CbMoney
  BY DEF CbConstants, CbMoney
<1>2. CB!Engine(p) \in CbMoney
  BY <1>1 DEF CB!Engine, CbRows, CbKilos, CbConstants
<1>3. p.extras \in CbMoney /\ p.override \in CbMoney
  BY DEF CbRows
<1> QED BY <1>2, <1>3, CbSum DEF CB!TotalCost

LEMMA CbOwed == \A x \in Int : CB!Owed(x) \in Nat
BY DEF CB!Owed

\* What the card is told of a booking.
LEMMA CbRead ==
    ASSUME CbConstants, NEW p \in CbRows
    PROVE  /\ CB!BuildCarrierBillingRead(p) \in CbReads
           /\ CB!BuildCarrierBillingRead(p).billed = CB!TotalCost(p) /\ CB!BuildCarrierBillingRead(p).amount = p.amount
<1> DEFINE t == CB!TotalCost(p)
           s == CB!Shortfall(p)
<1>1. t \in CbMoney /\ p.amount \in CbCosts /\ p.awb \in CbAwbs /\ p.kg \in CbKilos
  BY CbBill DEF CbRows
<1>2. CASE p.amount = None
  <2>1. CB!BuildCarrierBillingRead(p) = [awb |-> p.awb, kg |-> p.kg, amount |-> p.amount, billed |-> t, gap |-> None, gross |-> None]
    BY <1>2 DEF CB!BuildCarrierBillingRead, CB!GapAmount
  <2> QED BY <1>1, <2>1 DEF CbReads, CbBillings, CB!HasGap
<1>3. CASE p.amount # None
  <2>1. p.amount \in Amounts /\ p.amount \in CbMoney
    BY <1>1, <1>3 DEF CbCosts, CbConstants
  <2>2. s = CB!Net(p.amount) - CB!Net(t)
    BY DEF CB!Shortfall
  <2> HIDE DEF t
  <2>3. s \in Int /\ Gst * s = p.amount - t /\ (s > 0 => p.amount - t > 0) /\ p.amount - t \in CbMoney
    <3> HIDE DEF s
    <3>1. CB!Net(p.amount) \in Int /\ CB!Net(t) \in Int
      BY <1>1, <2>1, CbSum
    <3>2. /\ p.amount - t \in CbMoney /\ Gst * (CB!Net(p.amount) - CB!Net(t)) = p.amount - t
          /\ CB!Net(p.amount) - CB!Net(t) > 0 => p.amount - t > 0
      BY <1>1, <2>1, CbSum
    <3> QED BY <2>2, <3>1, <3>2
  <2> DEFINE g == IF s <= 0 THEN 0 ELSE s
  <2>5. g \in Nat /\ (g # 0 => g = s /\ s > 0) /\ g # None
    <3> HIDE DEF s
    <3> QED BY <2>3 DEF CbConstants
  <2>4. CB!BuildCarrierBillingRead(p) = [awb |-> p.awb, kg |-> p.kg, amount |-> p.amount, billed |-> t, gap |-> g, gross |-> Gst * g]
    <3>1. CB!GapAmount(p) = g
      BY <1>3 DEF CB!GapAmount
    <3> HIDE DEF g
    <3> QED BY <2>5, <3>1 DEF CB!BuildCarrierBillingRead, t
  <2>6. Gst * g \in CbMoney
    <3> HIDE DEF g
    <3> QED BY <2>5 DEF CbMoney, CbConstants
  <2> HIDE DEF g, s
  <2>7. g # 0 => p.amount \in Amounts /\ Gst * g = p.amount - t /\ Gst * g > 0
    BY <2>1, <2>3, <2>5
  <2> DEFINE b == [awb |-> p.awb, kg |-> p.kg, amount |-> p.amount, billed |-> t, gap |-> g, gross |-> Gst * g]
  <2>8. b \in CbBillings
    BY <1>1, <2>5, <2>6 DEF CbBillings
  <2>9. b.gap = g /\ b.gross = Gst * g /\ b.amount = p.amount /\ b.billed = t
    OBVIOUS
  <2> HIDE DEF b
  <2> QED BY <2>4, <2>7, <2>8, <2>9 DEF CbReads, CB!HasGap, b, t
<1> QED BY <1>2, <1>3

-----------------------------------------------------------------------------
(* What the server does to a booking.                                           *)

\* Settling pays what is owed of the bill the row has by then.
LEMMA CbSettled ==
    ASSUME CbConstants, NEW p \in CbRows, p.extras >= 0
    PROVE  CbPaid(CB!Settled(p)) /\ CB!TotalCost(CB!Settled(p)) = CB!TotalCost(p) /\ CB!Settled(p).amount = p.amount
<1> DEFINE due == CB!Owed(CB!TotalCost(p))
           q == [p EXCEPT !.paid = due]
<1>1. CB!TotalCost(p) \in Int /\ due \in Nat
  BY CbBill, CbSum, CbOwed
<1>2. CB!Settled(p) = q
  BY DEF CB!Settled
<1> HIDE DEF due
<1>3. q \in CbRows /\ q.weighed = p.weighed /\ q.extras = p.extras /\ q.override = p.override /\ q.amount = p.amount /\ q.paid = due
  BY <1>1 DEF CbRows
<1>4. CB!TotalCost(q) = CB!TotalCost(p)
  BY <1>3 DEF CB!TotalCost, CB!Engine
<1> QED BY <1>2, <1>3, <1>4 DEF CbPaid, due

LEMMA CbExtra ==
    ASSUME CbConstants, NEW p, CbPaid(p), NEW a \in CbMoney, a > 0
    PROVE  CbPaid(CB!Extra(p, a)) /\ CB!TotalCost(CB!Extra(p, a)) = CB!TotalCost(p) + a /\ CB!Extra(p, a).amount = p.amount
<1> DEFINE more == p.extras + a
           q == [p EXCEPT !.extras = more]
<1>1. CB!Extra(p, a) = CB!Settled(q)
  BY DEF CB!Extra
<1>2. p \in CbRows /\ p.extras \in CbMoney /\ p.extras \in Int /\ a \in Int /\ more \in CbMoney /\ more >= 0
  <2>1. p \in CbRows /\ p.extras \in CbMoney /\ p.extras >= 0
    BY DEF CbPaid, CbRows
  <2>2. p.extras \in Int /\ a \in Int /\ more \in CbMoney
    BY <2>1, CbSum
  <2> QED BY <2>1, <2>2
<1>3. CB!Engine(p) \in Int /\ p.override \in Int
  <2>1. CB!Engine(p) \in CbMoney /\ p.override \in CbMoney
    BY <1>2, CbBill DEF CbRows
  <2> QED BY <2>1 DEF CbMoney
<1> HIDE DEF more
<1>4. q \in CbRows /\ q.weighed = p.weighed /\ q.extras = more /\ q.override = p.override /\ q.amount = p.amount
  BY <1>2 DEF CbRows
<1>5. CB!TotalCost(q) = CB!TotalCost(p) + a
  <2>1. CB!Engine(q) = CB!Engine(p)
    BY <1>4 DEF CB!Engine
  <2> QED BY <1>2, <1>3, <1>4, <2>1 DEF CB!TotalCost, more
<1> HIDE DEF q
<1> QED BY <1>1, <1>2, <1>4, <1>5, CbSettled

LEMMA CbPriced ==
    ASSUME CbConstants, NEW p, CbPaid(p), NEW a \in CbMoney
    PROVE  CbPaid(CB!Overridden(p, a)) /\ CB!TotalCost(CB!Overridden(p, a)) = a
<1> DEFINE top == a - CB!Engine(p) - p.extras
           q == [p EXCEPT !.override = top]
<1>1. CB!Overridden(p, a) = CB!Settled(q)
  BY DEF CB!Overridden, CB!WithOverride
<1>2. p \in CbRows /\ p.extras >= 0 /\ p.extras \in CbMoney
  BY DEF CbPaid, CbRows
<1>3. CB!Engine(p) \in CbMoney /\ a - CB!Engine(p) \in CbMoney /\ top \in CbMoney
  BY <1>2, CbBill, CbSum
<1>4. a \in Int /\ CB!Engine(p) \in Int /\ p.extras \in Int
  BY <1>2, <1>3 DEF CbMoney
<1> HIDE DEF top
<1>5. q \in CbRows /\ q.weighed = p.weighed /\ q.extras = p.extras /\ q.override = top
  BY <1>2, <1>3 DEF CbRows
<1>6. CB!TotalCost(q) = a
  <2>1. CB!Engine(q) = CB!Engine(p)
    BY <1>5 DEF CB!Engine
  <2> QED BY <1>4, <1>5, <2>1 DEF CB!TotalCost, top
<1> HIDE DEF q
<1> QED BY <1>1, <1>2, <1>5, <1>6, CbSettled

LEMMA CbWeighed ==
    ASSUME CbConstants, NEW p, CbPaid(p), NEW w \in [by : {"carrier", "hub"}, kg : Weights]
    PROVE  CbPaid(CB!Settled([p EXCEPT !.weighed = w]))
<1> DEFINE q == [p EXCEPT !.weighed = w]
<1>1. q \in CbRows /\ q.extras >= 0
  BY DEF CbPaid, CbRows, CbKilos
<1> QED BY <1>1, CbSettled

\* A booking of a cancelled shipment changes no weight, and what it stores besides is not billed.
LEMMA CbUpdated ==
    ASSUME CbConstants, NEW p, CbPaid(p), NEW b \in CbForms, b.awb \in {"mine", "theirs"},
           ~(p.cancelled /\ CB!NewWeight(p, b))
    PROVE  CbPaid(CB!UpdateCarrierBilling(p, b))
<1> DEFINE r == CB!RecordCarrierWeight(p, b)
<1>1. CbPaid(r)
  <2>1. CASE CB!NewWeight(p, b)
    <3>1. [by |-> "carrier", kg |-> b.kg] \in [by : {"carrier", "hub"}, kg : Weights]
      BY <2>1 DEF CB!NewWeight, CbForms, CbKilos
    <3> QED BY <2>1, <3>1, CbWeighed DEF CB!RecordCarrierWeight
  <2>2. CASE ~CB!NewWeight(p, b)
    BY <2>2 DEF CB!RecordCarrierWeight
  <2> QED BY <2>1, <2>2
<1> HIDE DEF r
<1> DEFINE k == CB!Kept(b.kg, r.kg)
           a == CB!Kept(b.amount, r.amount)
           q == [r EXCEPT !.awb = b.awb, !.kg = k, !.amount = a]
<1>2. CB!UpdateCarrierBilling(p, b) = q
  BY DEF CB!UpdateCarrierBilling, CB!PersistCarrierBilled, r
<1>3. k \in CbKilos /\ a \in CbCosts /\ r \in CbRows
  BY <1>1 DEF CbPaid, CbRows, CbForms, CB!Kept
<1> HIDE DEF k, a
<1>4. q \in CbRows /\ q.weighed = r.weighed /\ q.extras = r.extras /\ q.override = r.override /\ q.paid = r.paid /\ q.cancelled = r.cancelled
  BY <1>3 DEF CbRows, CbAwbs
<1>5. CB!TotalCost(q) = CB!TotalCost(r)
  BY <1>4 DEF CB!TotalCost, CB!Engine
<1> QED BY <1>1, <1>2, <1>4, <1>5 DEF CbPaid

LEMMA CbAdminCharge ==
    ASSUME CbConstants, NEW p, CbPaid(p), NEW c, c.amount \in CbMoney, c.amount > 0
    PROVE  /\ CbPaid(CB!AdminCharge(p, c))
           /\ c.kind = "price" => CB!TotalCost(CB!AdminCharge(p, c)) = c.amount
           /\ c.kind # "price" => CB!TotalCost(CB!AdminCharge(p, c)) = CB!TotalCost(p) + c.amount
                                  /\ CB!AdminCharge(p, c).amount = p.amount
<1>1. CASE c.kind = "price"
  BY <1>1, CbPriced DEF CB!AdminCharge
<1>2. CASE c.kind # "price"
  BY <1>2, CbExtra DEF CB!AdminCharge
<1> QED BY <1>1, <1>2

LEMMA CbOthers ==
    ASSUME CbConstants, CbInv, CB!OthersAct
    PROVE  CbPaid(parcel')
<1> SUFFICES ASSUME ~parcel.cancelled PROVE CbPaid(parcel')
  BY DEF CB!OthersAct
<1>1. CbPaid(parcel) /\ parcel \in CbRows
  BY DEF CbInv, CbPaid
<1>2. CASE \E a \in Amounts : parcel' = CB!UpdateCarrierBilling(parcel, [awb |-> "theirs", kg |-> None, amount |-> a])
  <2>1. PICK a \in Amounts : parcel' = CB!UpdateCarrierBilling(parcel, [awb |-> "theirs", kg |-> None, amount |-> a])
    BY <1>2
  <2> DEFINE b == [awb |-> "theirs", kg |-> None, amount |-> a]
  <2>2. b \in CbForms /\ b.awb \in {"mine", "theirs"}
    BY DEF CbForms, CbAwbs, CbKilos, CbCosts
  <2> HIDE DEF b
  <2> QED BY <1>1, <2>1, <2>2, CbUpdated DEF b
<1>3. CASE CB!HasGap(CB!BuildCarrierBillingRead(parcel)) /\ parcel' = CB!Extra(parcel, CB!BuildCarrierBillingRead(parcel).gross)
  <2> DEFINE g == CB!BuildCarrierBillingRead(parcel).gross
  <2>1. g \in CbMoney /\ g > 0
    <3>1. CB!BuildCarrierBillingRead(parcel) \in CbReads
      BY <1>1, CbRead
    <3>2. g = CB!BuildCarrierBillingRead(parcel).amount - CB!BuildCarrierBillingRead(parcel).billed /\ g > 0 /\ g \in CbMoney \cup {None}
          /\ CB!BuildCarrierBillingRead(parcel).amount \in CbMoney /\ CB!BuildCarrierBillingRead(parcel).billed \in CbMoney
      BY <1>3, <3>1 DEF CbReads, CbBillings, CbConstants
    <3> QED BY <3>2, CbSum
  <2> QED BY <1>1, <1>3, <2>1, CbExtra
<1>4. CASE \E w \in Weights : parcel' = CB!Settled([parcel EXCEPT !.weighed = [by |-> "hub", kg |-> w]])
  <2>1. PICK w \in Weights : parcel' = CB!Settled([parcel EXCEPT !.weighed = [by |-> "hub", kg |-> w]])
    BY <1>4
  <2>2. [by |-> "hub", kg |-> w] \in [by : {"carrier", "hub"}, kg : Weights]
    OBVIOUS
  <2> QED BY <1>1, <2>1, <2>2, CbWeighed
<1>5. CASE parcel' = [parcel EXCEPT !.cancelled = TRUE, !.paid = 0]
  <2> DEFINE gone == TRUE
  <2>1. parcel' = [parcel EXCEPT !.cancelled = gone, !.paid = 0]
    BY <1>5
  <2>2. gone \in BOOLEAN /\ gone
    OBVIOUS
  <2> HIDE DEF gone
  <2> QED BY <1>1, <2>1, <2>2 DEF CbPaid, CbRows
<1> QED BY <1>2, <1>3, <1>4, <1>5 DEF CB!OthersAct

-----------------------------------------------------------------------------
(* The steps.                                                                   *)

LEMMA CbSameRead == parcel' = parcel => CB!BuildCarrierBillingRead(parcel)' = CB!BuildCarrierBillingRead(parcel)
BY DEF CB!BuildCarrierBillingRead, CB!GapAmount, CB!Shortfall, CB!Net, CB!TotalCost, CB!Engine

LEMMA CbNextRead == \A p : p = parcel' => CB!BuildCarrierBillingRead(parcel)' = CB!BuildCarrierBillingRead(p)
BY DEF CB!BuildCarrierBillingRead, CB!GapAmount, CB!Shortfall, CB!Net, CB!TotalCost, CB!Engine

LEMMA CbNothing ==
    ASSUME CbConstants PROVE CbCharged(CB!NotCharging) /\ CB!NotSaving \in CbSaves /\ CB!NotSaving.at = "idle" /\ CB!NotCharging.at = "idle"
    /\ CB!NotCharging.seen = None
BY DEF CbCharged, CB!NotCharging, CbCharges, CbSteps, CB!NotSaving, CbSaves

LEMMA CbInit == CbConstants /\ CB!Init => CbInv
<1> SUFFICES ASSUME CbConstants, CB!Init PROVE CbInv
  OBVIOUS
<1>1. CbPaid(parcel)
  <2>1. PICK a \in CbCosts :
            parcel = [awb |-> IF a = None THEN None ELSE "mine", kg |-> None, amount |-> a, weighed |-> [by |-> None, kg |-> None],
                      extras |-> 0, override |-> 0, paid |-> Gst, cancelled |-> FALSE]
    BY DEF CB!Init, CbCosts
  <2>2. 0 \in CbMoney /\ Gst \in Nat /\ Gst > 0
    BY DEF CbMoney, CbConstants
  <2>3. parcel.extras = 0 /\ parcel.override = 0 /\ parcel.paid = Gst /\ parcel.weighed.kg = None /\ ~parcel.cancelled
    BY <2>1
  <2>4. CB!TotalCost(parcel) = Gst
    BY <2>2, <2>3 DEF CB!TotalCost, CB!Engine
  <2>5. parcel \in CbRows
    BY <2>1, <2>2 DEF CbRows, CbAwbs, CbKilos, CbCosts
  <2> QED BY <2>2, <2>3, <2>4, <2>5 DEF CbPaid, CB!Owed
<1>2. CbSave /\ CbCharged(charge) /\ CbCharged(late)
  BY CbNothing DEF CbSave, CB!Init, CbConstants
<1>3. CbForm
  BY DEF CbForm, CB!Init, CbForms, CB!NoForm, CbAwbs, CbKilos, CbCosts
<1>4. CbCard
  BY CbNothing DEF CbCard, CB!Init, CB!Loading, CB!NotReading
<1>5. CbCurrent
  BY <1>4, CbNothing DEF CbCurrent, CB!Init, CB!Loading, CB!NotReading, CbCard, CbConstants, CbBillings
<1> QED BY <1>1, <1>2, <1>3, <1>4, <1>5 DEF CbInv

LEMMA CbOthersStep ==
    ASSUME CbConstants, CbInv, CB!OthersAct PROVE CbInv'
<1>1. CbPaid(parcel)'
  BY CbOthers
<1>2. loose' = TRUE /\ UNCHANGED <<open, state, fetch, editing, form, chargeAmount, save, charge, late>>
  BY DEF CB!OthersAct, CB!cardVars, CB!readVars, CB!formVars, CB!flightVars
<1>3. CbSave' /\ CbCharged(charge)' /\ CbCharged(late)' /\ CbForm'
  BY <1>2 DEF CbInv, CbSave, CbCharged, CbAsked, CbServed, CbForm
<1>4. CbCard' /\ CbCurrent'
  BY <1>2 DEF CbInv, CbCard, CbCurrent
<1> QED BY <1>1, <1>3, <1>4 DEF CbInv

\* The forms and the page around the card move no request and nothing that is shown.
LEMMA CbTypes ==
    ASSUME CbConstants, CbInv,
           \/ CB!PageRead \/ CB!Edit \/ CB!TypeForm \/ CB!CancelEdit \/ CB!OpenAddCharge \/ CB!TypePrice \/ CB!CancelPrice
    PROVE  CbInv'
<1>1. UNCHANGED <<parcel, open, state, fetch, save, charge, late, loose>> /\ (save.at # "idle" /\ editing => editing')
  BY DEF CB!PageRead, CB!Edit, CB!TypeForm, CB!CancelEdit, CB!OpenAddCharge, CB!TypePrice, CB!CancelPrice, CB!serverVars, CB!cardVars,
     CB!readVars, CB!formVars, CB!flightVars, CB!Free
<1>2. CbForm'
  <2>1. state.kind = "ready" => state.billing \in CbReads
    BY DEF CbInv, CbCard
  <2>2. CASE CB!Edit
    BY <2>1, <2>2 DEF CbInv, CbForm, CB!Edit, CB!EditShown, CB!Ready, CbReads, CbBillings, CbForms
  <2>3. CASE CB!OpenAddCharge
    <3>1. \A b \in CbReads : CB!FirstPrice(b) \in CbMoney \cup {None}
      BY DEF CB!FirstPrice, CbReads, CbBillings, CbConstants
    <3> QED BY <2>1, <2>3, <3>1 DEF CbInv, CbForm, CB!OpenAddCharge, CB!AddChargeShown, CB!Ready
  <2>4. CASE CB!TypeForm
    BY <2>4 DEF CbInv, CbForm, CB!TypeForm, CbForms, CbAwbs, CbKilos, CbCosts
  <2>5. CASE CB!TypePrice
    BY <2>5 DEF CbInv, CbForm, CB!TypePrice, CbConstants
  <2>6. CASE CB!CancelEdit
    BY <2>6 DEF CbInv, CbForm, CB!CancelEdit, CB!NoForm, CbForms, CbAwbs, CbKilos, CbCosts
  <2>7. CASE CB!PageRead \/ CB!CancelPrice
    BY <2>7 DEF CbInv, CbForm, CB!PageRead, CB!CancelPrice, CB!formVars
  <2> QED BY <2>2, <2>3, <2>4, <2>5, <2>6, <2>7
<1>3. CbPaid(parcel)'
  BY <1>1 DEF CbInv, CbPaid, CB!TotalCost, CB!Engine
<1>4. CbSave' /\ CbCharged(charge)' /\ CbCharged(late)'
  BY <1>1 DEF CbInv, CbSave, CbCharged, CbAsked, CbServed
<1>5. CbCard'
  BY <1>1 DEF CbInv, CbCard
<1>6. CbCurrent'
  BY <1>1, CbSameRead DEF CbInv, CbCurrent
<1> QED BY <1>2, <1>3, <1>4, <1>5, <1>6 DEF CbInv

LEMMA CbSame ==
    ASSUME CbInv, UNCHANGED <<parcel, save, charge, late, form, chargeAmount>>
    PROVE  CbPaid(parcel)' /\ CbSave' /\ CbCharged(charge)' /\ CbCharged(late)' /\ CbForm'
<1>1. CbPaid(parcel)'
  BY DEF CbInv, CbPaid, CB!TotalCost, CB!Engine
<1> QED BY <1>1 DEF CbInv, CbSave, CbCharged, CbAsked, CbServed, CbForm

LEMMA CbOpen ==
    ASSUME CbConstants, CbInv, CB!Open \/ CB!Retry PROVE CbInv'
<1>1. /\ UNCHANGED <<parcel, save, charge, late, form, chargeAmount, editing, loose>> /\ open' = TRUE
      /\ state' = CB!Loading /\ fetch' = [CB!NotReading EXCEPT !.at = "going"] /\ state.kind # "ready"
  BY DEF CbInv, CbCard, CB!Open, CB!Retry, CB!serverVars, CB!cardVars, CB!readVars, CB!formVars, CB!flightVars, CB!Loading
<1>2. CbCard'
  BY <1>1 DEF CbInv, CbCard, CB!Loading, CB!NotReading
<1>3. CbCurrent'
  BY <1>1, CbSameRead DEF CbInv, CbCard, CbCurrent, CB!Loading, CB!NotReading
<1> QED BY <1>1, <1>2, <1>3, CbSame DEF CbInv

LEMMA CbClose ==
    ASSUME CbConstants, CbInv, CB!Close PROVE CbInv'
<1>1. /\ UNCHANGED <<parcel, save, loose>> /\ open' = FALSE /\ state' = CB!Loading /\ fetch' = CB!NotReading /\ save.at = "idle"
      /\ form' = CB!NoForm /\ chargeAmount' = None /\ late' = charge /\ charge' = CB!NotCharging
  BY DEF CB!Close, CB!serverVars, CB!Free
<1>2. CbPaid(parcel)' /\ CbSave'
  BY <1>1 DEF CbInv, CbPaid, CB!TotalCost, CB!Engine, CbSave
<1>3. CbCharged(charge)'
  BY <1>1, CbNothing DEF CbCharged, CbAsked, CbServed, CB!NotCharging
<1>4. CbCharged(late)'
  BY <1>1 DEF CbInv, CbCharged, CbAsked, CbServed
<1>5. CbForm'
  BY <1>1 DEF CbForm, CbForms, CB!NoForm, CbAwbs, CbKilos, CbCosts
<1>6. CbCard' /\ CbCurrent'
  BY <1>1, CbNothing DEF CbInv, CbCard, CbCurrent, CB!Loading, CB!NotReading
<1> QED BY <1>2, <1>3, <1>4, <1>5, <1>6 DEF CbInv

LEMMA CbFetch ==
    ASSUME CbConstants, CbInv, NEW r \in BOOLEAN, CB!ServeFetch(r) PROVE CbInv'
<1>1. /\ UNCHANGED <<parcel, save, charge, late, form, chargeAmount, open, state, editing>> /\ fetch.at = "going"
      /\ state.kind # "ready" /\ save.at = "idle" /\ charge.at = "idle" /\ open
  BY DEF CbInv, CbCard, CB!ServeFetch, CB!serverVars, CB!cardVars, CB!formVars, CB!flightVars
<1>2. charge.seen = None
  BY <1>1, CbNothing DEF CbInv, CbCharged
<1>3. CbCard' /\ CbCurrent'
  <2>1. CASE r
    <3> DEFINE b == CB!BuildCarrierBillingRead(parcel)
    <3>1. b \in CbReads /\ b # None
      BY CbRead DEF CbInv, CbPaid, CbReads, CbConstants
    <3>2. b' = b
      BY <1>1, CbSameRead
    <3>3. fetch' = [at |-> "read", seen |-> b] /\ loose' \in BOOLEAN
      BY <2>1 DEF CB!ServeFetch
    <3> HIDE DEF b
    <3>4. CbCard'
      BY <1>1, <3>1, <3>3 DEF CbInv, CbCard
    <3>5. CbCurrent'
      BY <1>1, <1>2, <3>2, <3>3 DEF CbCurrent, b
    <3> QED BY <3>4, <3>5
  <2>2. CASE ~r
    <3>1. fetch' = [fetch EXCEPT !.at = "failed"] /\ loose' = loose
      BY <2>2 DEF CB!ServeFetch
    <3>2. fetch'.at = "failed" /\ fetch'.seen = fetch.seen
      BY <3>1 DEF CbInv, CbCard
    <3> QED BY <1>1, <1>2, <3>1, <3>2 DEF CbInv, CbCard, CbCurrent
  <2> QED BY <2>1, <2>2
<1> QED BY <1>1, <1>3, CbSame DEF CbInv

LEMMA CbFetched ==
    ASSUME CbConstants, CbInv, CB!FetchAnswered PROVE CbInv'
<1>1. /\ UNCHANGED <<parcel, save, charge, late, form, chargeAmount, open, editing, loose>> /\ fetch.at \in {"read", "failed"}
      /\ fetch' = CB!NotReading /\ open /\ save.at = "idle" /\ charge.at = "idle"
      /\ state' = IF fetch.at = "read" THEN [kind |-> "ready", billing |-> fetch.seen] ELSE [CB!Loading EXCEPT !.kind = "error"]
  BY DEF CbInv, CbCard, CB!FetchAnswered, CB!serverVars, CB!cardVars, CB!formVars, CB!flightVars
<1>2. charge.seen = None
  BY <1>1, CbNothing DEF CbInv, CbCharged
<1>3. CbCard'
  BY <1>1 DEF CbInv, CbCard, CB!Loading, CB!NotReading
<1>4. CbCurrent'
  BY <1>1, <1>2, CbSameRead DEF CbInv, CbCard, CbCurrent, CB!Loading, CB!NotReading
<1> QED BY <1>1, <1>3, <1>4, CbSame DEF CbInv

LEMMA CbSubmit ==
    ASSUME CbConstants, CbInv, CB!Submit PROVE CbInv'
<1>1. /\ UNCHANGED <<parcel, open, state, fetch, editing, form, chargeAmount, charge, late>> /\ state.kind = "ready" /\ editing
      /\ save' = [CB!NotSaving EXCEPT !.at = "going", !.body = form] /\ loose' = (loose \/ ~CB!Free(charge)) /\ save.at = "idle"
      /\ form.awb # None /\ open
  BY DEF CB!Submit, CB!serverVars, CB!cardVars, CB!readVars, CB!formVars, CB!FormShown, CB!Ready, CB!Free, CB!BookingRules
<1>2. save' = [at |-> "going", body |-> form, seen |-> None]
  BY <1>1 DEF CB!NotSaving
<1>3. CbPaid(parcel)' /\ CbCharged(charge)' /\ CbCharged(late)' /\ CbForm'
  BY <1>1 DEF CbInv, CbPaid, CB!TotalCost, CB!Engine, CbCharged, CbAsked, CbServed, CbForm
<1>4. CbSave'
  BY <1>1, <1>2 DEF CbInv, CbForm, CbSave, CbSaves, CbSteps
<1>5. CbCard'
  BY <1>1, <1>2 DEF CbInv, CbCard
<1>6. CbCurrent'
  BY <1>1, <1>2, CbSameRead DEF CbInv, CbCurrent, CB!Free
<1> QED BY <1>3, <1>4, <1>5, <1>6 DEF CbInv

LEMMA CbPress ==
    ASSUME CbConstants, CbInv, CB!HandleRecoverGap \/ CB!HandleSubmitAdminCharge PROVE CbInv'
<1>1. PICK way \in {"recover", "price"}, amount \in {CB!Recoverable(state.billing), chargeAmount} :
          /\ charge' = [CB!NotCharging EXCEPT !.at = "going", !.kind = way, !.amount = amount, !.on = state.billing]
          /\ charge.at = "idle"
          /\ way = "recover" => amount = CB!Recoverable(state.billing) /\ CB!HasGap(state.billing)
          /\ way = "price" => amount = chargeAmount /\ chargeAmount # None /\ chargeAmount > 0
  BY DEF CB!HandleRecoverGap, CB!HandleSubmitAdminCharge, CB!Press, CB!Free, CB!RecoverShown, CB!ValidPrice
<1>2. /\ UNCHANGED <<parcel, open, state, fetch, editing, form, chargeAmount, save, late, loose>> /\ state.kind = "ready" /\ ~editing /\ open
  BY DEF CB!HandleRecoverGap, CB!HandleSubmitAdminCharge, CB!Press, CB!RecoverShown, CB!PriceShown, CB!Ready, CB!serverVars, CB!cardVars,
     CB!readVars, CB!formVars
<1>3. charge' = [at |-> "going", kind |-> way, amount |-> amount, on |-> state.billing, seen |-> None, there |-> None]
  BY <1>1 DEF CB!NotCharging
<1>4. state.billing \in CbReads
  BY <1>2 DEF CbInv, CbCard
<1>5. amount \in CbMoney /\ amount > 0
  <2>1. CASE way = "recover"
    <3>1. amount = state.billing.gross /\ CB!HasGap(state.billing)
      BY <1>1, <2>1 DEF CB!Recoverable
    <3>2. amount \in CbMoney \cup {None} /\ amount > 0 /\ amount = state.billing.amount - state.billing.billed /\ state.billing.billed \in CbMoney
          /\ state.billing.amount \in CbMoney
      BY <1>4, <3>1 DEF CbReads, CbBillings, CbConstants
    <3> QED BY <3>2, CbSum
  <2>2. CASE way = "price"
    BY <1>1, <2>2 DEF CbInv, CbForm
  <2> QED BY <2>1, <2>2
<1>6. CbCharged(charge)'
  <2>1. /\ charge'.at = "going" /\ charge'.kind = way /\ charge'.amount = amount /\ charge'.on = state.billing
        /\ charge'.seen = None /\ charge'.there = None
    BY <1>3
  <2>2. charge' \in CbCharges
    BY <1>3, <1>4, <1>5 DEF CbCharges, CbSteps
  <2>3. CbAsked(charge)'
    BY <1>1, <1>4, <1>5, <2>1 DEF CbAsked, CB!Recoverable, CbConstants
  <2> QED BY <2>1, <2>2, <2>3 DEF CbCharged
<1>7. CbPaid(parcel)' /\ CbSave' /\ CbCharged(late)' /\ CbForm'
  BY <1>2 DEF CbInv, CbPaid, CB!TotalCost, CB!Engine, CbSave, CbCharged, CbAsked, CbServed, CbForm
<1>8. CbCard'
  BY <1>2, <1>3 DEF CbInv, CbCard
<1>9. CbCurrent'
  <2>1. SUFFICES ASSUME ~loose PROVE CbCurrent'
    BY <1>2 DEF CbCurrent
  <2>2. save.at = "idle" /\ state.billing = CB!BuildCarrierBillingRead(parcel) /\ fetch.at # "read"
    BY <1>1, <1>2, <2>1 DEF CbInv, CbCurrent, CbCard
  <2>3. charge'.at = "going" /\ charge'.on = state.billing /\ charge'.seen = None
    BY <1>3
  <2> QED BY <1>2, <2>2, <2>3, CbSameRead DEF CbCurrent
<1> QED BY <1>6, <1>7, <1>8, <1>9 DEF CbInv

LEMMA CbServeSave ==
    ASSUME CbConstants, CbInv, NEW r \in BOOLEAN, NEW a \in BOOLEAN, CB!ServeSave(r, a) PROVE CbInv'
<1>1. /\ UNCHANGED <<open, state, fetch, editing, form, chargeAmount, charge, late>> /\ save.at = "going"
      /\ save.body \in CbForms /\ save.body.awb # None /\ state.kind = "ready" /\ open /\ save \in CbSaves
  BY DEF CbInv, CbSave, CbCard, CB!ServeSave, CB!cardVars, CB!readVars, CB!formVars, CB!Loading
<1>2. CbCharged(charge)' /\ CbCharged(late)' /\ CbForm'
  BY <1>1 DEF CbInv, CbCharged, CbAsked, CbServed, CbForm
<1>3. CASE r /\ ~CB!SaveRefused(parcel, save.body)
  <2> DEFINE p == CB!UpdateCarrierBilling(parcel, save.body)
             b == CB!BuildCarrierBillingRead(p)
  <2>1. /\ parcel' = p /\ loose' = (loose \/ ~a)
        /\ save' = IF a THEN [save EXCEPT !.at = "answered", !.seen = b] ELSE [save EXCEPT !.at = "failed"]
    BY <1>3 DEF CB!ServeSave
  <2>2. CbPaid(p) /\ p \in CbRows
    <3>1. save.body.awb \in {"mine", "theirs"} /\ ~(parcel.cancelled /\ CB!NewWeight(parcel, save.body))
      BY <1>1, <1>3 DEF CB!SaveRefused, CbForms, CbAwbs
    <3> QED BY <1>1, <3>1, CbUpdated DEF CbInv, CbPaid
  <2>3. b \in CbReads /\ b # None
    BY <2>2, CbRead DEF CbReads, CbConstants
  <2>4. CB!BuildCarrierBillingRead(parcel)' = b
    BY <2>1, CbNextRead
  <2> HIDE DEF b
  <2>5. CbPaid(parcel)'
    <3> HIDE DEF p
    <3> QED BY <2>1, <2>2 DEF CbPaid, CB!TotalCost, CB!Engine
  <2>6. save'.at = (IF a THEN "answered" ELSE "failed") /\ save'.body = save.body /\ (a => save'.seen = b) /\ save' \in CbSaves
    BY <1>1, <2>1, <2>3 DEF CbSaves, CbSteps
  <2>7. CbSave'
    BY <1>1, <2>3, <2>6 DEF CbSave
  <2>8. CbCard'
    BY <1>1, <2>1, <2>6 DEF CbInv, CbCard
  <2>9. CbCurrent'
    <3>1. SUFFICES ASSUME ~loose, a PROVE CbCurrent'
      BY <2>1 DEF CbCurrent
    <3>2. charge.at = "idle" /\ editing /\ fetch.at = "idle" /\ charge.seen = None
      BY <1>1, <3>1, CbNothing DEF CbInv, CbCurrent, CbCard, CbCharged
    <3> QED BY <1>1, <2>4, <2>6, <3>1, <3>2 DEF CbCurrent
  <2> QED BY <1>2, <2>5, <2>7, <2>8, <2>9 DEF CbInv
<1>4. CASE ~(r /\ ~CB!SaveRefused(parcel, save.body))
  <2>1. parcel' = parcel /\ loose' = loose /\ save' = [save EXCEPT !.at = "failed"]
    BY <1>4 DEF CB!ServeSave
  <2>2. save'.at = "failed" /\ save'.body = save.body /\ save' \in CbSaves
    BY <1>1, <2>1 DEF CbSaves, CbSteps
  <2>3. CbPaid(parcel)' /\ CbSave'
    BY <1>1, <2>1, <2>2 DEF CbInv, CbPaid, CB!TotalCost, CB!Engine, CbSave
  <2>4. CbCard'
    BY <1>1, <2>1, <2>2 DEF CbInv, CbCard
  <2>5. CbCurrent'
    BY <1>1, <2>1, <2>2, CbSameRead DEF CbInv, CbCurrent
  <2> QED BY <1>2, <2>3, <2>4, <2>5 DEF CbInv
<1> QED BY <1>3, <1>4

\* What a charge that is served leaves is what it asked for.
LEMMA CbServeCharge ==
    ASSUME CbConstants, CbInv, NEW r \in BOOLEAN, NEW a \in BOOLEAN, CB!ServeCharge(r, a) PROVE CbInv'
<1>1. /\ UNCHANGED <<open, state, fetch, editing, form, chargeAmount, save, late>> /\ charge.at = "going"
      /\ charge \in CbCharges /\ CbAsked(charge) /\ charge.seen = None /\ state.kind = "ready" /\ open
  BY DEF CbInv, CbCharged, CbCard, CB!ServeCharge, CB!cardVars, CB!readVars, CB!formVars, CB!Loading
<1>2. CbSave' /\ CbCharged(late)' /\ CbForm'
  BY <1>1 DEF CbInv, CbCharged, CbAsked, CbServed, CbForm, CbSave
<1>3. CASE r /\ ~parcel.cancelled
  <2> DEFINE p == CB!AdminCharge(parcel, charge)
             b == CB!BuildCarrierBillingRead(p)
             o == CB!BuildCarrierBillingRead(parcel)
             at == IF a THEN "answered" ELSE "failed"
  <2>1. parcel' = p /\ loose' = (loose \/ ~a) /\ charge' = [charge EXCEPT !.at = at, !.seen = b, !.there = o]
    BY <1>3 DEF CB!ServeCharge, CB!Served
  <2>2. CbPaid(parcel) /\ parcel \in CbRows /\ charge.amount \in CbMoney /\ charge.amount > 0
    BY <1>1 DEF CbInv, CbPaid, CbAsked
  <2>3. /\ CbPaid(p) /\ p \in CbRows
        /\ charge.kind = "price" => CB!TotalCost(p) = charge.amount
        /\ charge.kind # "price" => CB!TotalCost(p) = CB!TotalCost(parcel) + charge.amount /\ p.amount = parcel.amount
    BY <2>2, CbAdminCharge DEF CbPaid
  <2>4. b \in CbReads /\ b.billed = CB!TotalCost(p) /\ b.amount = p.amount /\ b # None
    <3> HIDE DEF p
    <3> QED BY <2>3, CbRead DEF CbReads, CbConstants
  <2>5. o \in CbReads /\ o.billed = CB!TotalCost(parcel) /\ o.amount = parcel.amount /\ o # None
    BY <2>2, CbRead DEF CbReads, CbConstants
  <2>6. CB!BuildCarrierBillingRead(parcel)' = b
    BY <2>1, CbNextRead
  <2>7. CbPaid(parcel)'
    <3> HIDE DEF p
    <3> QED BY <2>1, <2>3 DEF CbPaid, CB!TotalCost, CB!Engine
  <2>8. charge.kind = "recover" /\ charge.on = o => b.billed = b.amount
    <3> SUFFICES ASSUME charge.kind = "recover", charge.on = o PROVE b.billed = b.amount
      OBVIOUS
    <3>1. charge.amount = o.gross /\ CB!HasGap(o)
      BY <1>1 DEF CbAsked
    <3>2. o.gross = o.amount - o.billed /\ o.amount \in CbMoney /\ o.billed \in CbMoney
      BY <2>5, <3>1 DEF CbReads, CbBillings, CbConstants
    <3>3. b.billed = o.billed + charge.amount /\ b.amount = o.amount
      BY <2>3, <2>4, <2>5
    <3>4. o.amount \in Int /\ o.billed \in Int
      BY <3>2 DEF CbMoney
    <3> HIDE DEF b, o
    <3> QED BY <3>1, <3>2, <3>3, <3>4
  <2>9. at \in {"answered", "failed"} /\ (a <=> at = "answered")
    OBVIOUS
  <2> HIDE DEF at
  <2> DEFINE now == b
             then == o
  <2>10. now \in CbReads /\ then \in CbReads /\ now # None /\ charge' = [charge EXCEPT !.at = at, !.seen = now, !.there = then]
         /\ (charge.kind = "price" => now.billed = charge.amount)
         /\ (charge.kind = "recover" /\ charge.on = then => now.billed = now.amount)
         /\ then = CB!BuildCarrierBillingRead(parcel) /\ CB!BuildCarrierBillingRead(parcel)' = now
    BY <2>1, <2>3, <2>4, <2>5, <2>6, <2>8
  <2> HIDE DEF now, then
  <2>11. /\ charge'.at = at /\ charge'.seen = now /\ charge'.there = then /\ charge' \in CbCharges
         /\ charge'.kind = charge.kind /\ charge'.amount = charge.amount /\ charge'.on = charge.on
    BY <1>1, <2>9, <2>10 DEF CbCharges, CbSteps
  <2>12. CbCharged(charge)'
    BY <1>1, <2>9, <2>10, <2>11 DEF CbCharged, CbAsked, CbServed
  <2>13. CbCard'
    BY <1>1, <2>1, <2>9, <2>11 DEF CbInv, CbCard
  <2>14. CbCurrent'
    <3>1. SUFFICES ASSUME ~loose, a PROVE CbCurrent'
      BY <2>1 DEF CbCurrent
    <3>2. save.at = "idle" /\ fetch.at = "idle" /\ charge.on = then
      BY <1>1, <2>10, <3>1 DEF CbInv, CbSave, CbSaves, CbSteps, CbCurrent, CbCard
    <3>3. charge.kind = "recover" => then.gross = charge.amount
      BY <1>1, <3>2 DEF CbAsked
    <3> QED BY <1>1, <2>9, <2>10, <2>11, <3>1, <3>2, <3>3 DEF CbCurrent
  <2> QED BY <1>2, <2>7, <2>12, <2>13, <2>14 DEF CbInv
<1>4. CASE ~(r /\ ~parcel.cancelled)
  <2>1. parcel' = parcel /\ loose' = loose /\ charge' = [charge EXCEPT !.at = "failed"]
    BY <1>4 DEF CB!ServeCharge
  <2>2. /\ charge'.at = "failed" /\ charge' \in CbCharges /\ charge'.seen = None
        /\ charge'.kind = charge.kind /\ charge'.amount = charge.amount /\ charge'.on = charge.on
    BY <1>1, <2>1 DEF CbCharges, CbSteps
  <2>3. CbPaid(parcel)' /\ CbCharged(charge)'
    BY <1>1, <2>1, <2>2 DEF CbInv, CbPaid, CB!TotalCost, CB!Engine, CbCharged, CbAsked
  <2>4. CbCard'
    BY <1>1, <2>1, <2>2 DEF CbInv, CbCard
  <2>5. CbCurrent'
    BY <1>1, <2>1, <2>2, CbSameRead DEF CbInv, CbCurrent
  <2> QED BY <1>2, <2>3, <2>4, <2>5 DEF CbInv
<1> QED BY <1>3, <1>4

LEMMA CbServeLate ==
    ASSUME CbConstants, CbInv, (\E r \in BOOLEAN : CB!ServeLate(r)) \/ CB!LateAnswered PROVE CbInv'
<1>1. /\ UNCHANGED <<open, state, fetch, editing, form, chargeAmount, save, charge>> /\ late' = CB!NotCharging /\ late.at # "idle"
      /\ \/ parcel' = parcel /\ loose' = loose
         \/ parcel' = CB!AdminCharge(parcel, late) /\ loose' = TRUE
  BY DEF CB!ServeLate, CB!LateAnswered, CB!serverVars, CB!cardVars, CB!readVars, CB!formVars
<1>2. CbPaid(parcel)'
  <2> DEFINE p == CB!AdminCharge(parcel, late)
  <2>1. CbPaid(parcel) /\ CbAsked(late)
    BY <1>1 DEF CbInv, CbCharged
  <2>2. CbPaid(p)
    BY <2>1, CbAdminCharge DEF CbAsked
  <2> HIDE DEF p
  <2>3. parcel' \in {parcel, p}
    BY <1>1 DEF p
  <2> QED BY <2>1, <2>2, <2>3 DEF CbPaid, CB!TotalCost, CB!Engine
<1>3. CbCharged(late)'
  BY <1>1, CbNothing DEF CbCharged, CbAsked, CbServed, CB!NotCharging
<1>4. CbSave' /\ CbCharged(charge)' /\ CbForm'
  BY <1>1 DEF CbInv, CbCharged, CbAsked, CbServed, CbForm, CbSave
<1>5. CbCard'
  BY <1>1 DEF CbInv, CbCard
<1>6. CbCurrent'
  <2>1. CASE parcel' = parcel /\ loose' = loose
    BY <1>1, <2>1, CbSameRead DEF CbInv, CbCurrent
  <2>2. CASE loose' = TRUE
    BY <2>2 DEF CbCurrent
  <2> QED BY <1>1, <2>1, <2>2
<1> QED BY <1>2, <1>3, <1>4, <1>5, <1>6 DEF CbInv

LEMMA CbSaveEnds ==
    ASSUME CbConstants, CbInv, CB!SaveAnswered \/ CB!SaveFailed PROVE CbInv'
<1>1. /\ UNCHANGED <<parcel, open, fetch, chargeAmount, charge, late, loose>> /\ save' = CB!NotSaving /\ open /\ state.kind = "ready"
      /\ fetch.at = "idle"
      /\ \/ /\ save.at = "answered" /\ state' = [kind |-> "ready", billing |-> save.seen] /\ form' = CB!NoForm
         \/ save.at = "failed" /\ UNCHANGED <<state, form>>
  BY DEF CbInv, CbCard, CbSave, CbSaves, CbSteps, CB!Loading, CB!SaveAnswered, CB!SaveFailed, CB!HandleSaved, CB!SetSaved, CB!TakesTheAnswer,
     CB!FormOnFailure, CB!FormStays, CB!serverVars, CB!cardVars, CB!readVars
<1>2. CbPaid(parcel)' /\ CbCharged(charge)' /\ CbCharged(late)' /\ CbSave'
  BY <1>1, CbNothing DEF CbInv, CbPaid, CB!TotalCost, CB!Engine, CbCharged, CbAsked, CbServed, CbSave
<1>3. CbForm'
  BY <1>1 DEF CbInv, CbForm, CbForms, CB!NoForm, CbAwbs, CbKilos, CbCosts
<1>4. save.at = "answered" => save.seen \in CbReads /\ save.seen # None
  BY DEF CbInv, CbSave, CbReads, CbConstants
<1>5. CbCard'
  BY <1>1, <1>4, CbNothing DEF CbInv, CbCard
<1>6. CbCurrent'
  BY <1>1, CbNothing, CbSameRead DEF CbInv, CbCurrent
<1> QED BY <1>2, <1>3, <1>5, <1>6 DEF CbInv

LEMMA CbChargeEnds ==
    ASSUME CbConstants, CbInv, CB!ChargeAnswered \/ CB!ChargeFailed PROVE CbInv'
<1>1. /\ UNCHANGED <<parcel, open, fetch, save, late, loose>> /\ charge' = CB!NotCharging /\ open /\ state.kind = "ready"
      /\ fetch.at = "idle" /\ chargeAmount' \in {chargeAmount, None}
      /\ \/ charge.at = "answered" /\ state' = [kind |-> "ready", billing |-> charge.seen] /\ form' = CB!NoForm
         \/ charge.at = "failed" /\ UNCHANGED <<state, form, editing>>
  BY DEF CbInv, CbCard, CB!Loading, CB!ChargeAnswered, CB!ChargeFailed, CB!HandleSaved, CB!SetSaved, CB!TakesTheAnswer,
     CB!serverVars, CB!cardVars, CB!readVars, CB!formVars
<1>2. CbPaid(parcel)' /\ CbCharged(late)' /\ CbSave'
  BY <1>1 DEF CbInv, CbPaid, CB!TotalCost, CB!Engine, CbCharged, CbAsked, CbServed, CbSave
<1>3. CbCharged(charge)'
  BY <1>1, CbNothing DEF CbCharged, CbAsked, CbServed, CB!NotCharging
<1>4. CbForm'
  BY <1>1 DEF CbInv, CbForm, CbForms, CB!NoForm, CbAwbs, CbKilos, CbCosts
<1>5. charge.at = "answered" => charge.seen \in CbReads /\ charge.seen # None
  BY DEF CbInv, CbCharged, CbServed
<1>6. CbCard'
  BY <1>1, <1>5, CbNothing DEF CbInv, CbCard
<1>7. CbCurrent'
  BY <1>1, CbNothing, CbSameRead DEF CbInv, CbCurrent
<1> QED BY <1>2, <1>3, <1>4, <1>6, <1>7 DEF CbInv

LEMMA CbStep == CbConstants /\ CbInv /\ [CB!Next]_(CB!vars) => CbInv'
<1> SUFFICES ASSUME CbConstants, CbInv, [CB!Next]_(CB!vars) PROVE CbInv'
  OBVIOUS
<1>1. CASE UNCHANGED CB!vars
  <2>1. UNCHANGED <<parcel, open, state, fetch, editing, form, chargeAmount, save, charge, late, loose>>
    BY <1>1 DEF CB!vars
  <2>2. CbCard' /\ CbCurrent'
    BY <2>1, CbSameRead DEF CbInv, CbCard, CbCurrent
  <2> QED BY <2>1, <2>2, CbSame DEF CbInv
<1> QED BY <1>1, CbOthersStep, CbTypes, CbOpen, CbClose, CbFetch, CbFetched, CbSubmit, CbPress, CbServeSave, CbServeCharge, CbServeLate,
       CbSaveEnds, CbChargeEnds DEF CB!Next

-----------------------------------------------------------------------------

\* At rest the card shows the booking as it is, unless somebody came between; a price that was set is the bill, a gap
\* recovered on what was there leaves none and is charged once; and the wallet has paid what is owed of the bill
\* (components/carrier, services/pricing/carrier_billing.py).
THEOREM BilledAsShown ==
    ASSUME CbConstants
    PROVE  CB!Init /\ [][CB!Next]_(CB!vars) => [](CB!TypeOK /\ CB!OncePerIntent /\ CB!ActedAsShown)
<1>1. CB!Init => CbInv
  BY CbInit
<1>2. CbInv /\ [CB!Next]_(CB!vars) => CbInv'
  BY CbStep
<1>3. CbInv => CB!TypeOK /\ CB!OncePerIntent /\ CB!ActedAsShown
  <2> SUFFICES ASSUME CbInv PROVE CB!TypeOK /\ CB!OncePerIntent /\ CB!ActedAsShown
    OBVIOUS
  <2>1. CB!TypeOK
    <3>1. parcel \in CbRows /\ parcel.extras \in CbMoney /\ parcel.override \in CbMoney /\ parcel.extras >= 0
      BY DEF CbInv, CbPaid, CbRows
    <3>2. parcel.extras \in Nat /\ parcel.override \in Int
      BY <3>1 DEF CbMoney
    <3>3. chargeAmount \in Int \cup {None} /\ form.awb \in {None, "mine", "theirs", "taken"}
      BY DEF CbInv, CbForm, CbMoney, CbForms, CbAwbs
    <3>4. {charge.at, late.at} \subseteq {"idle", "going", "answered", "failed"} /\ save.at \in {"idle", "going", "answered", "failed"}
      BY DEF CbInv, CbCharged, CbCharges, CbSave, CbSaves, CbSteps
    <3>5. fetch.at \in {"idle", "going", "read", "failed"} /\ state.kind \in {"loading", "ready", "error"} /\ loose \in BOOLEAN
          /\ (state.kind = "ready" <=> state.billing # None)
      BY DEF CbInv, CbCard
    <3>6. /\ parcel.paid \in Nat /\ parcel.cancelled \in BOOLEAN /\ parcel.amount \in Amounts \cup {None}
          /\ parcel.kg \in Weights \cup {None} /\ parcel.weighed.kg \in Weights \cup {None}
      BY <3>1 DEF CbRows, CbCosts, CbKilos
    <3> QED BY <3>2, <3>3, <3>4, <3>5, <3>6 DEF CB!TypeOK
  <2>2. CB!OncePerIntent
    BY DEF CbInv, CbCurrent, CB!OncePerIntent
  <2>3. charge.seen # None => CbServed(charge)
    BY DEF CbInv, CbCharged
  <2>4. CB!Shown # None /\ ~loose /\ ~CB!UnderWay(save) /\ ~CB!UnderWay(charge) => CB!Shown = CB!BuildCarrierBillingRead(parcel)
    BY DEF CbInv, CbCurrent, CB!Shown, CB!Ready, CB!UnderWay
  <2>5. ~parcel.cancelled => parcel.paid = CB!Owed(CB!TotalCost(parcel))
    BY DEF CbInv, CbPaid
  <2>6. CB!ActedAsShown
    BY <2>3, <2>4, <2>5 DEF CB!ActedAsShown, CbServed
  <2> QED BY <2>1, <2>2, <2>6
<1> QED BY <1>1, <1>2, <1>3, PTL

\* A request that failed leaves both forms alone, as long as the dialog is open.
THEOREM BillingTypingKept == CB!Init /\ [][CB!Next]_(CB!vars) => [][CB!KeepsTyping]_(CB!vars)
<1>1. [CB!Next]_(CB!vars) => [CB!KeepsTyping]_(CB!vars)
  <2> SUFFICES ASSUME CB!Next, open', \/ save.at = "failed" /\ save' = CB!NotSaving
                                      \/ charge.at = "failed" /\ charge' = CB!NotCharging
               PROVE  UNCHANGED <<editing, form, addingCharge, chargeAmount>>
    BY DEF CB!KeepsTyping
  <2>1. CB!NotSaving.at = "idle" /\ CB!NotCharging.at = "idle"
    BY DEF CB!NotSaving, CB!NotCharging
  <2>2. CB!SaveFailed \/ CB!ChargeFailed
    BY <2>1 DEF CB!Next, CB!OthersAct, CB!PageRead, CB!Open, CB!Close, CB!Retry, CB!FetchAnswered, CB!ServeFetch, CB!Edit, CB!TypeForm,
       CB!CancelEdit, CB!Submit, CB!OpenAddCharge, CB!TypePrice, CB!CancelPrice, CB!HandleRecoverGap, CB!HandleSubmitAdminCharge, CB!Press,
       CB!ServeSave, CB!ServeCharge, CB!ServeLate, CB!LateAnswered, CB!SaveAnswered, CB!ChargeAnswered, CB!flightVars, CB!Free
  <2> QED BY <2>2 DEF CB!SaveFailed, CB!ChargeFailed, CB!FormOnFailure, CB!FormStays, CB!formVars
<1> QED BY <1>1, PTL

-----------------------------------------------------------------------------
(* The board of the operations page: a parcel keeps the OTP it was given and *)
(* cash that was remitted was of a delivered parcel, so what a row says of    *)
(* either, however old, is still so; a pickup that ended stays as it ended.   *)

CONSTANTS SeesOtp, Uses, MaxMoves, MaxReads, MaxTaps
VARIABLES pickup, reading, reads, lists, tab, chip, filter, search, tile, message, selected, dialog, flight,
    moves, taps
OB == INSTANCE OpsBoard

\* The bounds are numbers, and no tile or status is none.
ObConstants == MaxMoves \in Nat /\ MaxReads \in Nat /\ MaxTaps \in Nat /\ None \notin OB!Tiles \cup OB!Statuses

\* What a row of a parcel, and the card of a pickup, says at any time.
ObRowFits(r) == r.status \in OB!Statuses /\ (r.remit = "REMITTED" => r.status = "COMPLETED")
ObRead(r) == ObRowFits(r) /\ r.status \in OB!Active \cup OB!Done /\ (r.otp # None => r.otp = parcel.otp)
ObCardFits(m) ==
    /\ m.status \in OB!PickupStatuses
    /\ m.reason # None => m.status = "NOT_PICKED"
    /\ m.picked # None => m.status = "PICKED"

ObParcels == [status : OB!Statuses, held : OB!Statuses \cup {OB!NoStatus}, pur : {"none", "open", "picked"},
              remit : {"NOT_APPLICABLE", "FAILED_RTO", "REMITTED"}, otp : Nat \cup {None}]

ObServer ==
    /\ kind \in Kinds /\ moves \in 0 .. MaxMoves
    /\ parcel \in ObParcels /\ ObRowFits(parcel)
    /\ pickup = [status |-> pickup.status, picked |-> pickup.picked, reason |-> pickup.reason] /\ ObCardFits(pickup)
ObReading ==
    /\ reads \in 0 .. MaxReads
    /\ reading # None =>
           /\ reading = [left |-> reading.left, pickups |-> reading.pickups, rows |-> reading.rows]
           /\ \A m \in reading.pickups : ObCardFits(m)
           /\ \A r \in reading.rows : ObRead(r)
ObLists == (\A m \in OB!Shown.pickups : ObCardFits(m)) /\ \A r \in OB!Shown.rows : ObRead(r)
ObBoard ==
    /\ tab \in OB!Tabs /\ chip \in OB!Chips /\ filter \in OB!Filters /\ search \in [OB!Tabs -> OB!Searches]
    /\ selected \in BOOLEAN /\ taps \in 0 .. MaxTaps
    /\ tile = "exceptions" => chip = "EXCEPTION"
ObInv == ObServer /\ ObReading /\ ObLists /\ ObBoard /\ OB!MessageFits

LEMMA ObInit == ObConstants /\ OB!Init => ObInv
<1> SUFFICES ASSUME ObConstants, OB!Init PROVE ObInv
  OBVIOUS
<1>0. /\ kind \in Kinds /\ moves = 0 /\ reads = 0 /\ taps = 0 /\ reading = None /\ lists = None /\ message = None /\ selected = FALSE
      /\ parcel = [status |-> "ASSIGNED", held |-> OB!NoStatus, pur |-> "open", remit |-> "NOT_APPLICABLE", otp |-> None]
      /\ pickup = [status |-> "SCHEDULED", picked |-> None, reason |-> None]
      /\ tab = "pickups" /\ chip = "ACTIVE" /\ filter = "ACTIVE" /\ search = [t \in OB!Tabs |-> ""] /\ tile = None
  BY DEF OB!Init
<1>1. MaxMoves \in Nat /\ MaxReads \in Nat /\ MaxTaps \in Nat /\ None \notin OB!Tiles
  BY DEF ObConstants
<1>2. 0 \in 0 .. MaxMoves /\ 0 \in 0 .. MaxReads /\ 0 \in 0 .. MaxTaps
  BY <1>1
<1>3. "ASSIGNED" \in OB!Statuses /\ "SCHEDULED" \in OB!PickupStatuses
  BY DEF OB!Statuses, OB!PrePickup, OB!PickupStatuses, OB!ToPickUp
<1>4. parcel \in ObParcels /\ ObRowFits(parcel)
  BY <1>0, <1>3 DEF ObParcels, ObRowFits
<1>5. pickup = [status |-> pickup.status, picked |-> pickup.picked, reason |-> pickup.reason] /\ ObCardFits(pickup)
  BY <1>0, <1>3 DEF ObCardFits
<1>6. ObServer
  BY <1>0, <1>2, <1>4, <1>5 DEF ObServer
<1>7. ObReading /\ ObLists
  BY <1>0, <1>2 DEF ObReading, ObLists, OB!Shown, OB!Nothing
<1>8. tile # "exceptions" /\ OB!MessageFits
  BY <1>0, <1>1 DEF OB!Tiles, OB!MessageFits
<1>9. search \in [OB!Tabs -> OB!Searches] /\ tab \in OB!Tabs /\ chip \in OB!Chips /\ filter \in OB!Filters
  BY <1>0 DEF OB!Tabs, OB!Chips, OB!Filters, OB!Searches
<1>10. ObBoard
  BY <1>0, <1>2, <1>8, <1>9 DEF ObBoard
<1> QED BY <1>6, <1>7, <1>8, <1>10 DEF ObInv

\* What is shown, read and prepared stays true while the parcel keeps the OTP it has.
LEMMA ObOtpKept ==
    ASSUME ObInv, parcel.otp # None => parcel'.otp = parcel.otp, kind' = kind,
           UNCHANGED <<reading, reads, lists, tab, chip, filter, search, tile, message, selected, taps>>
    PROVE  ObReading' /\ ObLists' /\ ObBoard' /\ OB!MessageFits'
<1>1. \A r : ObRead(r) => ObRead(r)'
  BY DEF ObRead, ObRowFits
<1>2. ObReading'
  BY <1>1 DEF ObInv, ObReading, ObCardFits
<1>3. ObLists'
  BY <1>1 DEF ObInv, ObLists, OB!Shown, OB!Nothing, ObCardFits
<1>4. ObBoard' /\ OB!MessageFits'
  BY DEF ObInv, ObBoard, OB!MessageFits
<1> QED BY <1>2, <1>3, <1>4

\* A move of the parcel keeps its OTP, and its cash is remitted only when it was delivered, which ends it.
LEMMA ObParcelMoves ==
    ASSUME ObServer, NEW to \in OB!Statuses
    PROVE  /\ LET r == OB!DispatchOtp(OB!Dispatched(parcel)) IN
                  r \in ObParcels /\ ObRowFits(r) /\ (parcel.otp # None => r.otp = parcel.otp)
           /\ OB!Freed \in ObParcels /\ ObRowFits(OB!Freed) /\ OB!Freed.otp = parcel.otp
           /\ OB!MoveAllowed(parcel, to) =>
                  LET r == OB!EnsureDeliveryOtp(OB!ReverseCodFee(OB!Moved(parcel, to))) IN
                  r \in ObParcels /\ ObRowFits(r) /\ (parcel.otp # None => r.otp = parcel.otp)
<1> DEFINE dispatched == OB!Dispatched(parcel)
           moved == OB!Moved(parcel, to)
           returned == OB!ReverseCodFee(moved)
<1>0. parcel \in ObParcels /\ ObRowFits(parcel) /\ moves + 1 \in Nat
  BY DEF ObServer
<1>1. dispatched \in ObParcels /\ ObRowFits(dispatched) /\ dispatched.otp = parcel.otp
  BY <1>0 DEF OB!Dispatched, ObParcels, ObRowFits, OB!Statuses, OB!PrePickup, OB!OnTheWay
<1>2. OB!Freed \in ObParcels /\ ObRowFits(OB!Freed) /\ OB!Freed.otp = parcel.otp
  <2>1. CASE parcel.pur = "open" /\ parcel.status = "ASSIGNED"
    <3>1. OB!Freed = [parcel EXCEPT !.status = "OPEN", !.pur = "none"]
      BY <2>1 DEF OB!Freed, OB!Unlinked
    <3>2. "OPEN" \in OB!Statuses
      BY DEF OB!Statuses, OB!PrePickup
    <3> QED BY <1>0, <2>1, <3>1, <3>2 DEF ObParcels, ObRowFits
  <2>2. CASE parcel.pur = "open" /\ parcel.status # "ASSIGNED"
    <3>1. OB!Freed = [parcel EXCEPT !.status = parcel.status, !.pur = "none"]
      BY <2>2 DEF OB!Freed, OB!Unlinked
    <3> QED BY <1>0, <3>1 DEF ObParcels, ObRowFits
  <2>3. CASE parcel.pur # "open"
    BY <1>0, <2>3 DEF OB!Freed
  <2> QED BY <2>1, <2>2, <2>3
<1>3. LET r == OB!DispatchOtp(dispatched) IN r \in ObParcels /\ ObRowFits(r) /\ (parcel.otp # None => r.otp = parcel.otp)
  <2> HIDE DEF dispatched
  <2> QED BY <1>0, <1>1 DEF OB!DispatchOtp, ObParcels, ObRowFits
<1>4. ASSUME OB!MoveAllowed(parcel, to)
      PROVE  LET r == OB!EnsureDeliveryOtp(returned) IN r \in ObParcels /\ ObRowFits(r) /\ (parcel.otp # None => r.otp = parcel.otp)
  <2>1. parcel.remit # "REMITTED"
    BY <1>0, <1>4 DEF OB!MoveAllowed, ObRowFits, OB!Terminal
  <2>2. moved \in ObParcels /\ moved.remit = parcel.remit /\ moved.otp = parcel.otp
    BY <1>0 DEF OB!Moved, ObParcels
  <2> HIDE DEF moved
  <2>3. returned \in ObParcels /\ returned.remit # "REMITTED" /\ returned.otp = parcel.otp
    BY <2>1, <2>2 DEF OB!ReverseCodFee, ObParcels
  <2> HIDE DEF returned
  <2> QED BY <1>0, <2>3 DEF OB!EnsureDeliveryOtp, ObParcels, ObRowFits
<1> QED BY <1>2, <1>3, <1>4

\* What other people and the server do.
LEMMA ObServed ==
    ASSUME ObConstants, ObInv,
           \/ OB!MarkOutForPickup \/ OB!DispatchPickup \/ OB!CancelPickup \/ OB!RemitCod \/ OB!ServeNotPicked
           \/ \E to \in OB!Statuses : OB!MoveParcel(to)
    PROVE  ObInv'
<1>0. ObServer /\ moves \in Nat /\ MaxMoves \in Nat
  BY DEF ObInv, ObServer, ObConstants
<1>1. ASSUME NEW moved, NEW pur, OB!Changed(moved, pur), moved \in ObParcels, ObRowFits(moved), parcel.otp # None => moved.otp = parcel.otp,
             pur = [status |-> pur.status, picked |-> pur.picked, reason |-> pur.reason], ObCardFits(pur)
      PROVE  ObInv'
  <2>1. ObServer'
    BY <1>0, <1>1 DEF OB!Changed, ObServer, ObRowFits, ObCardFits, ObParcels
  <2>2. ObReading' /\ ObLists' /\ ObBoard' /\ OB!MessageFits'
    BY <1>1, ObOtpKept DEF OB!Changed, OB!readVars, OB!boardVars
  <2> QED BY <2>1, <2>2 DEF ObInv
<1>2. CASE OB!MarkOutForPickup
  <2> DEFINE pur == [pickup EXCEPT !.status = "OUT_FOR_PICKUP"]
  <2>1. pur = [status |-> pur.status, picked |-> pur.picked, reason |-> pur.reason] /\ ObCardFits(pur)
    BY <1>0, <1>2 DEF OB!MarkOutForPickup, ObServer, ObCardFits, OB!PickupStatuses, OB!ToPickUp
  <2> QED BY <1>0, <1>1, <1>2, <2>1 DEF OB!MarkOutForPickup, ObServer
<1>3. CASE OB!DispatchPickup
  <2>1. PICK by \in {"otp", "override"} :
            OB!Changed(OB!DispatchOtp(OB!Dispatched(parcel)), [pickup EXCEPT !.status = "PICKED", !.picked = by])
    BY <1>3 DEF OB!DispatchPickup
  <2> DEFINE pur == [pickup EXCEPT !.status = "PICKED", !.picked = by]
  <2>2. pur = [status |-> "PICKED", picked |-> by, reason |-> pickup.reason] /\ pickup.reason = None
    <3>1. pickup.reason = None
      BY <1>0, <1>3 DEF OB!DispatchPickup, ObServer, ObCardFits, OB!ToPickUp
    <3>2. pickup = [status |-> pickup.status, picked |-> pickup.picked, reason |-> pickup.reason]
      BY <1>0 DEF ObServer
    <3>3. pur = [[pickup EXCEPT !.status = "PICKED"] EXCEPT !.picked = by]
      OBVIOUS
    <3>4. [pickup EXCEPT !.status = "PICKED"] = [status |-> "PICKED", picked |-> pickup.picked, reason |-> pickup.reason]
      BY <3>2
    <3>5. [[status |-> "PICKED", picked |-> pickup.picked, reason |-> pickup.reason] EXCEPT !.picked = by]
              = [status |-> "PICKED", picked |-> by, reason |-> pickup.reason]
      OBVIOUS
    <3>6. pur = [status |-> "PICKED", picked |-> by, reason |-> pickup.reason]
      BY <3>3, <3>4, <3>5, Zenon
    <3> QED BY <3>1, <3>6
  <2>4. pur = [status |-> pur.status, picked |-> pur.picked, reason |-> pur.reason] /\ ObCardFits(pur)
    <3> HIDE DEF pur
    <3> QED BY <2>2 DEF ObCardFits, OB!PickupStatuses
  <2>3. LET r == OB!DispatchOtp(OB!Dispatched(parcel)) IN r \in ObParcels /\ ObRowFits(r) /\ (parcel.otp # None => r.otp = parcel.otp)
    BY <1>0, ObParcelMoves DEF OB!Statuses, OB!PrePickup
  <2> QED BY <1>1, <2>1, <2>3, <2>4
<1>4. CASE OB!CancelPickup
  <2> DEFINE pur == [pickup EXCEPT !.status = "CANCELED"]
  <2>1. pur = [status |-> pur.status, picked |-> pur.picked, reason |-> pur.reason] /\ ObCardFits(pur)
    BY <1>0, <1>4 DEF OB!CancelPickup, ObServer, ObCardFits, OB!PickupStatuses, OB!ToPickUp
  <2>2. OB!Freed \in ObParcels /\ ObRowFits(OB!Freed) /\ OB!Freed.otp = parcel.otp
    BY <1>0, ObParcelMoves DEF OB!Statuses, OB!PrePickup
  <2> QED BY <1>1, <1>4, <2>1, <2>2 DEF OB!CancelPickup
<1>5. CASE OB!RemitCod
  <2> DEFINE remitted == [parcel EXCEPT !.remit = "REMITTED"]
  <2>1. remitted \in ObParcels /\ ObRowFits(remitted) /\ remitted.otp = parcel.otp
    BY <1>0, <1>5 DEF OB!RemitCod, ObServer, ObRowFits, ObParcels
  <2> QED BY <1>0, <1>1, <1>5, <2>1 DEF OB!RemitCod, ObServer
<1>6. CASE OB!ServeNotPicked
  <2>1. OB!Freed \in ObParcels /\ ObRowFits(OB!Freed) /\ OB!Freed.otp = parcel.otp
    BY <1>0, ObParcelMoves DEF OB!Statuses, OB!PrePickup
  <2>2. ObServer'
    BY <1>0, <1>6, <2>1 DEF OB!ServeNotPicked, ObServer, ObCardFits, OB!PickupStatuses, OB!ToPickUp, ObParcels, ObRowFits
  <2>3. parcel.otp # None => parcel'.otp = parcel.otp
    BY <1>6, <2>1 DEF OB!ServeNotPicked
  <2>4. ObReading' /\ ObLists' /\ ObBoard' /\ OB!MessageFits'
    BY <1>6, <2>3, ObOtpKept DEF OB!ServeNotPicked, OB!readVars, OB!boardVars
  <2> QED BY <2>2, <2>4 DEF ObInv
<1>7. CASE \E to \in OB!Statuses : OB!MoveParcel(to)
  <2>1. PICK to \in OB!Statuses : OB!MoveParcel(to)
    BY <1>7
  <2> DEFINE moved == OB!EnsureDeliveryOtp(OB!ReverseCodFee(OB!Moved(parcel, to)))
             pur == OB!SyncManifest(moved)
  <2>2. moved \in ObParcels /\ ObRowFits(moved) /\ (parcel.otp # None => moved.otp = parcel.otp)
    BY <1>0, <2>1, ObParcelMoves DEF OB!MoveParcel
  <2>3. OB!Changed(moved, pur)
    BY <2>1 DEF OB!MoveParcel
  <2> HIDE DEF moved
  <2>4. pur = [status |-> pur.status, picked |-> pur.picked, reason |-> pur.reason] /\ ObCardFits(pur)
    BY <1>0 DEF OB!SyncManifest, ObServer, ObCardFits, OB!PickupStatuses, OB!ToPickUp
  <2> QED BY <1>1, <2>2, <2>3, <2>4
<1> QED BY <1>2, <1>3, <1>4, <1>5, <1>6, <1>7

\* What is read of the parcel and of the pickup is what they are.
LEMMA ObReads ==
    ASSUME ObConstants, ObInv,
           \/ OB!LoadOpsData \/ OB!ReadManifests \/ OB!ReadShipments("active", OB!Active) \/ OB!ReadShipments("done", OB!Done)
           \/ OB!LoadAnswered \/ OB!LoadFailed \/ OB!NotPickedDone
    PROVE  ObInv'
<1>1. UNCHANGED <<kind, parcel, pickup, moves, tab, chip, filter, search, tile, message, selected, taps>>
  BY DEF OB!LoadOpsData, OB!ReadManifests, OB!ReadShipments, OB!LoadAnswered, OB!LoadFailed, OB!NotPickedDone, OB!serverVars, OB!boardVars
<1>2. ObServer' /\ ObBoard' /\ OB!MessageFits'
  BY <1>1 DEF ObInv, ObServer, ObBoard, OB!MessageFits, ObRowFits, ObCardFits, ObParcels
<1>3. \A r : ObRead(r)' <=> ObRead(r)
  BY <1>1 DEF ObRead, ObRowFits
<1>4. \A m : ObCardFits(m)' <=> ObCardFits(m)
  BY DEF ObCardFits
<1>5. CASE OB!LoadOpsData \/ OB!NotPickedDone \/ OB!LoadFailed
  BY <1>2, <1>3, <1>4, <1>5 DEF ObInv, ObReading, ObLists, OB!Shown, OB!Nothing, OB!LoadOpsData, OB!NotPickedDone, OB!LoadFailed, OB!readVars, ObConstants
<1>6. CASE OB!ReadManifests
  <2>1. ObCardFits(OB!PurCard)
    BY DEF ObInv, ObServer, ObCardFits, OB!PurCard
  <2>2. reading' = [left |-> reading.left \ {"pickups"}, pickups |-> {OB!PurCard}, rows |-> reading.rows] /\ lists' = lists /\ reads' = reads
    BY <1>6 DEF OB!ReadManifests, OB!Answered, ObInv, ObReading
  <2> QED BY <1>2, <1>3, <1>4, <1>6, <2>1, <2>2 DEF ObInv, ObReading, ObLists, OB!Shown, OB!Nothing, OB!ReadManifests
<1>7. ASSUME NEW list, NEW statuses, OB!ReadShipments(list, statuses), statuses \subseteq OB!Active \cup OB!Done PROVE ObInv'
  <2>1. parcel.status \in statuses => ObRead(parcel)
    BY <1>7 DEF ObInv, ObServer, ObRead
  <2>2. /\ reading # None /\ lists' = lists /\ reads' = reads
        /\ reading' = [left |-> reading.left \ {list}, pickups |-> reading.pickups,
                       rows |-> IF parcel.status \in statuses THEN reading.rows \cup {parcel} ELSE reading.rows]
    BY <1>7 DEF OB!ReadShipments, OB!Answered, ObInv, ObReading
  <2> QED BY <1>2, <1>3, <1>4, <2>1, <2>2 DEF ObInv, ObReading, ObLists, OB!Shown, OB!Nothing
<1>8. CASE OB!LoadAnswered
  BY <1>2, <1>3, <1>4, <1>8 DEF ObInv, ObReading, ObLists, OB!Shown, OB!Nothing, OB!LoadAnswered
<1> QED BY <1>5, <1>6, <1>7, <1>8

\* Only a full number has a link, and only a parcel out for delivery a message that says so, with the OTP on its card.
LEMMA ObMessages ==
    ASSUME ObConstants, ObInv, NEW r \in OB!Shown.rows
    PROVE  /\ OB!BuildMessage(r).stage = "OUT_FOR_DELIVERY" <=> r.status = "OUT_FOR_DELIVERY"
           /\ OB!BuildMessage(r).otp # None => OB!BuildMessage(r).otp = parcel.otp /\ r.status = "OUT_FOR_DELIVERY"
           /\ OB!DeliveryCard(r).whatsapp = "link" => kind.phone # "short"
<1>1. ObRead(r)
  BY DEF ObInv, ObLists
<1>2. OB!ConsigneeStageForStatus(r.status) = "OUT_FOR_DELIVERY" <=> r.status = "OUT_FOR_DELIVERY"
  BY <1>1 DEF ObRead, OB!ConsigneeStageForStatus, OB!PrePickup, OB!OnTheWay, OB!Statuses, ObConstants
<1>3. OB!HasWhatsAppPhone(kind.phone) => kind.phone # "short"
  BY DEF OB!HasWhatsAppPhone, OB!NormalizePhone
<1> QED BY <1>1, <1>2, <1>3 DEF OB!BuildMessage, OB!DeliveryCard, ObRead

\* What is chosen on the board.
LEMMA ObChooses ==
    ASSUME ObConstants, ObInv,
           \/ \E t \in OB!Tiles : OB!PressTile(t)
           \/ \E t \in OB!Tabs : OB!PickTab(t)
           \/ \E f \in OB!Filters : OB!SetPickupFilter(f)
           \/ \E c \in OB!Chips : OB!PressChip(c)
           \/ \E text \in OB!Searches : OB!Search(text)
           \/ \E m \in OB!Shown.pickups : OB!OpenNotPickedDialog(m)
           \/ \E r \in OB!Shown.rows, by \in {"whatsapp", "mail"} : OB!NotifyConsignee(r, by)
           \/ \E r \in OB!Shown.rows : OB!SelectAudit(r)
    PROVE  ObInv'
<1>1. UNCHANGED <<kind, parcel, pickup, moves, reading, reads, lists>> /\ taps' = taps + 1 /\ taps < MaxTaps
  BY DEF OB!PressTile, OB!PickTab, OB!SetPickupFilter, OB!PressChip, OB!Search, OB!OpenNotPickedDialog, OB!NotifyConsignee,
     OB!SelectAudit, OB!Tap, OB!Chosen, OB!serverVars, OB!readVars
<1>2. ObServer' /\ ObReading' /\ ObLists'
  BY <1>1 DEF ObInv, ObServer, ObReading, ObLists, OB!Shown, OB!Nothing, ObRead, ObRowFits, ObCardFits, ObParcels
<1>3. taps' \in 0 .. MaxTaps
  BY <1>1 DEF ObInv, ObBoard, ObConstants
<1>4. ObBoard'
  BY <1>3 DEF ObInv, ObBoard, ObConstants, OB!PressTile, OB!PickTab, OB!SetPickupFilter, OB!PressChip, OB!Search, OB!OpenNotPickedDialog,
     OB!NotifyConsignee, OB!SelectAudit, OB!Tabs, OB!Tiles, OB!Chips
<1>5. CASE \E r \in OB!Shown.rows, by \in {"whatsapp", "mail"} : OB!NotifyConsignee(r, by)
  <2>1. PICK r \in OB!Shown.rows, by \in {"whatsapp", "mail"} : OB!NotifyConsignee(r, by)
    BY <1>5
  <2>2. message' = [by |-> by, text |-> OB!BuildMessage(r), row |-> r] /\ (by = "whatsapp" => OB!DeliveryCard(r).whatsapp = "link")
    BY <2>1 DEF OB!NotifyConsignee
  <2>3. OB!MessageFits'
    BY <1>1, <2>2, ObMessages DEF OB!MessageFits
  <2> QED BY <1>2, <1>4, <2>3 DEF ObInv
<1>6. CASE ~\E r \in OB!Shown.rows, by \in {"whatsapp", "mail"} : OB!NotifyConsignee(r, by)
  <2>1. message' = message
    BY <1>6 DEF OB!PressTile, OB!PickTab, OB!SetPickupFilter, OB!PressChip, OB!Search, OB!OpenNotPickedDialog, OB!SelectAudit
  <2>2. OB!MessageFits'
    BY <1>1, <2>1 DEF ObInv, OB!MessageFits
  <2> QED BY <1>2, <1>4, <2>2 DEF ObInv
<1> QED BY <1>5, <1>6

LEMMA ObNext == ObConstants /\ ObInv /\ [OB!Next]_OB!vars => ObInv'
<1> SUFFICES ASSUME ObConstants, ObInv, [OB!Next]_OB!vars PROVE ObInv'
  OBVIOUS
<1>1. CASE UNCHANGED <<kind, parcel, pickup, moves, reading, reads, lists, tab, chip, filter, search, tile, message, selected, taps>>
  <2>1. ObServer'
    BY <1>1 DEF ObInv, ObServer, ObParcels, ObRowFits, ObCardFits
  <2> QED BY <1>1, <2>1, ObOtpKept DEF ObInv
<1>2. CASE \/ \E reason \in {"closed", "not ready", ""} : OB!GiveReason(reason)
           \/ OB!CloseNotPicked \/ OB!SubmitNotPicked \/ OB!ListsReadAgain \/ OB!NotPickedFailed \/ OB!vars' = OB!vars
  BY <1>1, <1>2 DEF OB!GiveReason, OB!CloseNotPicked, OB!SubmitNotPicked, OB!ListsReadAgain, OB!NotPickedFailed, OB!vars,
     OB!serverVars, OB!readVars, OB!boardVars
<1> QED BY <1>2, ObServed, ObReads, ObChooses DEF OB!Next

\* What a parcel offers shows it on a list of the day.
LEMMA ObOffers ==
    ASSUME NEW r, ObRead(r), OB!Offers(r) # {}
    PROVE  OB!MatchesDeliveryFilter(r, "ACTIVE") \/ OB!MatchesDeliveryFilter(r, "EXCEPTION")
<1>1. r.status \in OB!Statuses /\ r.status \in OB!Active \cup OB!Done
  BY DEF ObRead, ObRowFits
<1>2. CASE r.status \in OB!OnTheWay \cup OB!RtoLeg \cup {"EXCEPTION"}
  BY <1>1, <1>2 DEF OB!MatchesDeliveryFilter, OB!IsActiveRunsheet, OB!IsForwardRunsheet
<1>3. CASE r.status \in {"OPEN", "ASSIGNED"}
  <2>1. OB!Allowed[r.status] \subseteq {"ASSIGNED", "CANCELLED", "QC_FAILED", "REJECTED_AT_PICKUP", "IN_TRANSIT", "EXCEPTION"}
    BY <1>1, <1>3 DEF OB!Allowed
  <2>2. kind.type = "REVERSE"
    BY <1>3, <2>1 DEF OB!Offers, OB!CanMoveTo, OB!RtoLeg
  <2> QED BY <1>1, <1>3, <2>2 DEF OB!MatchesDeliveryFilter, OB!IsActiveRunsheet
<1>4. CASE r.status \in OB!Done
  <2>1. OB!Allowed[r.status] = {}
    BY <1>1, <1>4 DEF OB!Allowed, OB!Done
  <2> QED BY <1>4, <2>1 DEF OB!Offers, OB!CanMoveTo, OB!Done, OB!RtoLeg
<1> QED BY <1>1, <1>2, <1>3, <1>4 DEF OB!Active, OB!Done, OB!OnTheWay, OB!RtoLeg

\* Types; a message, however late it is sent, names the OTP that opens the door; what a tile counts is listed
\* under it; cash counted as due is listed so; no work is hidden; and a pickup tells how it ended.
THEOREM BoardFits == ObConstants => (OB!Spec => [](OB!TypeOK /\ OB!ActedAsShown))
<1> SUFFICES ASSUME ObConstants PROVE OB!Spec => [](OB!TypeOK /\ OB!ActedAsShown)
  OBVIOUS
<1>1. OB!Init => ObInv
  BY ObInit
<1>2. ObInv /\ [OB!Next]_OB!vars => ObInv'
  BY ObNext
<1>3. ObInv => OB!TypeOK /\ OB!ActedAsShown
  <2> SUFFICES ASSUME ObInv PROVE OB!TypeOK /\ OB!ActedAsShown
    OBVIOUS
  <2>1. OB!TypeOK
    BY DEF ObInv, ObServer, ObReading, ObBoard, ObRowFits, ObCardFits, OB!TypeOK
  <2>2. \A r \in OB!Shown.rows : ObRead(r)
    BY DEF ObInv, ObLists
  <2>3. OB!TilesFit
    <3>1. tile = "exceptions" /\ search["deliveries"] = "" => OB!ActiveDeliveryShipments = OB!ActiveExceptions
      BY DEF ObInv, ObBoard, OB!ActiveDeliveryShipments, OB!ActiveExceptions, OB!MatchesDeliveryFilter, OB!MatchesSearch, OB!Active
    <3>2. search["deliveries"] = "" /\ chip \in {"ACTIVE", "OUT_FOR_DELIVERY", "ALL"} => OB!OutForDelivery \subseteq OB!ActiveDeliveryShipments
      BY DEF OB!OutForDelivery, OB!ActiveDeliveryShipments, OB!MatchesDeliveryFilter, OB!MatchesSearch, OB!Active, OB!IsActiveRunsheet,
         OB!IsForwardRunsheet, OB!OnTheWay
    <3>3. search["pickups"] = "" /\ filter \in {"ACTIVE", "ALL"} => OB!ScheduledPickups \subseteq OB!FilteredManifests
      BY DEF OB!ScheduledPickups, OB!FilteredManifests, OB!MatchesPickupFilter, OB!MatchesSearch
    <3> QED BY <3>1, <3>2, <3>3 DEF OB!TilesFit
  <2>4. OB!CashFits
    BY <2>2 DEF OB!CashFits, OB!PendingDoorCollections, OB!IsDoorCashPending, OB!DoorCollectible, OB!DoorCollectionShipments, OB!CashRow,
       OB!CashCollectionBadge, ObRead, ObRowFits
  <2>5. OB!NoWorkHidden
    BY <2>2, ObOffers DEF OB!NoWorkHidden, OB!DeliveryCard
  <2>6. OB!PickupsFit
    <3> SUFFICES ASSUME NEW m \in OB!Shown.pickups
                 PROVE  /\ m.reason # None => "confirm" \notin OB!PickupCard(m).offers /\ OB!PickupCard(m).verified = None
                        /\ OB!PickupCard(m).verified # None => OB!PickupCard(m).otp = None /\ OB!PickupCard(m).qc = {}
      BY DEF OB!PickupsFit, OB!PickupCard
    <3>1. ObCardFits(m)
      BY DEF ObInv, ObLists
    <3> QED BY <3>1 DEF ObCardFits, OB!PickupCard, OB!ToPickUp
  <2> QED BY <2>1, <2>3, <2>4, <2>5, <2>6 DEF ObInv, OB!ActedAsShown
<1> QED BY <1>1, <1>2, <1>3, PTL DEF OB!Spec

-----------------------------------------------------------------------------
(* The journey of a parcel as it is told: the log of a parcel that is on the  *)
(* way tells of its pickup, and of its leaving before it is out for delivery; *)
(* and it has left the seller exactly when its status says so, but for a hold *)
(* at the pickup. Each read is of such a row and of such a log.               *)

CONSTANTS Reader
VARIABLES log, left, box, asked, going, page
TR == INSTANCE Tracking

\* The bounds are numbers, and the values that stand for themselves are different ones.
TrConstants == MaxMoves \in Nat /\ MaxReads \in Nat /\ None \notin TR!Statuses \cup {TR!Awb, TR!Loosely, TR!Unknown}

TrRows == [status : TR!Statuses, held : TR!Statuses \cup {TR!NoStatus}, pur : {"none", "open", "picked"}]
TrActs == [to : TR!Statuses \cup {None}, shown : BOOLEAN, time : Nat]

TrTold(acts, to) == \E i \in DOMAIN acts : acts[i].to = to
TrToldBefore(acts, first, second) ==
    \A j \in DOMAIN acts : acts[j].to = second => \E i \in DOMAIN acts : i < j /\ acts[i].to = first

\* Where a parcel is before its pickup, and where it never came to one.
TrBefore == {"DRAFT", "OPEN", "CANCELLED", "QC_FAILED", "REJECTED_AT_PICKUP"}
TrClosedEarly == {"CANCELLED", "QC_FAILED", "REJECTED_AT_PICKUP"}

\* A row and whether its parcel has left the seller.
TrRowFits(r, gone) ==
    /\ r \in TrRows /\ gone \in BOOLEAN
    /\ r.status \in TrBefore => r.pur = "none"
    /\ r.status = "EXCEPTION" => r.held \in {"ASSIGNED", "IN_TRANSIT", "OUT_FOR_DELIVERY"} \cup TR!RtoLeg
    /\ r.pur = "open" => r.status = "ASSIGNED" \/ TR!HeldAtPickup(r)
    /\ gone <=> r.status \notin {"ASSIGNED"} \cup TrBefore /\ ~TR!HeldAtPickup(r)

\* The whole log of a row, and any log that was read.
TrFirsts(acts) ==
    \A to : TrTold(acts, to) => \E i \in DOMAIN acts : acts[i].to = to /\ \A j \in DOMAIN acts : acts[j].to = to => i <= j
TrInOrder(acts) == TrFirsts(acts) /\ TrToldBefore(acts, "ASSIGNED", "IN_TRANSIT") /\ TrToldBefore(acts, "IN_TRANSIT", "OUT_FOR_DELIVERY")
TrTimed(acts) == acts \in Seq(TrActs) /\ \A i \in DOMAIN acts : acts[i].time = i
TrLog ==
    /\ TrTimed(log) /\ Len(log) \in 1 .. MaxMoves + 1 /\ TrInOrder(log)
    /\ row.status \notin TrBefore => TrTold(log, "ASSIGNED")
    /\ row.status \in TR!OnTheWay \/ (row.status = "EXCEPTION" /\ row.held \in TR!OnTheWay) => TrTold(log, "IN_TRANSIT")
TrParcel == TrRowFits(row, left) /\ TrLog

\* What was read, or is being read: the whole log is read by staff, a part of it by the seller.
TrRead(read) ==
    /\ read = [row |-> read.row, acts |-> read.acts, left |-> read.left]
    /\ read.row # None => TrRowFits(read.row, read.left)
    /\ read.acts # None /\ Reader = "staff" => TrTimed(read.acts) /\ TrInOrder(read.acts)
TrPage ==
    /\ going # None => TrRead(going)
    /\ page # None => /\ page = [at |-> page.at, read |-> page.read]
                      /\ page.at \in {"loading", "shown", "not found", "unavailable"}
                      /\ TrRead(page.read)
                      /\ page.at = "shown" => page.read.row # None /\ page.read.acts # None
TrAsked == {box, asked} \subseteq {None, TR!Awb, TR!Loosely, TR!Unknown} /\ asked # TR!Loosely /\ reads \in 0 .. MaxReads
TrInv == TrParcel /\ TrPage /\ TrAsked

\* A move adds one entry to the log, which keeps what it told in order.
LEMMA TrAppended ==
    ASSUME TrConstants, TrLog, NEW act \in TrActs, act.time = Len(log) + 1, Len(log) <= MaxMoves,
           act.to = "IN_TRANSIT" => TrTold(log, "ASSIGNED"),
           act.to = "OUT_FOR_DELIVERY" => TrTold(log, "IN_TRANSIT")
    PROVE  LET acts == Append(log, act) IN
           /\ TrTimed(acts) /\ Len(acts) \in 1 .. MaxMoves + 1 /\ TrInOrder(acts)
           /\ \A to : TrTold(log, to) => TrTold(acts, to)
           /\ TrTold(acts, act.to)
<1> DEFINE acts == Append(log, act)
<1>1. log \in Seq(TrActs) /\ Len(log) \in Nat /\ DOMAIN log = 1 .. Len(log)
  BY DEF TrLog, TrTimed
<1>2. acts \in Seq(TrActs) /\ Len(acts) = Len(log) + 1 /\ DOMAIN acts = 1 .. Len(log) + 1
  BY <1>1
<1>3. acts[Len(log) + 1] = act /\ \A i \in 1 .. Len(log) : acts[i] = log[i]
  BY <1>1
<1> HIDE DEF acts
<1>4. TrTimed(acts) /\ Len(acts) \in 1 .. MaxMoves + 1
  BY <1>1, <1>2, <1>3 DEF TrTimed, TrLog, TrConstants
<1>5. \A to : TrTold(log, to) => TrTold(acts, to)
  BY <1>1, <1>2, <1>3 DEF TrTold
<1>6. TrTold(acts, act.to)
  BY <1>1, <1>2, <1>3 DEF TrTold
<1>7. ASSUME NEW first, NEW second, TrToldBefore(log, first, second), act.to = second => TrTold(log, first)
      PROVE  TrToldBefore(acts, first, second)
  <2> SUFFICES ASSUME NEW j \in 1 .. Len(log) + 1, acts[j].to = second PROVE \E i \in 1 .. Len(log) + 1 : i < j /\ acts[i].to = first
    BY <1>2 DEF TrToldBefore
  <2>1. CASE j \in 1 .. Len(log)
    <3>1. PICK i \in 1 .. Len(log) : i < j /\ log[i].to = first
      BY <1>1, <1>3, <1>7, <2>1 DEF TrToldBefore
    <3> QED BY <1>1, <1>3, <3>1
  <2>2. CASE j = Len(log) + 1
    <3>1. PICK i \in 1 .. Len(log) : log[i].to = first
      BY <1>1, <1>3, <1>7, <2>2 DEF TrTold
    <3> QED BY <1>1, <1>3, <2>2, <3>1
  <2> QED BY <1>1, <2>1, <2>2
<1>8. TrFirsts(acts)
  <2> SUFFICES ASSUME NEW to, TrTold(acts, to)
               PROVE  \E i \in DOMAIN acts : acts[i].to = to /\ \A j \in DOMAIN acts : acts[j].to = to => i <= j
    BY DEF TrFirsts
  <2>1. CASE TrTold(log, to)
    <3>1. PICK i \in DOMAIN log : log[i].to = to /\ \A j \in DOMAIN log : log[j].to = to => i <= j
      BY <2>1 DEF TrLog, TrInOrder, TrFirsts
    <3>2. i \in DOMAIN acts /\ acts[i].to = to /\ \A j \in DOMAIN acts : acts[j].to = to => i <= j
      BY <1>1, <1>2, <1>3, <3>1
    <3> QED BY <3>2
  <2>2. CASE ~TrTold(log, to)
    <3>1. \A j \in DOMAIN acts : acts[j].to = to => j = Len(log) + 1
      BY <1>1, <1>2, <1>3, <2>2 DEF TrTold
    <3>2. PICK i \in DOMAIN acts : acts[i].to = to
      BY DEF TrTold
    <3> QED BY <1>1, <1>2, <3>1, <3>2
  <2> QED BY <2>1, <2>2
<1>9. TrInOrder(acts)
  BY <1>7, <1>8 DEF TrLog, TrInOrder
<1> QED BY <1>4, <1>5, <1>6, <1>9 DEF acts

\* A move that fits keeps what the parcel and its log say.
LEMMA TrMoves ==
    ASSUME TrConstants, TrParcel, NEW new, NEW to \in TR!Statuses, NEW shown \in BOOLEAN, TR!MovedTo(new, to, shown),
           NEW gone \in BOOLEAN, gone <=> left \/ (new.status \in TR!OnTheWay /\ row.status # "EXCEPTION"), TrRowFits(new, gone),
           to = new.status \/ (to = "IN_TRANSIT" /\ new.status = "EXCEPTION" /\ new.held = row.held /\ row.status = "EXCEPTION"),
           to = "IN_TRANSIT" => row.status \notin TrBefore,
           to = "OUT_FOR_DELIVERY" => row.status = "IN_TRANSIT" \/ (row.status = "EXCEPTION" /\ row.held \in TR!OnTheWay),
           to # "ASSIGNED" /\ new.status \notin TrBefore => row.status \notin TrBefore,
           new.status = "EXCEPTION" /\ new.held \in TR!OnTheWay => row.status \in TR!OnTheWay \/ (row.status = "EXCEPTION" /\ row.held = new.held)
    PROVE  TrParcel' /\ UNCHANGED TR!pageVars
<1> DEFINE act == [to |-> to, shown |-> shown \/ to = "COMPLETED", time |-> Len(log) + 1]
<1>1. row' = new /\ log' = Append(log, act) /\ Len(log) <= MaxMoves /\ UNCHANGED TR!pageVars
  BY DEF TR!MovedTo
<1>2. left' = gone
  BY DEF TR!MovedTo
<1>3. act \in TrActs /\ act.time = Len(log) + 1 /\ act.to = to
  BY DEF TrActs, TrParcel, TrLog
<1> HIDE DEF act
<1>4. to = "IN_TRANSIT" => TrTold(log, "ASSIGNED")
  BY DEF TrParcel, TrLog
<1>5. to = "OUT_FOR_DELIVERY" => TrTold(log, "IN_TRANSIT")
  BY DEF TrParcel, TrLog, TR!OnTheWay
<1>6. /\ TrTimed(log') /\ Len(log') \in 1 .. MaxMoves + 1 /\ TrInOrder(log')
      /\ \A s : TrTold(log, s) => TrTold(log', s)
      /\ TrTold(log', to)
  BY <1>1, <1>3, <1>4, <1>5, TrAppended DEF TrParcel
<1>7. new.status \notin TrBefore => TrTold(log', "ASSIGNED")
  BY <1>6 DEF TrParcel, TrLog
<1>8. new.status \in TR!OnTheWay \/ (new.status = "EXCEPTION" /\ new.held \in TR!OnTheWay) => TrTold(log', "IN_TRANSIT")
  BY <1>5, <1>6 DEF TrParcel, TrLog, TR!OnTheWay
<1>9. TrLog'
  BY <1>1, <1>6, <1>7, <1>8 DEF TrLog
<1>10. TrRowFits(row', left')
  BY <1>1, <1>2
<1>11. TrRowFits(row, left)'
  BY <1>10 DEF TrRowFits, TrRows
<1> QED BY <1>1, <1>9, <1>11 DEF TrParcel

\* The pickup of a parcel: put on one, taken off it, and dispatched with it.
LEMMA TrPickups ==
    ASSUME TrConstants, TrParcel, TR!Link \/ TR!Release \/ TR!LeaveBehind \/ TR!Dispatch
    PROVE  TrParcel' /\ UNCHANGED TR!pageVars
<1>0. TrRowFits(row, left) /\ row \in TrRows /\ left \in BOOLEAN
  BY DEF TrParcel, TrRowFits
<1>1. CASE TR!Link
  <2> DEFINE new == TR!Linked(row)
  <2>1. row.status = "OPEN" /\ TR!MovedTo(new, "ASSIGNED", FALSE)
    BY <1>1 DEF TR!Link
  <2>2. new \in TrRows /\ new.status = "ASSIGNED" /\ new.pur = "open"
    BY <1>0 DEF TR!Linked, TrRows, TR!Statuses, TR!PrePickup
  <2> HIDE DEF new
  <2>3. left = FALSE
    BY <1>0, <2>1 DEF TrRowFits, TrBefore
  <2>4. TrRowFits(new, FALSE) /\ "ASSIGNED" \in TR!Statuses
    BY <2>2, <2>3 DEF TrRowFits, TrBefore, TrRows, TR!HeldAtPickup
  <2> QED BY <2>1, <2>2, <2>3, <2>4, TrMoves DEF TR!OnTheWay
<1>2. CASE TR!Release \/ TR!LeaveBehind \/ TR!Dispatch
  <2>1. row.pur = "open" /\ (row.status = "ASSIGNED" \/ TR!HeldAtPickup(row))
    BY <1>0, <1>2 DEF TR!Release, TR!LeaveBehind, TR!Dispatch, TrRowFits
  <2>2. left = FALSE /\ row.status \notin TrBefore
    BY <1>0, <2>1 DEF TrRowFits, TrBefore, TR!HeldAtPickup
  <2>3. row.status = "EXCEPTION" => row.held = "ASSIGNED"
    BY <1>0, <2>1 DEF TrRowFits, TR!HeldAtPickup, TR!IsPickedUp, TR!RtoLeg, TR!PrePickup, TR!NoStatus
  <2>4. {"OPEN", "ASSIGNED", "IN_TRANSIT"} \subseteq TR!Statuses
    BY DEF TR!Statuses, TR!PrePickup, TR!OnTheWay
  <2>5. ASSUME NEW h, h.status = "EXCEPTION", h.held = "ASSIGNED" PROVE TR!HeldAtPickup(h)
    BY <2>5 DEF TR!HeldAtPickup, TR!IsPickedUp, TR!PrePickup
  <2>6. CASE TR!Release
    <3> DEFINE new == TR!Unlinked(row)
    <3>1. TR!MovedTo(new, new.status, FALSE)
      BY <2>6 DEF TR!Release
    <3>2. new \in TrRows /\ new.pur = "none" /\ new.held = row.held
      BY <1>0, <2>4 DEF TR!Unlinked, TrRows
    <3>3. new.status = IF row.status = "ASSIGNED" THEN "OPEN" ELSE "EXCEPTION"
      BY <1>0, <2>1 DEF TR!Unlinked, TrRows, TR!HeldAtPickup
    <3> HIDE DEF new
    <3>4. TrRowFits(new, FALSE)
      BY <2>1, <2>2, <2>3, <2>5, <3>2, <3>3 DEF TrRowFits, TrBefore, TR!HeldAtPickup
    <3>5. new.status \in TR!Statuses
      BY <3>2 DEF TrRows
    <3> QED BY <2>1, <2>2, <2>3, <3>1, <3>2, <3>3, <3>4, <3>5, TrMoves DEF TR!OnTheWay, TrBefore, TR!HeldAtPickup
  <2>7. CASE TR!LeaveBehind
    <3> DEFINE new == TR!LeftBehind(row)
    <3>1. TR!MovedTo(new, "OPEN", FALSE)
      BY <2>7 DEF TR!LeaveBehind
    <3>2. new \in TrRows /\ new.pur = "none" /\ new.status = "OPEN"
      BY <1>0, <2>4 DEF TR!LeftBehind, TrRows
    <3> HIDE DEF new
    <3>3. TrRowFits(new, FALSE)
      BY <2>2, <3>2 DEF TrRowFits, TrBefore, TR!HeldAtPickup
    <3> QED BY <2>2, <2>4, <3>1, <3>2, <3>3, TrMoves DEF TR!OnTheWay, TrBefore
  <2>8. CASE TR!Dispatch /\ row.status = "ASSIGNED"
    <3> DEFINE new == TR!Dispatched(row)
    <3>1. TR!MovedTo(new, "IN_TRANSIT", TRUE)
      BY <2>8 DEF TR!Dispatch
    <3>2. new \in TrRows /\ new.pur = "picked" /\ new.status = "IN_TRANSIT"
      BY <1>0, <2>4, <2>8 DEF TR!Dispatched, TrRows, TR!PrePickup
    <3> HIDE DEF new
    <3>3. TrRowFits(new, TRUE)
      BY <2>2, <3>2 DEF TrRowFits, TrBefore, TR!HeldAtPickup
    <3> QED BY <2>2, <2>4, <2>8, <3>1, <3>2, <3>3, TrMoves DEF TR!OnTheWay, TrBefore
  <2>9. CASE TR!Dispatch /\ row.status = "EXCEPTION"
    <3> DEFINE new == TR!Dispatched(row)
    <3>1. TR!MovedTo(new, "IN_TRANSIT", TRUE)
      BY <2>9 DEF TR!Dispatch
    <3>2. new \in TrRows /\ new.pur = "picked" /\ new.status = "EXCEPTION" /\ new.held = row.held
      BY <1>0, <2>4, <2>9 DEF TR!Dispatched, TrRows, TR!PrePickup
    <3> HIDE DEF new
    <3>3. TrRowFits(new, FALSE)
      BY <2>2, <2>3, <2>5, <2>9, <3>2 DEF TrRowFits, TrBefore
    <3> QED BY <2>2, <2>3, <2>4, <2>9, <3>1, <3>2, <3>3, TrMoves DEF TR!OnTheWay, TrBefore
  <2> QED BY <1>2, <2>1, <2>6, <2>7, <2>8, <2>9 DEF TR!HeldAtPickup
<1> QED BY <1>1, <1>2

\* Where a hold ends, by where it began.
LEMMA TrResumes ==
    ASSUME NEW r, TrRowFits(r, left), r.status = "EXCEPTION"
    PROVE  /\ r.held = "ASSIGNED" => TR!Resume(r) \in {"ASSIGNED", "OPEN"} /\ ~TR!AfterPickup(r) /\ TR!HeldAtPickup(r)
           /\ r.held = "ASSIGNED" => (TR!Resume(r) = "ASSIGNED" <=> r.pur # "none")
           /\ r.held \in TR!RtoLeg => TR!Resume(r) = r.held /\ TR!AfterPickup(r) /\ ~TR!HeldAtPickup(r)
           /\ r.held \in TR!OnTheWay => TR!Resume(r) = "IN_TRANSIT" /\ TR!AfterPickup(r) /\ ~TR!HeldAtPickup(r)
BY DEF TR!Resume, TR!ResumeStatus, TR!AfterPickup, TR!HeldAtPickup, TR!IsPickedUp, TR!PrePickup, TR!RtoLeg, TR!OnTheWay, TR!NoStatus

\* The statuses each status may be followed by.
LEMMA TrAllowed ==
    /\ TR!Allowed["OPEN"] = {"ASSIGNED", "CANCELLED", "QC_FAILED", "REJECTED_AT_PICKUP"}
    /\ TR!Allowed["ASSIGNED"] = {"IN_TRANSIT", "CANCELLED", "EXCEPTION", "QC_FAILED", "REJECTED_AT_PICKUP"}
    /\ TR!Allowed["DRAFT"] = {"OPEN", "CANCELLED"}
    /\ TR!Allowed["IN_TRANSIT"] = {"OUT_FOR_DELIVERY", "COMPLETED", "RTO_INITIATED", "EXCEPTION", "LOST"}
    /\ TR!Allowed["OUT_FOR_DELIVERY"] = {"COMPLETED", "RTO_INITIATED", "EXCEPTION", "LOST"}
    /\ TR!Allowed["RTO_INITIATED"] = {"RTO_IN_TRANSIT", "RTO_DELIVERED", "EXCEPTION", "LOST"}
    /\ TR!Allowed["RTO_IN_TRANSIT"] = {"RTO_DELIVERED", "EXCEPTION", "LOST"}
    /\ TR!Allowed["LOST"] = {"IN_TRANSIT", "RTO_INITIATED"}
BY DEF TR!Allowed, TR!Statuses, TR!PrePickup, TR!OnTheWay, TR!RtoStatuses, TR!RtoLeg, TR!Terminal

\* A change of status keeps what the parcel and its log say.
LEMMA TrStatuses ==
    ASSUME TrConstants, TrParcel, NEW to \in TR!Statuses, NEW shown \in TR!Ticks, TR!StatusMoves(to, shown)
    PROVE  TrParcel' /\ UNCHANGED TR!pageVars
<1>0. TrRowFits(row, left) /\ row \in TrRows /\ left \in BOOLEAN /\ shown \in BOOLEAN
  BY DEF TrParcel, TrRowFits, TR!Ticks
<1> DEFINE new == TR!Moved(row, to)
<1>1. TR!MoveAllowed(row, to) /\ TR!MovedTo(new, to, shown)
  BY DEF TR!StatusMoves
<1>2. /\ new \in TrRows /\ new.status = to
      /\ new.held = IF to = "EXCEPTION" THEN row.status ELSE TR!NoStatus
      /\ new.pur = IF to \in TrClosedEarly THEN "none" ELSE row.pur
  BY <1>0 DEF TR!Moved, TrRows, TrClosedEarly
<1>3. row.status \notin TR!Terminal /\ to # row.status
  BY <1>1 DEF TR!MoveAllowed
<1>4. to \in TR!Allowed[row.status]
  BY <1>1, <1>3 DEF TR!MoveAllowed, TR!ValidTransition
<1>5. /\ row.status = "ASSIGNED" /\ to = "IN_TRANSIT" => row.pur # "open"
      /\ row.status = "EXCEPTION" => TR!ExitAllowed(row, to)
  BY <1>1 DEF TR!MoveAllowed
<1> HIDE DEF new
<1>6. PICK gone \in BOOLEAN : gone <=> left \/ (to \in TR!OnTheWay /\ row.status # "EXCEPTION")
  BY <1>0
<1>7. /\ TrRowFits(new, gone)
      /\ to = "IN_TRANSIT" => row.status \notin TrBefore
      /\ to = "OUT_FOR_DELIVERY" => row.status = "IN_TRANSIT" \/ (row.status = "EXCEPTION" /\ row.held \in TR!OnTheWay)
      /\ to # "ASSIGNED" /\ to \notin TrBefore => row.status \notin TrBefore
      /\ to = "EXCEPTION" /\ new.held \in TR!OnTheWay => row.status \in TR!OnTheWay
  <2>1. to = "EXCEPTION" => (TR!HeldAtPickup(new) <=> row.status \in TR!PrePickup)
    BY <1>0, <1>2 DEF TR!HeldAtPickup, TR!IsPickedUp, TrRows, TR!NoStatus, TR!Statuses, TR!PrePickup, TR!OnTheWay, TR!RtoStatuses, TR!RtoLeg, TR!Terminal
  <2>2. to # "EXCEPTION" => ~TR!HeldAtPickup(new)
    BY <1>2 DEF TR!HeldAtPickup
  <2>3. CASE row.status \in {"DRAFT", "OPEN"}
    <3>1. to \in {"OPEN", "ASSIGNED"} \cup TrClosedEarly /\ row.pur = "none" /\ ~left
      BY <1>0, <1>3, <1>4, <2>3, TrAllowed DEF TrClosedEarly, TrRowFits, TrBefore, TR!HeldAtPickup, TrRows
    <3> QED BY <1>0, <1>2, <1>6, <2>2, <2>3, <3>1 DEF TrRowFits, TrBefore, TrClosedEarly, TR!OnTheWay
  <2>4. CASE row.status = "ASSIGNED"
    <3>1. to \in {"IN_TRANSIT", "EXCEPTION"} \cup TrClosedEarly /\ ~left
      BY <1>0, <1>4, <2>4, TrAllowed DEF TrClosedEarly, TrRowFits
    <3> QED BY <1>0, <1>2, <1>5, <1>6, <2>1, <2>2, <2>4, <3>1 DEF TrRowFits, TrBefore, TrClosedEarly, TR!OnTheWay, TR!PrePickup
  <2>5. CASE row.status \in TR!OnTheWay \cup TR!RtoLeg \cup {"LOST"}
    <3>1. /\ to \in {"IN_TRANSIT", "OUT_FOR_DELIVERY", "COMPLETED", "EXCEPTION", "LOST"} \cup TR!RtoStatuses
          /\ to = "OUT_FOR_DELIVERY" => row.status = "IN_TRANSIT"
          /\ to = "EXCEPTION" => row.status \in TR!OnTheWay \cup TR!RtoLeg
      BY <1>4, <2>5, TrAllowed DEF TR!OnTheWay, TR!RtoLeg, TR!RtoStatuses
    <3>2. left /\ row.pur # "open" /\ row.status \notin TrBefore
      BY <1>0, <2>5 DEF TrRowFits, TrBefore, TR!OnTheWay, TR!RtoLeg, TR!HeldAtPickup
    <3> QED BY <1>0, <1>2, <1>6, <2>1, <2>2, <2>5, <3>1, <3>2 DEF TrRowFits, TrBefore, TrClosedEarly, TR!OnTheWay, TR!PrePickup, TR!RtoLeg, TR!RtoStatuses
  <2>6. CASE row.status = "EXCEPTION" /\ row.held = "ASSIGNED"
    <3>1. /\ TR!Resume(row) \in {"ASSIGNED", "OPEN"} /\ ~TR!AfterPickup(row) /\ TR!HeldAtPickup(row) /\ ~left
          /\ TR!Resume(row) = "ASSIGNED" <=> row.pur # "none"
      BY <1>0, <2>6, TrResumes DEF TrRowFits
    <3>2. to \in {"ASSIGNED", "OPEN", "CANCELLED"} /\ (to = "OPEN" => row.pur = "none")
      BY <1>5, <2>6, <3>1 DEF TR!ExitAllowed
    <3> QED BY <1>0, <1>2, <1>6, <2>2, <2>6, <3>1, <3>2 DEF TrRowFits, TrBefore, TrClosedEarly, TR!OnTheWay, TR!PrePickup
  <2>7. CASE row.status = "EXCEPTION" /\ row.held \in TR!OnTheWay \cup TR!RtoLeg
    <3>1. /\ row.held \in TR!RtoLeg => TR!Resume(row) = row.held
          /\ row.held \in TR!OnTheWay => TR!Resume(row) = "IN_TRANSIT"
          /\ TR!AfterPickup(row) /\ ~TR!HeldAtPickup(row)
      BY <1>0, <2>7, TrResumes
    <3>2. to \in {"IN_TRANSIT", "OUT_FOR_DELIVERY", "LOST"} \cup TR!RtoLeg /\ (to = "OUT_FOR_DELIVERY" => row.held \in TR!OnTheWay)
      BY <1>5, <2>7, <3>1 DEF TR!ExitAllowed, TR!RtoLeg, TR!OnTheWay
    <3>3. left /\ row.pur # "open"
      BY <1>0, <2>7, <3>1 DEF TrRowFits, TrBefore
    <3> QED BY <1>0, <1>2, <1>6, <2>2, <2>7, <3>1, <3>2, <3>3 DEF TrRowFits, TrBefore, TrClosedEarly, TR!OnTheWay, TR!RtoLeg
  <2> QED BY <1>0, <1>3, <2>3, <2>4, <2>5, <2>6, <2>7 DEF TrRowFits, TrRows, TR!Statuses, TR!PrePickup, TR!OnTheWay, TR!RtoStatuses, TR!RtoLeg, TR!Terminal
<1> QED BY <1>0, <1>1, <1>2, <1>7, <1>6, TrMoves

\* The part of a log that is shown is a log or nothing at all of it is promised.
LEMMA TrReads ==
    ASSUME TrConstants, TrInv,
           \/ TR!ReadShipment \/ TR!ReadHistory \/ TR!ReadAnswered \/ TR!ClassifyTrackingError \/ TR!FetchDetails \/ TR!FetchFailed
           \/ TR!HandleSubmit \/ TR!HandleNewSearch \/ TR!TryAgain
           \/ \E id \in {TR!Loosely, TR!Unknown} : TR!TypeTrackingId(id)
           \/ UNCHANGED TR!vars
    PROVE  TrInv'
<1>0. UNCHANGED <<row, log, left>>
  BY DEF TR!ReadShipment, TR!ReadHistory, TR!ReadAnswered, TR!ClassifyTrackingError, TR!FetchDetails, TR!FetchFailed, TR!HandleSubmit,
     TR!HandleNewSearch, TR!TryAgain, TR!LookFor, TR!TypeTrackingId, TR!vars, TR!parcelVars
<1>1. TrParcel'
  BY <1>0 DEF TrInv, TrParcel, TrRowFits, TrRows, TrLog, TrTimed, TrInOrder, TrFirsts, TrTold, TrToldBefore
<1>2. \A read : TrRead(read)' <=> TrRead(read)
  BY DEF TrRead
<1>3. TrRead(TR!NothingRead)
  BY DEF TrRead, TR!NothingRead
<1>4. TrAsked'
  <2>1. reads' = reads \/ (reads' = reads + 1 /\ reads < MaxReads)
    BY DEF TR!ReadShipment, TR!ReadHistory, TR!ReadAnswered, TR!ClassifyTrackingError, TR!FetchDetails, TR!FetchFailed, TR!HandleSubmit,
       TR!HandleNewSearch, TR!TryAgain, TR!LookFor, TR!TypeTrackingId, TR!vars
  <2>2. reads' \in 0 .. MaxReads
    BY <2>1 DEF TrInv, TrAsked, TrConstants
  <2>3. \/ box' = box /\ asked' = asked
        \/ box' \in {TR!Loosely, TR!Unknown} /\ asked' = asked
        \/ asked' = TR!NormalizeTrackingId(box) /\ box' = asked'
    BY DEF TR!ReadShipment, TR!ReadHistory, TR!ReadAnswered, TR!ClassifyTrackingError, TR!FetchDetails, TR!FetchFailed, TR!HandleSubmit,
       TR!HandleNewSearch, TR!TryAgain, TR!LookFor, TR!TypeTrackingId, TR!vars
  <2>4. TR!NormalizeTrackingId(box) \in {None, TR!Awb, TR!Unknown} /\ TR!Loosely \notin {None, TR!Awb, TR!Unknown}
    BY DEF TrInv, TrAsked, TrConstants, TR!NormalizeTrackingId, TR!Awb, TR!Loosely, TR!Unknown
  <2> QED BY <2>2, <2>3, <2>4 DEF TrInv, TrAsked
<1>5. CASE TR!ReadShipment
  <2>1. going # None /\ going' = [row |-> row, acts |-> going.acts, left |-> left] /\ page' = page
    BY <1>5 DEF TR!ReadShipment, TrInv, TrPage, TrRead
  <2>2. TrRead(going')
    BY <2>1 DEF TrInv, TrPage, TrRead, TrParcel
  <2> QED BY <1>1, <1>2, <1>4, <2>1, <2>2 DEF TrInv, TrPage
<1>6. CASE TR!ReadHistory
  <2>1. going # None /\ going' = [row |-> going.row, acts |-> TR!ShownToReader(log), left |-> going.left] /\ page' = page
    BY <1>6 DEF TR!ReadHistory, TrInv, TrPage, TrRead
  <2>2. Reader = "staff" => TR!ShownToReader(log) = log
    BY DEF TR!ShownToReader
  <2>3. TrRead(going')
    BY <2>1, <2>2 DEF TrInv, TrPage, TrRead, TrParcel, TrLog
  <2> QED BY <1>1, <1>2, <1>4, <2>1, <2>3 DEF TrInv, TrPage
<1>7. CASE TR!ReadAnswered
  <2>1. going # None /\ going.row # None /\ going.acts # None /\ going' = None /\ page' = [at |-> "shown", read |-> going]
    BY <1>7 DEF TR!ReadAnswered, TR!Page
  <2> QED BY <1>1, <1>2, <1>4, <2>1 DEF TrInv, TrPage
<1>8. CASE TR!ClassifyTrackingError
  <2>1. PICK at \in {"unavailable", "not found"} : page' = [at |-> at, read |-> TR!NothingRead] /\ going' = None
    BY <1>8 DEF TR!ClassifyTrackingError, TR!Page
  <2>2. page' = [at |-> page'.at, read |-> page'.read] /\ page'.at \in {"unavailable", "not found"} /\ page'.read = TR!NothingRead
    BY <2>1
  <2> QED BY <1>1, <1>2, <1>3, <1>4, <2>1, <2>2 DEF TrInv, TrPage
<1>9. CASE TR!FetchDetails \/ TR!HandleSubmit \/ TR!HandleNewSearch \/ TR!TryAgain
  <2>1. going' = TR!NothingRead /\ (page' = page \/ page' = [at |-> "loading", read |-> TR!NothingRead])
    BY <1>9 DEF TR!FetchDetails, TR!HandleSubmit, TR!HandleNewSearch, TR!TryAgain, TR!LookFor, TR!Loading, TR!Page
  <2>2. page' = page \/ (page' = [at |-> page'.at, read |-> page'.read] /\ page'.at = "loading" /\ page'.read = TR!NothingRead)
    BY <2>1
  <2> QED BY <1>1, <1>2, <1>3, <1>4, <2>1, <2>2 DEF TrInv, TrPage
<1>10. CASE TR!FetchFailed \/ (\E id \in {TR!Loosely, TR!Unknown} : TR!TypeTrackingId(id)) \/ UNCHANGED TR!vars
  <2>1. page' = page /\ (going' = None \/ going' = going)
    BY <1>10 DEF TR!FetchFailed, TR!TypeTrackingId, TR!vars
  <2> QED BY <1>1, <1>2, <1>4, <2>1 DEF TrInv, TrPage
<1> QED BY <1>5, <1>6, <1>7, <1>8, <1>9, <1>10

LEMMA TrNext == TrConstants /\ TrInv /\ [TR!Next]_TR!vars => TrInv'
<1> SUFFICES ASSUME TrConstants, TrInv, [TR!Next]_TR!vars PROVE TrInv'
  OBVIOUS
<1>1. ASSUME TrParcel', UNCHANGED TR!pageVars PROVE TrInv'
  BY <1>1 DEF TrInv, TrPage, TrRead, TrAsked, TR!pageVars
<1>2. CASE TR!Link \/ TR!Release \/ TR!LeaveBehind \/ TR!Dispatch
  BY <1>1, <1>2, TrPickups DEF TrInv
<1>3. CASE \E to \in TR!Statuses, shown \in TR!Ticks : TR!StatusMoves(to, shown)
  BY <1>1, <1>3, TrStatuses DEF TrInv
<1> QED BY <1>2, <1>3, TrReads DEF TR!Next

LEMMA TrInit == TrConstants /\ TR!Init => TrInv
<1> SUFFICES ASSUME TrConstants, TR!Init PROVE TrInv
  OBVIOUS
<1>1. /\ row = [status |-> "OPEN", held |-> TR!NoStatus, pur |-> "none"] /\ left = FALSE
      /\ log = <<[to |-> None, shown |-> TRUE, time |-> 1]>>
      /\ box = None /\ asked = None /\ reads = 0 /\ going = None /\ page = None
  BY DEF TR!Init, TR!Row, TR!Created
<1>2. TrRowFits(row, left)
  BY <1>1 DEF TrRowFits, TrRows, TrBefore, TrClosedEarly, TR!Statuses, TR!PrePickup, TR!HeldAtPickup
<1>3. log \in Seq(TrActs) /\ Len(log) = 1 /\ log[1].to = None /\ log[1].time = 1 /\ DOMAIN log = {1}
  <2>1. [to |-> None, shown |-> TRUE, time |-> 1] \in TrActs
    BY DEF TrActs
  <2> QED BY <1>1, <2>1
<1>4. None # "IN_TRANSIT" /\ None # "OUT_FOR_DELIVERY" /\ None # TR!Loosely
  BY DEF TrConstants, TR!Statuses, TR!OnTheWay
<1>5. TrLog
  BY <1>1, <1>3, <1>4 DEF TrLog, TrTimed, TrInOrder, TrFirsts, TrTold, TrToldBefore, TrConstants, TrBefore, TR!OnTheWay
<1>6. TrAsked /\ TrPage
  BY <1>1, <1>4 DEF TrAsked, TrPage, TrConstants
<1> QED BY <1>2, <1>5, <1>6 DEF TrInv, TrParcel

\* The step a status has come to.
LEMMA TrStages ==
    ASSUME NEW s \in TR!Statuses
    PROVE  /\ s \in {"DRAFT"} \cup TrClosedEarly => TR!ShipmentStage[s] = 0
           /\ s = "OPEN" => TR!ShipmentStage[s] = 1
           /\ s = "ASSIGNED" => TR!ShipmentStage[s] = 2
           /\ s \in {"IN_TRANSIT", "EXCEPTION", "LOST"} \cup TR!RtoStatuses => TR!ShipmentStage[s] = 3
           /\ s \in {"OUT_FOR_DELIVERY", "COMPLETED"} => TR!ShipmentStage[s] = 4
<1> DEFINE stages == <<{"DRAFT"} \cup TrClosedEarly, {"OPEN"}, {"ASSIGNED"}, {"IN_TRANSIT", "EXCEPTION", "LOST"} \cup TR!RtoStatuses,
                       {"OUT_FOR_DELIVERY", "COMPLETED"}>>
<1>1. TR!ShipmentStage[s] = CHOOSE n \in 0 .. 4 : s \in stages[n + 1]
  BY DEF TR!ShipmentStage, TR!ShipmentStages, TR!AtStage, TrClosedEarly
<1>2. /\ \A n \in 0 .. 4 : n = 0 \/ n = 1 \/ n = 2 \/ n = 3 \/ n = 4
      /\ stages[0 + 1] = {"DRAFT"} \cup TrClosedEarly /\ stages[1 + 1] = {"OPEN"} /\ stages[2 + 1] = {"ASSIGNED"}
      /\ stages[3 + 1] = {"IN_TRANSIT", "EXCEPTION", "LOST"} \cup TR!RtoStatuses /\ stages[4 + 1] = {"OUT_FOR_DELIVERY", "COMPLETED"}
  OBVIOUS
<1> HIDE DEF stages
<1>3. ASSUME NEW n \in 0 .. 4, s \in stages[n + 1], \A m \in 0 .. 4 : s \in stages[m + 1] => m = n
      PROVE  TR!ShipmentStage[s] = n
  BY <1>1, <1>3
<1>4. s \in {"DRAFT"} \cup TrClosedEarly => TR!ShipmentStage[s] = 0
  BY <1>2, <1>3 DEF TrClosedEarly, TR!RtoStatuses, TR!RtoLeg
<1>5. s = "OPEN" => TR!ShipmentStage[s] = 1
  BY <1>2, <1>3 DEF TrClosedEarly, TR!RtoStatuses, TR!RtoLeg
<1>6. s = "ASSIGNED" => TR!ShipmentStage[s] = 2
  BY <1>2, <1>3 DEF TrClosedEarly, TR!RtoStatuses, TR!RtoLeg
<1>7. s \in {"IN_TRANSIT", "EXCEPTION", "LOST"} \cup TR!RtoStatuses => TR!ShipmentStage[s] = 3
  BY <1>2, <1>3 DEF TrClosedEarly, TR!RtoStatuses, TR!RtoLeg
<1>8. s \in {"OUT_FOR_DELIVERY", "COMPLETED"} => TR!ShipmentStage[s] = 4
  BY <1>2, <1>3 DEF TrClosedEarly, TR!RtoStatuses, TR!RtoLeg
<1> QED BY <1>4, <1>5, <1>6, <1>7, <1>8

\* What a status has reached of the steps, and how that goes with the row it was read in.
LEMMA TrReached ==
    ASSUME NEW r, NEW gone, TrRowFits(r, gone)
    PROVE  /\ TR!IsShipmentPickedUp(r.status) <=> r.status \notin {"ASSIGNED"} \cup TrBefore
           /\ TR!IsStepperStageReached(r.status, 4) <=> r.status \in {"OUT_FOR_DELIVERY", "COMPLETED"}
           /\ r.pur # "none" \/ TR!IsShipmentPickedUp(r.status) \/ TR!IsStepperStageReached(r.status, 2) => TR!IsStepperStageReached(r.status, 1)
           /\ TR!IsStepperStageReached(r.status, 4) => TR!IsShipmentPickedUp(r.status)
           /\ TR!IsShipmentPickedUp(r.status) => TR!IsStepperStageReached(r.status, 2)
           /\ TR!IsShipmentPickedUp(r.status) <=> gone \/ TR!HeldAtPickup(r)
           /\ TR!IsClosed(r.status) /\ TR!IsStepperStageReached(r.status, 4) <=> r.status = "COMPLETED"
<1>1. r.status \in TR!Statuses
  BY DEF TrRowFits, TrRows
<1>2. \/ r.status \in {"DRAFT"} \cup TrClosedEarly /\ TR!ShipmentStage[r.status] = 0
      \/ r.status = "OPEN" /\ TR!ShipmentStage[r.status] = 1
      \/ r.status = "ASSIGNED" /\ TR!ShipmentStage[r.status] = 2
      \/ r.status \in {"IN_TRANSIT", "EXCEPTION", "LOST"} \cup TR!RtoStatuses /\ TR!ShipmentStage[r.status] = 3
      \/ r.status \in {"OUT_FOR_DELIVERY", "COMPLETED"} /\ TR!ShipmentStage[r.status] = 4
  BY <1>1, TrStages DEF TR!Statuses, TR!PrePickup, TR!OnTheWay, TR!Terminal, TR!RtoStatuses, TR!RtoLeg, TrClosedEarly
<1>3. TR!IsShipmentPickedUp(r.status) <=> r.status \notin {"ASSIGNED"} \cup TrBefore
  BY <1>2 DEF TR!IsShipmentPickedUp, TR!IsStepperStageReached, TR!InTransit, TrBefore, TrClosedEarly, TR!RtoStatuses, TR!RtoLeg
<1>4. TR!IsStepperStageReached(r.status, 4) <=> r.status \in {"OUT_FOR_DELIVERY", "COMPLETED"}
  BY <1>2 DEF TR!IsStepperStageReached, TrClosedEarly, TR!RtoStatuses, TR!RtoLeg
<1>5. /\ TR!IsStepperStageReached(r.status, 4) => TR!IsShipmentPickedUp(r.status)
      /\ TR!IsShipmentPickedUp(r.status) => TR!IsStepperStageReached(r.status, 2)
      /\ TR!IsStepperStageReached(r.status, 2) => TR!IsStepperStageReached(r.status, 1)
  BY <1>2 DEF TR!IsShipmentPickedUp, TR!IsStepperStageReached, TR!InTransit
<1>6. r.pur # "none" => TR!IsStepperStageReached(r.status, 1)
  BY <1>2 DEF TrRowFits, TrBefore, TrClosedEarly, TR!IsStepperStageReached
<1>7. TR!IsShipmentPickedUp(r.status) <=> gone \/ TR!HeldAtPickup(r)
  BY <1>3 DEF TrRowFits, TR!HeldAtPickup, TrBefore
<1>8. TR!IsClosed(r.status) /\ TR!IsStepperStageReached(r.status, 4) <=> r.status = "COMPLETED"
  BY <1>4 DEF TR!IsClosed, TR!Terminal, TR!RtoStatuses, TR!RtoLeg
<1> QED BY <1>3, <1>4, <1>5, <1>6, <1>7, <1>8

\* The first time of a status is that of its first entry.
LEMMA TrFirstTime ==
    ASSUME NEW acts, TrTimed(acts), TrFirsts(acts), NEW to, TR!FirstTime(acts, to) # None
    PROVE  /\ TR!FirstTime(acts, to) \in DOMAIN acts /\ acts[TR!FirstTime(acts, to)].to = to
           /\ \A j \in DOMAIN acts : acts[j].to = to => TR!FirstTime(acts, to) <= j
<1> DEFINE at == {i \in DOMAIN acts : acts[i].to = to}
           first == CHOOSE i \in at : \A j \in at : i <= j
<1>1. at # {} /\ TR!FirstTime(acts, to) = acts[first].time
  BY DEF TR!FirstTime
<1>2. \E i \in at : \A j \in at : i <= j
  BY <1>1 DEF TrFirsts, TrTold
<1>3. first \in at /\ \A j \in at : first <= j
  BY <1>2
<1>4. acts[first].time = first
  BY <1>3 DEF TrTimed
<1> HIDE DEF first
<1> QED BY <1>1, <1>3, <1>4

\* The stepper of the buyer's page: its second step is reached when the parcel has left the seller, the last when it
\* was delivered, and the line ends at a step that was reached.
TrStepperIsTold ==
    LET now == page.read.row.status
        stepper == TR!TrackingStepper(TR!PublicTrackingSteps(now))
        green == {i \in 1 .. 5 : stepper.bubbles[i] = "brand"}
    IN  /\ 2 \in green <=> page.read.left \/ TR!HeldAtPickup(page.read.row)
        /\ 5 \in green <=> now = "COMPLETED"
        /\ stepper.filled \in green

LEMMA TrBuyer == ASSUME NEW gone, TrRowFits(page.read.row, gone), gone = page.read.left PROVE TrStepperIsTold
<1> DEFINE r == page.read.row
           now == r.status
           steps == TR!PublicTrackingSteps(now)
           stepper == TR!TrackingStepper(steps)
<1>1. /\ DOMAIN steps = 1 .. 5 /\ Len(steps) = 5
      /\ steps[1].reached /\ ~steps[1].alert
      /\ (steps[2].reached <=> TR!IsShipmentPickedUp(now)) /\ ~steps[2].alert
      /\ (steps[3].reached <=> TR!IsShipmentPickedUp(now)) /\ ~steps[3].alert
      /\ (steps[4].reached <=> TR!IsStepperStageReached(now, 4)) /\ ~steps[4].alert
      /\ (steps[5].reached <=> TR!IsClosed(now)) /\ (steps[5].alert <=> TR!IsClosed(now) /\ now # "COMPLETED")
  <2> DEFINE a == TR!Step("Booked", TRUE, FALSE)
             b == TR!Step("Picked up", TR!IsShipmentPickedUp(now), FALSE)
             c == TR!Step("In transit", TR!IsShipmentPickedUp(now), FALSE)
             d == TR!Step("Out for delivery", TR!IsStepperStageReached(now, 4), FALSE)
             e == TR!Step(IF TR!IsClosed(now) THEN TR!PublicStatusLabel(now) ELSE TR!ClosingStepLabel(now),
                          TR!IsClosed(now), TR!IsClosed(now) /\ now # "COMPLETED")
  <2>1. steps = <<a, b, c, d, e>>
    BY DEF TR!PublicTrackingSteps, TR!OutForDelivery
  <2>2. a.reached /\ ~a.alert
    BY DEF TR!Step
  <2>3. (b.reached <=> TR!IsShipmentPickedUp(now)) /\ ~b.alert
    BY DEF TR!Step
  <2>4. (c.reached <=> TR!IsShipmentPickedUp(now)) /\ ~c.alert
    BY DEF TR!Step
  <2>5. (d.reached <=> TR!IsStepperStageReached(now, 4)) /\ ~d.alert
    BY DEF TR!Step
  <2>6. (e.reached <=> TR!IsClosed(now)) /\ (e.alert <=> TR!IsClosed(now) /\ now # "COMPLETED")
    BY DEF TR!Step
  <2> HIDE DEF steps, a, b, c, d, e
  <2>7. DOMAIN <<a, b, c, d, e>> = 1 .. 5 /\ Len(<<a, b, c, d, e>>) = 5
    OBVIOUS
  <2>8. steps[1] = a /\ steps[2] = b /\ steps[3] = c /\ steps[4] = d /\ steps[5] = e
    BY <2>1
  <2> QED BY <2>1, <2>2, <2>3, <2>4, <2>5, <2>6, <2>7, <2>8
<1>2. stepper.bubbles = [i \in 1 .. 5 |-> TR!StepBubble(steps[i])] /\ stepper.filled = TR!ContiguousProgress(steps)
  BY <1>1 DEF TR!TrackingStepper
<1> HIDE DEF steps, stepper
<1>3. /\ TR!IsStepperStageReached(now, 4) => TR!IsShipmentPickedUp(now)
      /\ TR!IsShipmentPickedUp(now) <=> page.read.left \/ TR!HeldAtPickup(r)
      /\ TR!IsClosed(now) /\ TR!IsStepperStageReached(now, 4) <=> now = "COMPLETED"
  BY TrReached
<1>4. stepper.bubbles[2] = "brand" <=> page.read.left \/ TR!HeldAtPickup(r)
  BY <1>1, <1>2, <1>3 DEF TR!StepBubble
<1>5. stepper.bubbles[5] = "brand" <=> now = "COMPLETED"
  <2>1. stepper.bubbles[5] = TR!StepBubble(steps[5])
    BY <1>2
  <2>2. TR!StepBubble(steps[5]) = "brand" <=> steps[5].reached /\ ~steps[5].alert
    BY DEF TR!StepBubble
  <2> QED BY <1>1, <1>3, <2>1, <2>2
<1>6. \E n \in 1 .. 5 : (\A i \in 1 .. n : steps[i].reached) /\ (n = 5 \/ ~steps[n + 1].reached)
  <2>1. CASE ~TR!IsShipmentPickedUp(now)
    BY <1>1, <2>1, \A i \in 1 .. 1 : i = 1, 1 + 1 = 2
  <2>2. CASE TR!IsShipmentPickedUp(now) /\ ~TR!IsStepperStageReached(now, 4)
    BY <1>1, <2>2, \A i \in 1 .. 3 : i = 1 \/ i = 2 \/ i = 3, 3 + 1 = 4
  <2>3. CASE TR!IsStepperStageReached(now, 4) /\ ~TR!IsClosed(now)
    BY <1>1, <1>3, <2>3, \A i \in 1 .. 4 : i = 1 \/ i = 2 \/ i = 3 \/ i = 4, 4 + 1 = 5
  <2>4. CASE TR!IsStepperStageReached(now, 4) /\ TR!IsClosed(now)
    BY <1>1, <1>3, <2>4, \A i \in 1 .. 5 : i = 1 \/ i = 2 \/ i = 3 \/ i = 4 \/ i = 5
  <2> QED BY <2>1, <2>2, <2>3, <2>4
<1>7. PICK n \in 1 .. 5 : n = stepper.filled /\ \A i \in 1 .. n : steps[i].reached
  BY <1>1, <1>2, <1>6 DEF TR!ContiguousProgress
<1>8. steps[n].reached /\ (n = 5 => steps[4].reached)
  BY <1>7
<1>9. ~steps[n].alert
  BY <1>1, <1>3, <1>8, n = 1 \/ n = 2 \/ n = 3 \/ n = 4 \/ n = 5
<1>10. stepper.bubbles[n] = "brand"
  BY <1>2, <1>8, <1>9 DEF TR!StepBubble
<1> QED BY <1>4, <1>5, <1>7, <1>10 DEF TrStepperIsTold, stepper, steps

\* The steps of the seller's page agree with the buyer's, follow each other, and their times go forward.
LEMMA TrSeller ==
    ASSUME NEW gone, TrRowFits(page.read.row, gone), Reader = "staff" => TrTimed(page.read.acts) /\ TrInOrder(page.read.acts)
    PROVE  TR!SellerIsTold
<1> DEFINE r == page.read.row
           acts == page.read.acts
           now == r.status
           stages == TR!BuildTrackingStages(r, acts)
           steps == TR!PublicTrackingSteps(now)
<1>1. /\ Len(stages) = 6
      /\ stages[1].completed = TRUE
      /\ stages[2].completed = TR!IsStepperStageReached(now, 1)
      /\ stages[3].completed = (r.pur # "none" \/ TR!IsStepperStageReached(now, 2)) /\ stages[3].time = TR!FirstTime(acts, "ASSIGNED")
      /\ stages[4].completed = TR!IsShipmentPickedUp(now) /\ stages[4].time = TR!FirstTime(acts, "IN_TRANSIT")
      /\ stages[5].completed = TR!IsStepperStageReached(now, 4) /\ stages[5].time = TR!FirstTime(acts, "OUT_FOR_DELIVERY")
      /\ stages[6].completed = TR!IsClosed(now)
  BY DEF TR!BuildTrackingStages, TR!Stage, TR!ReadyToShip, TR!PickupScheduled, TR!OutForDelivery
<1>2. /\ steps[2].reached = TR!IsShipmentPickedUp(now)
      /\ steps[4].reached = TR!IsStepperStageReached(now, 4)
      /\ steps[5].reached = TR!IsClosed(now)
  BY DEF TR!PublicTrackingSteps, TR!Step, TR!OutForDelivery
<1> HIDE DEF stages, steps
<1>3. ASSUME NEW i \in 1 .. 4, TR!StepperLines(stages)[i] PROVE stages[i].completed
  <2>1. stages[i + 1].completed
    BY <1>1, <1>3 DEF TR!StepperLines
  <2>2. /\ r.pur # "none" \/ TR!IsStepperStageReached(now, 2) => TR!IsStepperStageReached(now, 1)
        /\ TR!IsStepperStageReached(now, 4) => TR!IsShipmentPickedUp(now)
        /\ TR!IsShipmentPickedUp(now) => TR!IsStepperStageReached(now, 2)
    BY TrReached
  <2>3. i = 1 \/ i = 2 \/ i = 3 \/ i = 4
    OBVIOUS
  <2>4. CASE i = 1
    BY <1>1, <2>4
  <2>5. CASE i = 2
    BY <1>1, <2>1, <2>2, <2>5, 2 + 1 = 3
  <2>6. CASE i = 3
    BY <1>1, <2>1, <2>2, <2>6, 3 + 1 = 4
  <2>7. CASE i = 4
    BY <1>1, <2>1, <2>2, <2>7, 4 + 1 = 5
  <2> QED BY <2>3, <2>4, <2>5, <2>6, <2>7
<1>4. ASSUME Reader = "staff", NEW i \in 3 .. 5, NEW j \in 3 .. 5, i < j, stages[i].time # None, stages[j].time # None
      PROVE  stages[i].time < stages[j].time
  <2>1. acts \in Seq(TrActs) /\ DOMAIN acts \subseteq Nat /\ TrTimed(acts) /\ TrInOrder(acts) /\ TrFirsts(acts)
    BY <1>4 DEF TrTimed, TrInOrder
  <2> DEFINE t(to) == TR!FirstTime(acts, to)
  <2>2. \A to : t(to) # None => t(to) \in DOMAIN acts /\ acts[t(to)].to = to /\ \A k \in DOMAIN acts : acts[k].to = to => t(to) <= k
    BY <2>1, TrFirstTime
  <2> HIDE DEF t
  <2>3. ASSUME NEW first, NEW second, TrToldBefore(acts, first, second), t(first) # None, t(second) # None PROVE t(first) < t(second)
    <3>1. PICK k \in DOMAIN acts : k < t(second) /\ acts[k].to = first
      BY <2>2, <2>3 DEF TrToldBefore
    <3>2. t(first) <= k /\ t(first) \in Nat /\ t(second) \in Nat /\ k \in Nat
      BY <2>1, <2>2, <2>3, <3>1
    <3> QED BY <3>1, <3>2
  <2>4. TrToldBefore(acts, "ASSIGNED", "OUT_FOR_DELIVERY")
    <3> SUFFICES ASSUME NEW k \in DOMAIN acts, acts[k].to = "OUT_FOR_DELIVERY"
                 PROVE  \E m \in DOMAIN acts : m < k /\ acts[m].to = "ASSIGNED"
      BY DEF TrToldBefore
    <3>1. PICK l \in DOMAIN acts : l < k /\ acts[l].to = "IN_TRANSIT"
      BY <2>1 DEF TrInOrder, TrToldBefore
    <3>2. PICK m \in DOMAIN acts : m < l /\ acts[m].to = "ASSIGNED"
      BY <2>1, <3>1 DEF TrInOrder, TrToldBefore
    <3> QED BY <2>1, <3>1, <3>2
  <2>5. (i = 3 /\ j = 4) \/ (i = 4 /\ j = 5) \/ (i = 3 /\ j = 5)
    BY <1>4
  <2>6. stages[3].time = t("ASSIGNED") /\ stages[4].time = t("IN_TRANSIT") /\ stages[5].time = t("OUT_FOR_DELIVERY")
    BY <1>1 DEF t
  <2> QED BY <1>4, <2>1, <2>3, <2>4, <2>5, <2>6 DEF TrInOrder
<1> QED BY <1>1, <1>2, <1>3, <1>4 DEF TR!SellerIsTold, stages, steps

\* Types; the seller and the staff are told one story: the steps shown are those the status has reached, one after the
\* other, at times that go forward; and the stepper of the buyer's page says that a parcel was picked up when it
\* has left the seller. (That the badge is among the milestones told below it is left to the run.)
THEOREM JourneyTold ==
    ASSUME TrConstants
    PROVE  TR!Spec => []( /\ TR!TypeOK
                          /\ Reader # "buyer" => TR!ActedAsShown
                          /\ page # None /\ page.at = "shown" => TrStepperIsTold)
<1>1. TR!Init => TrInv
  BY TrInit
<1>2. TrInv /\ [TR!Next]_TR!vars => TrInv'
  BY TrNext
<1>3. TrInv => /\ TR!TypeOK
               /\ Reader # "buyer" => TR!ActedAsShown
               /\ page # None /\ page.at = "shown" => TrStepperIsTold
  <2> SUFFICES ASSUME TrInv
               PROVE  /\ TR!TypeOK
                      /\ Reader # "buyer" => TR!ActedAsShown
                      /\ page # None /\ page.at = "shown" => TrStepperIsTold
    OBVIOUS
  <2>1. TR!TypeOK
    BY DEF TrInv, TrParcel, TrRowFits, TrRows, TrLog, TrPage, TrAsked, TR!TypeOK
  <2>2. ASSUME page # None, page.at = "shown"
        PROVE  /\ TrRowFits(page.read.row, page.read.left)
               /\ Reader = "staff" => TrTimed(page.read.acts) /\ TrInOrder(page.read.acts)
    BY <2>2 DEF TrInv, TrPage, TrRead
  <2>3. Reader # "buyer" => TR!ActedAsShown
    BY <2>2, TrSeller DEF TR!ActedAsShown
  <2>4. page # None /\ page.at = "shown" => TrStepperIsTold
    BY <2>2, TrBuyer
  <2> QED BY <2>1, <2>3, <2>4
<1> QED BY <1>1, <1>2, <1>3, PTL DEF TR!Spec
=============================================================================
