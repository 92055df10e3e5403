--------------------------- MODULE ExceptionDesk ---------------------------
(***************************************************************************)
(* The delivery exceptions of one flow (exceptions-workspace.tsx) and the     *)
(* dialog that answers one, or books many (exception-action-dialogs.tsx):     *)
(* tabs, pages and narrowings read again under a person who ticks rows, bulk   *)
(* answers, and parcels that others answer or hold again meanwhile.           *)
(***************************************************************************)
EXTENDS Naturals, FiniteSets, NdrRules

CONSTANTS None,
    Parcels, ReasonOf, TabOf, PageOf,   \* the parcels that can be on hold, why, and where they are listed
    IsB2B,
    MayWrite, CanAcceptCharges,         \* ExceptionViewerRights
    Ways,                               \* what is used: "dialog", "bulk"
    Loads, MaxTurns, MaxHolds

VARIABLES
    hold, holds, answers, debits,               \* the server, by parcel
    tab, narrowed, page, turns,                 \* where the person is
    listData, cached, loads, newest, loading, error,
    selectedIds,
    dialog, typed,                              \* what the dialog was opened for; its fields
    submitting, bulk, told                      \* the two single flights, and the last toast

vars == <<hold, holds, answers, debits, tab, narrowed, page, turns, listData, cached, loads, newest, loading, error,
          selectedIds, dialog, typed, submitting, bulk, told>>
serverVars == <<hold, holds, answers, debits>>
placeVars == <<tab, narrowed, page, turns>>
listVars == <<listData, cached, loads, newest, loading, error>>
dialogVars == <<dialog, typed, submitting>>

Tabs == {TabOf[p] : p \in Parcels}
Pages == {PageOf[p] : p \in Parcels}
Keys == Tabs \X BOOLEAN \X Pages
Idle == [of |-> None, rows |-> None, cold |-> FALSE]
NoToast == [said |-> 0, done |-> 0]
NothingCached == [key \in Keys |-> None]

-----------------------------------------------------------------------------
(* The server.                                                             *)

HeldFrom(p) == IF ReasonOf[p] = "PICKUP_FAILED" THEN "ASSIGNED" ELSE "IN_TRANSIT"
WalletDebitActions == {"ACKNOWLEDGE_CHARGES", "ACCEPT_WEIGHT", "RETURN_TO_ORIGIN", "UPDATE_PAYMENT_MODE"}

\* A row: what may be done, nothing unless it waits for its merchant.
Row(p) == [actionable |-> hold[p] = "merchant",
           allowed |-> IF hold[p] = "merchant" THEN AllowedActions(ReasonOf[p], "FORWARD", IsB2B, HeldFrom(p)) ELSE {}]
Listed(key) == [p \in {q \in Parcels : /\ hold[q] # "none" /\ TabOf[q] = key[1] /\ PageOf[q] = key[3]
                                       /\ key[2] => hold[q] = "merchant"} |-> Row(p)]

\* _assert_action_allowed, on the locked row.
StillHeld(p) == hold[p] = "merchant"
AnyState(p) == TRUE
CheckedHold(p) == StillHeld(p)

Accepted(p, action) ==
    /\ CheckedHold(p) /\ action \in AllowedActions(ReasonOf[p], "FORWARD", IsB2B, HeldFrom(p))
    /\ action \in WalletDebitActions => CanAcceptCharges

\* Every handler but the two that wait for operations takes the parcel off hold.
Answer(done, action) ==
    /\ hold' = [p \in Parcels |-> IF p \notin done THEN hold[p] ELSE IF action \in AwaitingOpsActions THEN "ops" ELSE "none"]
    /\ answers' = [p \in Parcels |-> IF p \in done THEN answers[p] + 1 ELSE answers[p]]
    /\ debits' = [p \in Parcels |-> IF p \in done /\ action \in WalletDebitActions THEN debits[p] + 1 ELSE debits[p]]
    /\ UNCHANGED holds

\* Staff resolve a parcel, the carrier holds it again for the same reason.
OthersAct ==
    /\ \E p \in Parcels :
          \/ hold[p] # "none" /\ hold' = [hold EXCEPT ![p] = "none"] /\ UNCHANGED holds
          \/ /\ hold[p] = "none" /\ holds[p] < MaxHolds
             /\ hold' = [hold EXCEPT ![p] = "merchant"] /\ holds' = [holds EXCEPT ![p] = @ + 1]
    /\ UNCHANGED <<answers, debits, placeVars, listVars, selectedIds, dialogVars, bulk, told>>

-----------------------------------------------------------------------------
(* The list.                                                               *)

Visible(row) ==
    IF ~MayWrite THEN {} ELSE IF CanAcceptCharges THEN row.allowed ELSE row.allowed \ WalletDebitActions

\* The effect of a place or a refresh: the cached list at once, the reads before it ignored.
Fetch(key, slot) ==
    /\ loads[slot] = Idle /\ newest' = slot
    /\ loads' = [loads EXCEPT ![slot] = [of |-> key, rows |-> None, cold |-> cached'[key] = None]]
    /\ IF cached'[key] = None THEN loading' = TRUE /\ UNCHANGED listData
       ELSE listData' = cached'[key] /\ UNCHANGED loading
    /\ UNCHANGED error

Here == <<tab, narrowed, page>>

Init ==
    /\ hold \in [Parcels -> {"merchant", "ops"}] /\ holds = [p \in Parcels |-> 1]
    /\ answers = [p \in Parcels |-> 0] /\ debits = [p \in Parcels |-> 0]
    /\ tab \in Tabs /\ narrowed = FALSE /\ page = 1 /\ turns = 0
    /\ cached = NothingCached /\ listData = [p \in {} |-> None] /\ loading = TRUE /\ error = FALSE
    /\ \E slot \in Loads : newest = slot /\ loads = [m \in Loads |-> IF m = slot THEN [Idle EXCEPT !.of = Here, !.cold = TRUE] ELSE Idle]
    /\ selectedIds = {} /\ dialog = None /\ typed = FALSE /\ submitting = None /\ bulk = None /\ told = NoToast

ReadList(m) ==
    /\ loads[m].of # None /\ loads[m].rows = None
    /\ loads' = [loads EXCEPT ![m].rows = Listed(loads[m].of)]
    /\ UNCHANGED <<serverVars, placeVars, listData, cached, newest, loading, error, selectedIds, dialogVars, bulk, told>>

\* The row of an open dialog was kept when it was opened.
FieldsReset == FALSE
FieldsOnReload == typed

\* if (ignore) return.
ShowAny(m) == TRUE
ShowNewest(m) == m = newest
Shows(m) == ShowNewest(m)

ListAnswered(m) ==
    /\ loads[m].rows # None /\ loads' = [loads EXCEPT ![m] = Idle] /\ cached' = [cached EXCEPT ![loads[m].of] = loads[m].rows]
    /\ IF Shows(m) THEN listData' = loads[m].rows /\ loading' = FALSE /\ error' = FALSE
       ELSE UNCHANGED <<listData, loading, error>>
    /\ typed' = FieldsOnReload
    /\ UNCHANGED <<serverVars, placeVars, newest, selectedIds, dialog, submitting, bulk, told>>

\* Told only where nothing was there to show; the rows before it stay.
ListFails(m) ==
    /\ loads[m].of # None /\ loads' = [loads EXCEPT ![m] = Idle]
    /\ IF m = newest THEN loading' = FALSE /\ error' = (error \/ loads[m].cold) ELSE UNCHANGED <<loading, error>>
    /\ UNCHANGED <<serverVars, placeVars, listData, cached, newest, selectedIds, dialogVars, bulk, told>>

\* A tab drops the ticks; a narrowing (search, actionable only) and a page keep them.
Browsing == dialog = None /\ turns < MaxTurns /\ turns' = turns + 1

HandleCategoryChange(c, slot) ==
    /\ Browsing /\ c # tab /\ tab' = c /\ page' = 1 /\ selectedIds' = {} /\ UNCHANGED <<narrowed, cached>>
    /\ Fetch(<<c, narrowed, 1>>, slot) /\ UNCHANGED <<serverVars, dialogVars, bulk, told>>

Narrow(slot) ==
    /\ Browsing /\ narrowed' = ~narrowed /\ page' = 1 /\ UNCHANGED cached /\ Fetch(<<tab, ~narrowed, 1>>, slot)
    /\ UNCHANGED <<serverVars, tab, selectedIds, dialogVars, bulk, told>>

TurnPage(g, slot) ==
    /\ Browsing /\ ~loading /\ g \in {page + 1, page - 1} /\ page' = g /\ UNCHANGED cached /\ Fetch(<<tab, narrowed, g>>, slot)
    /\ UNCHANGED <<serverVars, tab, narrowed, selectedIds, dialogVars, bulk, told>>

Refresh(slot) ==
    /\ Browsing /\ ~loading /\ UNCHANGED cached /\ Fetch(Here, slot)
    /\ UNCHANGED <<serverVars, tab, narrowed, page, selectedIds, dialogVars, bulk, told>>

ActionableRows == {p \in DOMAIN listData : listData[p].actionable}

\* toggleRowSelection and toggleAllOnPage.
Tick ==
    /\ "bulk" \in Ways /\ dialog = None
    /\ \/ \E p \in ActionableRows : selectedIds' = IF p \in selectedIds THEN selectedIds \ {p} ELSE selectedIds \cup {p}
       \/ ActionableRows # {} /\ selectedIds' = IF ActionableRows \subseteq selectedIds THEN selectedIds \ ActionableRows
                                                 ELSE selectedIds \cup ActionableRows
       \/ selectedIds # {} /\ bulk = None /\ selectedIds' = {}
    /\ UNCHANGED <<serverVars, placeVars, listVars, dialogVars, bulk, told>>

-----------------------------------------------------------------------------
(* The answers.                                                            *)

\* What the person has before them at a press.
Offer(ids, action) == \A p \in ids : p \in DOMAIN listData /\ action \in Visible(listData[p])
Eligible(among, action) == {p \in among \cap DOMAIN listData : action \in Visible(listData[p])}
EveryTick(action) == selectedIds
EligibleTicks(action) == Eligible(selectedIds, action)
BulkIds(action) == EligibleTicks(action)

Open(ids, action, many) ==
    /\ dialog' = [ids |-> ids, action |-> action, many |-> many, offered |-> Offer(ids, action)] /\ typed' = FALSE
    /\ UNCHANGED <<serverVars, placeVars, listVars, submitting, bulk, told>>

OpenSingleActionDialog ==
    /\ "dialog" \in Ways /\ dialog = None /\ UNCHANGED selectedIds
    /\ \E p \in ActionableRows : \E action \in Visible(listData[p]) : Open({p}, action, FALSE)

\* From the bar, or from the header: the ticked ones, else every one of the page.
OpenBulkAppointment ==
    /\ "bulk" \in Ways /\ dialog = None
    /\ LET ids == BulkIds("BOOK_APPOINTMENT")
           all == Eligible(ActionableRows, "BOOK_APPOINTMENT")
       IN  \/ ids # {} /\ UNCHANGED selectedIds /\ Open(ids, "BOOK_APPOINTMENT", TRUE)
           \/ ids = {} /\ all # {} /\ IsB2B /\ selectedIds' = all /\ Open(all, "BOOK_APPOINTMENT", TRUE)

TypeInDialog ==
    /\ dialog # None /\ ~typed /\ typed' = TRUE
    /\ UNCHANGED <<serverVars, placeVars, listVars, selectedIds, dialog, submitting, bulk, told>>

\* Escape; Cancel is not offered while an answer is under way.
CloseDialog ==
    /\ dialog # None /\ dialog' = None
    /\ UNCHANGED <<serverVars, placeVars, listVars, selectedIds, typed, submitting, bulk, told>>

HandleSubmit ==
    /\ dialog # None /\ submitting = None
    /\ submitting' = [ids |-> dialog.ids, action |-> dialog.action, many |-> dialog.many, offered |-> dialog.offered,
                      todo |-> dialog.ids, said |-> 0, done |-> 0, lost |-> FALSE]
    /\ UNCHANGED <<serverVars, placeVars, listVars, selectedIds, dialog, typed, bulk, told>>

\* One call after the other, each failing alone; an answer that is lost counts as a failure. Only a
\* call that was refused leaves the cached lists (api-config.ts).
SubmitNext(p, reaches, answered) ==
    /\ submitting # None /\ p \in submitting.todo
    /\ LET done == IF reaches /\ Accepted(p, submitting.action) THEN {p} ELSE {}
           n == Cardinality(done)
       IN  /\ Answer(done, submitting.action)
           /\ submitting' = [submitting EXCEPT !.todo = @ \ {p}, !.done = @ + n, !.said = IF answered THEN @ + n ELSE @,
                                               !.lost = @ \/ ~answered \/ n = 0]
           /\ cached' = IF reaches /\ answered /\ n = 0 THEN cached ELSE NothingCached
    /\ UNCHANGED <<placeVars, listData, loads, newest, loading, error, selectedIds, dialog, typed, bulk, told>>

\* Closes the dialog that is open by now, and drops every tick.
Submitted(slot) ==
    /\ submitting # None /\ submitting.todo = {} /\ (submitting.many \/ ~submitting.lost)
    /\ submitting' = None /\ told' = [said |-> submitting.said, done |-> submitting.done]
    /\ dialog' = None /\ selectedIds' = {} /\ UNCHANGED cached /\ Fetch(Here, slot)
    /\ UNCHANGED <<serverVars, placeVars, typed, bulk>>

SubmitFailed ==
    /\ submitting # None /\ submitting.todo = {} /\ ~submitting.many /\ submitting.lost /\ submitting' = None
    /\ UNCHANGED <<serverVars, placeVars, listVars, selectedIds, dialog, typed, bulk, told>>

BulkEndpointActions == {"REATTEMPT", "RETURN_TO_ORIGIN", "RESCHEDULE_PICKUP", "CANCEL_PICKUP"}

\* Sent at once, nothing is asked.
HandleBulkActionClick(action) ==
    /\ "bulk" \in Ways /\ dialog = None /\ bulk = None /\ Eligible(selectedIds, action) # {}
    /\ bulk' = [ids |-> BulkIds(action), action |-> action, offered |-> Offer(BulkIds(action), action),
                at |-> "going", done |-> {}]
    /\ UNCHANGED <<serverVars, placeVars, listVars, selectedIds, dialogVars, told>>

\* apply_bulk_action: a savepoint for each parcel, and one commit.
ServeBulk(reaches, answered) ==
    /\ bulk # None /\ bulk.at = "going"
    /\ LET done == IF reaches THEN {p \in bulk.ids : Accepted(p, bulk.action)} ELSE {}
       IN  /\ Answer(done, bulk.action)
           /\ bulk' = [bulk EXCEPT !.at = IF reaches /\ answered THEN "answered" ELSE "failed", !.done = done]
    /\ UNCHANGED <<placeVars, listVars, selectedIds, dialogVars, told>>

\* res.succeeded.length
SaysAll(b) == Cardinality(b.ids)
SaysSucceeded(b) == Cardinality(b.done)
OkCount(b) == SaysSucceeded(b)

BulkAnswered(slot) ==
    /\ bulk # None /\ bulk.at = "answered" /\ bulk' = None /\ told' = [said |-> OkCount(bulk), done |-> Cardinality(bulk.done)]
    /\ selectedIds' = {} /\ cached' = NothingCached /\ Fetch(Here, slot) /\ UNCHANGED <<serverVars, placeVars, dialogVars>>

BulkFailed ==
    /\ bulk # None /\ bulk.at = "failed" /\ bulk' = None /\ cached' \in {cached, NothingCached}
    /\ UNCHANGED <<serverVars, placeVars, listData, loads, newest, loading, error, selectedIds, dialogVars, told>>

Next ==
    \/ OthersAct \/ Tick \/ OpenSingleActionDialog \/ OpenBulkAppointment \/ TypeInDialog \/ CloseDialog \/ HandleSubmit
    \/ SubmitFailed \/ BulkFailed \/ \E action \in BulkEndpointActions : HandleBulkActionClick(action)
    \/ \E m \in Loads :
          \/ ReadList(m) \/ ListAnswered(m) \/ ListFails(m) \/ Narrow(m) \/ Refresh(m) \/ Submitted(m) \/ BulkAnswered(m)
          \/ \E c \in Tabs : HandleCategoryChange(c, m)
          \/ \E g \in Pages : TurnPage(g, m)
    \/ \E a, b \in BOOLEAN : ServeBulk(a, b) \/ \E p \in Parcels : SubmitNext(p, a, b)

Spec == Init /\ [][Next]_vars

-----------------------------------------------------------------------------
TypeOK ==
    /\ hold \in [Parcels -> {"merchant", "ops", "none"}] /\ tab \in Tabs /\ page \in Pages /\ selectedIds \subseteq Parcels
    /\ DOMAIN listData \subseteq Parcels /\ loading \in BOOLEAN /\ error \in BOOLEAN /\ typed \in BOOLEAN

\* Once the newest read is in, the rows are those of the tab; an answer goes only to parcels that
\* were on the page with that action offered to this person when the button was pressed, and takes
\* money only for someone who may consent; and no more is claimed than the server did.
ActedAsShown ==
    /\ ~loading /\ ~error => \A p \in DOMAIN listData : TabOf[p] = tab
    /\ \A b \in {submitting, bulk} \ {None} :
          b.offered /\ MayWrite /\ (b.action \in WalletDebitActions => CanAcceptCharges)
    /\ told.said <= told.done

\* A hold is answered once and charged once, whichever of the dialog, the bar and the retries reach it.
OncePerIntent == \A p \in Parcels : answers[p] <= holds[p] /\ debits[p] <= answers[p]

\* A list that is read again leaves the open dialog, its fields and the ticks alone.
KeepsTyping ==
    dialog # None /\ loads' # loads /\ UNCHANGED <<submitting, bulk>> => UNCHANGED <<dialog, typed, selectedIds>>
=============================================================================
