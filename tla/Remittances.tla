----------------------------- MODULE Remittances -----------------------------
(***************************************************************************)
(* The remittance pages (finances/remittances) with what the server makes of  *)
(* a batch: finance chooses a merchant, ticks the delivered COD parcels one    *)
(* bank transfer pays, and confirms the total the server computed. A preview   *)
(* follows every tick, and nothing asks whether an older one may still answer. *)
(***************************************************************************)
EXTENDS Naturals
LOCAL INSTANCE Functions

CONSTANTS None,
    Merchants, Parcels, Owner, Amount,      \* whose parcel it is, and the payout it brings
    Pending,                                \* parcels delivered when the page is opened
    CanManageFinance,
    Ways,                                   \* what is used: "batch", "list", "page"
    Previews, Loads, MaxPreviews, MaxOthers

VARIABLES
    parcel, debt, batches, others,                  \* the server; each batch as it was confirmed
    filter, shown, cached, loading, loads,          \* the list
    dialogOpen, merchantId, preview, previewLoading, selectedIds, typed, previews, asked, send,     \* the dialog
    detail, csv, told                               \* the page of one batch

vars == <<parcel, debt, batches, others, filter, shown, cached, loading, loads, dialogOpen, merchantId, preview,
          previewLoading, selectedIds, typed, previews, asked, send, detail, csv, told>>
serverVars == <<parcel, debt, batches, others>>
listVars == <<filter, shown, cached, loading, loads>>
formVars == <<merchantId, preview, selectedIds, typed>>
dialogVars == <<dialogOpen, formVars, previewLoading, previews, asked>>
pageVars == <<detail, csv>>

Idle == [at |-> "idle", of |-> None, rows |-> {}]
Filters == {"all", "today", "old"}
NothingCached == [f \in Filters |-> None]
NotAsked == [at |-> "idle", of |-> None, ids |-> None, seen |-> None]
NoBatch == [at |-> "idle", of |-> None, ids |-> {}, total |-> 0, seen |-> None]

-----------------------------------------------------------------------------
(* The server.                                                             *)

\* _build_remittance_lines.
TotalOf(ids) == FoldFunctionOnSet(LAMBDA a, b : a + b, 0, Amount, ids)

\* Delivered, and neither remitted nor settled to the wallet.
RemittableOf(m) == {p \in Parcels : Owner[p] = m /\ parcel[p] = "pending"}

\* preview_remittance: all of them when none is named.
PreviewOf(m, ids) ==
    [merchant |-> m, lines |-> RemittableOf(m), blocked |-> m \in debt,
     total |-> TotalOf(IF ids = None THEN RemittableOf(m) ELSE RemittableOf(m) \cap ids)]

\* The candidates are locked and read again.
AnyTicked(b) == b.ids \subseteq {p \in Parcels : Owner[p] = b.of}
StillEligible(b) == b.ids \subseteq RemittableOf(b.of)
Eligible(b) == StillEligible(b)

\* create_remittance compares the total with the one finance confirmed.
AnyTotal(b) == TRUE
TotalConfirmed(b) == TotalOf(b.ids) = b.total
TotalChecked(b) == TotalConfirmed(b)

MayRemit(b) == b.ids # {} /\ Eligible(b) /\ TotalChecked(b) /\ b.of \notin debt

\* A batch is of today; the one there before is not. The search finds the old one.
Batches == {0} \cup 1..2
Matches(f) == {n \in Batches : (n = 0 \/ \E b \in batches : b.number = n) /\ (f = "today" => n # 0) /\ (f = "old" => n = 0)}
Numbers == {b.number : b \in batches}

\* Deliveries, settlements to the wallet and debits of it.
OthersAct ==
    /\ others < MaxOthers /\ others' = others + 1
    /\ \/ \E p \in Parcels : parcel[p] = "transit" /\ parcel' = [parcel EXCEPT ![p] = "pending"] /\ UNCHANGED debt
       \/ \E m \in Merchants : RemittableOf(m) # {} /\ UNCHANGED debt
            /\ parcel' = [p \in Parcels |-> IF p \in RemittableOf(m) THEN "settled" ELSE parcel[p]]
       \/ \E m \in Merchants : debt' = (debt \cup {m}) \ (debt \cap {m}) /\ UNCHANGED parcel
    /\ UNCHANGED <<batches, listVars, dialogVars, send, pageVars, told>>

-----------------------------------------------------------------------------
(* The list.                                                               *)

Init ==
    /\ parcel = [p \in Parcels |-> IF p \in Pending THEN "pending" ELSE "transit"]
    /\ debt = {} /\ batches = {} /\ others = 0
    /\ filter = "all" /\ shown = {0} /\ cached = [NothingCached EXCEPT !["all"] = {0}] /\ loading = FALSE /\ loads = [l \in Loads |-> Idle]
    /\ dialogOpen = FALSE /\ merchantId = None /\ preview = None /\ previewLoading = FALSE
    /\ selectedIds = {} /\ typed = FALSE /\ previews = [v \in Previews |-> NotAsked] /\ asked = 0
    /\ send = NoBatch /\ detail = NotAsked /\ csv = "idle" /\ told = None

\* fetchRemittances: the cached rows at once, else those in view stay until it answers. A part without
\* "list" keeps its rows.
FetchRemittances(f, l) ==
    IF "list" \in Ways
    THEN loads[l].at = "idle" /\ loads' = [loads EXCEPT ![l] = [Idle EXCEPT !.at = "going", !.of = f]]
         /\ IF cached'[f] = None THEN loading' = TRUE /\ UNCHANGED shown ELSE shown' = cached'[f] /\ UNCHANGED loading
    ELSE UNCHANGED <<loads, loading, shown>>

AtList == ~dialogOpen /\ detail.of = None

\* The search box and the date, each read at once.
SetFilter(f, l) ==
    /\ "list" \in Ways /\ AtList /\ f # filter /\ filter' = f /\ UNCHANGED cached /\ FetchRemittances(f, l)
    /\ UNCHANGED <<serverVars, dialogVars, send, pageVars, told>>

Refresh(l) ==
    /\ "list" \in Ways /\ AtList /\ ~loading /\ UNCHANGED cached /\ FetchRemittances(filter, l)
    /\ UNCHANGED <<serverVars, filter, dialogVars, send, pageVars, told>>

ServeList(l, reaches) ==
    /\ loads[l].at = "going"
    /\ loads' = [loads EXCEPT ![l] = IF reaches THEN [@ EXCEPT !.at = "read", !.rows = Matches(loads[l].of)] ELSE [@ EXCEPT !.at = "failed"]]
    /\ UNCHANGED <<serverVars, filter, shown, cached, loading, dialogVars, send, pageVars, told>>

ListAnswered(l) ==
    /\ loads[l].at \in {"read", "failed"} /\ loads' = [loads EXCEPT ![l] = Idle] /\ loading' = FALSE
    /\ IF loads[l].at = "read" THEN shown' = loads[l].rows /\ cached' = [cached EXCEPT ![loads[l].of] = loads[l].rows]
       ELSE UNCHANGED <<shown, cached>>
    /\ UNCHANGED <<serverVars, filter, dialogVars, send, pageVars, told>>

\* The search also filters the rows in view; the date does not.
FilteredRemittances == {n \in shown : filter = "old" => n = 0}

-----------------------------------------------------------------------------
(* The dialog.                                                             *)

LoadMerchantPreview(m, ids, v) ==
    /\ asked < MaxPreviews /\ asked' = asked + 1 /\ previews[v].at = "idle" /\ previewLoading' = TRUE
    /\ previews' = [previews EXCEPT ![v] = [NotAsked EXCEPT !.at = "going", !.of = m, !.ids = ids]]

\* Opening it with a merchant left from before asks for the preview again.
OpenDialog(v) ==
    /\ "batch" \in Ways /\ CanManageFinance /\ AtList /\ dialogOpen' = TRUE
    /\ IF merchantId = None THEN UNCHANGED <<previewLoading, previews, asked>> ELSE LoadMerchantPreview(merchantId, None, v)
    /\ UNCHANGED <<serverVars, listVars, formVars, send, pageVars, told>>

\* The lines and ticks of the merchant before stay until the answer.
SetMerchantId(m, v) ==
    /\ dialogOpen /\ m # merchantId /\ merchantId' = m /\ LoadMerchantPreview(m, None, v)
    /\ UNCHANGED <<serverVars, listVars, dialogOpen, preview, selectedIds, typed, send, pageVars, told>>

PreviewPanel == IF dialogOpen /\ merchantId # None /\ preview # None THEN preview.lines ELSE {}
NextIds(p) == IF p \in selectedIds THEN selectedIds \ {p} ELSE selectedIds \cup {p}

HandleToggleShipment(p, v) ==
    /\ p \in PreviewPanel /\ selectedIds' = NextIds(p)
    /\ IF NextIds(p) = {} THEN UNCHANGED <<previewLoading, previews, asked>> ELSE LoadMerchantPreview(merchantId, NextIds(p), v)
    /\ UNCHANGED <<serverVars, listVars, dialogOpen, merchantId, preview, typed, send, pageVars, told>>

ServePreview(v, reaches) ==
    /\ previews[v].at = "going"
    /\ previews' = [previews EXCEPT ![v].at = IF reaches THEN "read" ELSE "failed",
                                    ![v].seen = IF reaches THEN PreviewOf(previews[v].of, previews[v].ids) ELSE None]
    /\ UNCHANGED <<serverVars, listVars, dialogOpen, formVars, previewLoading, asked, send, pageVars, told>>

\* Any answer ends the wait, for whatever merchant or ticks; one that named none ticks every line.
PreviewAnswered(v) ==
    /\ previews[v].at \in {"read", "failed"} /\ previews' = [previews EXCEPT ![v] = NotAsked] /\ previewLoading' = FALSE
    /\ preview' = IF previews[v].at = "read" THEN previews[v].seen ELSE preview
    /\ selectedIds' = IF previews[v].at = "read" /\ previews[v].ids = None THEN previews[v].seen.lines ELSE selectedIds
    /\ UNCHANGED <<serverVars, listVars, dialogOpen, merchantId, typed, asked, send, pageVars, told>>

\* The bank reference, the date and the number.
TypeTransfer ==
    /\ dialogOpen /\ ~typed /\ typed' = TRUE
    /\ UNCHANGED <<serverVars, listVars, dialogOpen, merchantId, preview, selectedIds, previewLoading, previews, asked, send, pageVars, told>>

\* Cancel waits for the request; Escape does not. The form stays behind the closed dialog.
CloseDialog ==
    /\ dialogOpen /\ dialogOpen' = FALSE
    /\ UNCHANGED <<serverVars, listVars, formVars, previewLoading, previews, asked, send, pageVars, told>>

MayCreate == dialogOpen /\ merchantId # None /\ preview # None /\ ~preview.blocked /\ ~previewLoading /\ selectedIds # {} /\ typed

HandleCreateBatch ==
    /\ MayCreate /\ send.at = "idle" /\ told' = None
    /\ send' = [at |-> "going", of |-> merchantId, ids |-> selectedIds, total |-> preview.total, seen |-> filter]
    /\ UNCHANGED <<serverVars, listVars, dialogVars, pageVars>>

ServeBatch(reaches, answers) ==
    /\ send.at = "going"
    /\ LET ok == reaches /\ MayRemit(send)
       IN  /\ IF ok THEN \E n \in Batches \ (Numbers \cup {0}) :
                            batches' = batches \cup {[number |-> n, merchant |-> send.of, ids |-> send.ids, total |-> send.total]}
              ELSE UNCHANGED batches
           /\ parcel' = IF ok THEN [p \in Parcels |-> IF p \in send.ids THEN "remitted" ELSE parcel[p]] ELSE parcel
           /\ send' = [send EXCEPT !.at = IF ok /\ answers THEN "answered" ELSE "failed"]
    /\ UNCHANGED <<debt, others, listVars, dialogVars, pageVars, told>>

\* A write that may have happened drops the cached rows (api-config.ts).
BatchAnswered(l) ==
    /\ send.at = "answered" /\ send' = NoBatch /\ told' = "processed" /\ dialogOpen' = FALSE
    /\ merchantId' = None /\ preview' = None /\ selectedIds' = {} /\ typed' = FALSE
    /\ cached' = (IF "list" \in Ways THEN NothingCached ELSE cached) /\ FetchRemittances(send.seen, l)
    /\ UNCHANGED <<serverVars, filter, previewLoading, previews, asked, pageVars>>

TypedLost == FALSE
TypedKept == typed
TypedOnFailure == TypedKept

BatchFailed ==
    /\ send.at = "failed" /\ send' = NoBatch /\ told' = "failed" /\ typed' = TypedOnFailure
    /\ \/ UNCHANGED cached
       \/ "list" \in Ways /\ cached' = NothingCached
    /\ UNCHANGED <<serverVars, filter, shown, loading, loads, dialogOpen, merchantId, preview, selectedIds, previewLoading, previews, asked, pageVars>>

-----------------------------------------------------------------------------
(* The page of one batch.                                                  *)

OpenDetail(n) ==
    /\ "page" \in Ways /\ AtList /\ n \in FilteredRemittances /\ detail' = [NotAsked EXCEPT !.of = n, !.at = "going"]
    /\ UNCHANGED <<serverVars, listVars, dialogVars, send, csv, told>>

\* A failure reads "not found".
DetailAnswered(reaches) ==
    /\ detail.at = "going"
    /\ detail' = IF reaches THEN [detail EXCEPT !.at = "read", !.seen = {b.ids : b \in {c \in batches : c.number = detail.of}}]
                 ELSE [detail EXCEPT !.at = "failed"]
    /\ UNCHANGED <<serverVars, listVars, dialogVars, send, csv, told>>

\* A batch without a breakdown is one line, itself.
BreakdownItems == IF detail.seen = {} THEN {detail.of} ELSE UNION detail.seen

\* The amount, the orders and the reference of a batch that was found.
DetailShown == detail.at = "read"

HandleDownloadCsv ==
    /\ DetailShown /\ BreakdownItems # {} /\ csv = "idle" /\ csv' = "going"
    /\ UNCHANGED <<serverVars, listVars, dialogVars, send, detail, told>>

CsvAnswered(reaches) ==
    /\ csv = "going" /\ csv' = "idle" /\ told' = IF reaches THEN "downloaded" ELSE "failed"
    /\ UNCHANGED <<serverVars, listVars, dialogVars, send, detail>>

BackToRemittances ==
    /\ detail.at \in {"read", "failed"} /\ csv = "idle" /\ detail' = NotAsked
    /\ UNCHANGED <<serverVars, listVars, dialogVars, send, csv, told>>

Next ==
    \/ OthersAct \/ TypeTransfer \/ CloseDialog \/ HandleCreateBatch \/ BatchFailed \/ HandleDownloadCsv \/ BackToRemittances
    \/ \E l \in Loads : ListAnswered(l) \/ Refresh(l) \/ BatchAnswered(l) \/ \E f \in Filters : SetFilter(f, l)
    \/ \E v \in Previews : PreviewAnswered(v) \/ OpenDialog(v)
    \/ \E v \in Previews, m \in Merchants : SetMerchantId(m, v)
    \/ \E v \in Previews, p \in Parcels : HandleToggleShipment(p, v)
    \/ \E n \in Batches : OpenDetail(n)
    \/ \E a \in BOOLEAN : (\E l \in Loads : ServeList(l, a)) \/ (\E v \in Previews : ServePreview(v, a)) \/ DetailAnswered(a) \/ CsvAnswered(a)
    \/ \E a, b \in BOOLEAN : ServeBatch(a, b)

Spec == Init /\ [][Next]_vars

-----------------------------------------------------------------------------
TypeOK ==
    /\ parcel \in [Parcels -> {"transit", "pending", "settled", "remitted"}] /\ debt \subseteq Merchants
    /\ shown \subseteq Batches /\ merchantId \in Merchants \cup {None} /\ selectedIds \subseteq Parcels
    /\ typed \in BOOLEAN /\ loading \in BOOLEAN /\ previewLoading \in BOOLEAN

\* A transfer recorded pays the merchant chosen, with the total finance saw when it was confirmed, whatever
\* previews crossed on the way.
ActedAsShown ==
    \A b \in batches : TotalOf(b.ids) = b.total /\ b.ids # {} /\ \A p \in b.ids : Owner[p] = b.merchant

\* A parcel is paid by one batch, however often the button is pressed after a lost answer.
OncePerIntent == \A b, c \in batches : b.number # c.number => b.ids \cap c.ids = {}

\* A batch that failed leaves what was chosen and typed.
KeepsTyping == (told' = "failed" /\ told # "failed" /\ csv = "idle") => UNCHANGED formVars
=============================================================================
