----------------------------- MODULE EditOrder -----------------------------
(***************************************************************************)
(* The edit pages of an order (shipments/[id]/edit, b2b/shipments/[id]/edit): *)
(* the form holds what was loaded, the server prices the change while it is   *)
(* typed, and Save sends only what differs from what was loaded. Others edit  *)
(* the same order and it moves on while the form is open.                    *)
(***************************************************************************)
EXTENDS Naturals

CONSTANTS None,
    Fields,                     \* what the form holds: "weight" is priced, "docs" are uploaded
    Editable,                   \* by stage of the order, the fields this viewer may still change
    Asks, MaxOthers

VARIABLES
    row, stage, paid, others,   \* the server: the order, how far it is, and the price it is billed
    initialValues, form, read,  \* what was loaded, what the form holds, and the read
    preview, asks,              \* the price shown, and the requests for one
    upload, save, told

vars == <<row, stage, paid, others, initialValues, form, read, preview, asks, upload, save, told>>
serverVars == <<row, stage, paid, others>>
formVars == <<initialValues, form>>

Values == {"old", "mine", "theirs"}
Stages == DOMAIN Editable
IdleState == [price |-> None, rejected |-> {}, of |-> None, loading |-> FALSE]
NoAsk == [of |-> None, at |-> "idle", price |-> None, rejected |-> {}, cancelled |-> FALSE]
Typed == Fields \ {"docs"}

-----------------------------------------------------------------------------
(* The server.                                                             *)

Price(r) == IF "weight" \in Fields THEN r["weight"] ELSE "old"
Applied(r, change) == [f \in Fields |-> IF f \in DOMAIN change THEN change[f] ELSE r[f]]

\* assert_edit_allowed: the first refusal is answered.
Refused(change) == DOMAIN change \ Editable[stage]

\* update_shipment on the locked row re-prices it and settles the difference; "twice" is a price
\* that is taken in full again.
BilledOnTop(change) ==
    IF "weight" \notin DOMAIN change THEN paid
    ELSE [price |-> change["weight"], twice |-> paid.twice \/ change["weight"] = paid.price]
BilledTo(change) == IF "weight" \in DOMAIN change THEN [paid EXCEPT !.price = change["weight"]] ELSE paid
Billed(change) == BilledTo(change)

\* Another editor changes a field; the parcel is picked up and delivered.
OthersAct ==
    /\ others < MaxOthers /\ others' = others + 1
    /\ \/ \E f \in Fields : /\ row[f] # "theirs" /\ f \in Editable[stage]
                            /\ row' = [row EXCEPT ![f] = "theirs"] /\ paid' = Billed([g \in {f} |-> "theirs"])
                            /\ UNCHANGED stage
       \/ stage + 1 \in Stages /\ stage' = stage + 1 /\ UNCHANGED <<row, paid>>
    /\ UNCHANGED <<formVars, read, preview, asks, upload, save, told>>

-----------------------------------------------------------------------------
(* The form and its change.                                                *)

Init ==
    /\ row = [f \in Fields |-> "old"] /\ stage \in Stages /\ paid = [price |-> "old", twice |-> FALSE] /\ others = 0
    /\ initialValues = None /\ form = None /\ read = [at |-> "going", row |-> None]
    /\ preview = IdleState /\ asks = [m \in Asks |-> NoAsk] /\ upload = None /\ save = None /\ told = None

\* _buildEditChange: what differs from what was loaded.
EverythingIn(now) == now
ChangedOnly(now) == [f \in {g \in Fields : now[g] # initialValues[g]} |-> now[f]]
BuildEditChange(now) == ChangedOnly(now)

OnForm == initialValues # None /\ told # "saved"

\* RepricePreviewPanel shows a price only when no newer one is on its way.
PriceShown == preview.price # None /\ ~preview.loading

ServeRead(reaches) ==
    /\ read.at = "going" /\ read' = IF reaches THEN [at |-> "read", row |-> row] ELSE [read EXCEPT !.at = "failed"]
    /\ UNCHANGED <<serverVars, formVars, preview, asks, upload, save, told>>

Loaded ==
    /\ read.at = "read" /\ initialValues' = read.row /\ form' = read.row /\ read' = [at |-> "done", row |-> None]
    /\ UNCHANGED <<serverVars, preview, asks, upload, save, told>>

\* The effect of useRepricePreview: the request for the change before is cancelled, the last price
\* stays under "Checking revised charges", and a form put back asks for nothing.
KeepAsks(slot, change) == IF DOMAIN change = {} THEN asks ELSE [asks EXCEPT ![slot] = [NoAsk EXCEPT !.of = change, !.at = "waiting"]]
CancelAsks(slot, change) ==
    LET cancelled == [m \in Asks |-> IF asks[m].at = "idle" THEN asks[m] ELSE [asks[m] EXCEPT !.cancelled = TRUE]]
    IN  IF DOMAIN change = {} THEN cancelled
        ELSE [cancelled EXCEPT ![slot] = [NoAsk EXCEPT !.of = change, !.at = "waiting"]]
AsksAfter(slot, change) == CancelAsks(slot, change)

Edit(f, v, slot) ==
    /\ OnForm /\ form[f] # v /\ asks[slot].at = "idle" /\ form' = [form EXCEPT ![f] = v]
    /\ LET change == BuildEditChange(form')
       IN  /\ asks' = AsksAfter(slot, change)
           /\ preview' = IF DOMAIN change = {} THEN IdleState ELSE [preview EXCEPT !.loading = TRUE]
    /\ UNCHANGED <<serverVars, initialValues, read, save, told>>

TypeField(slot) ==
    OnForm /\ UNCHANGED upload /\ \E f \in Typed : \E v \in {"mine", initialValues[f]} : Edit(f, v, slot)

\* The timer of a cancelled request never fires.
AskPreview(m) ==
    /\ asks[m].at = "waiting"
    /\ asks' = [asks EXCEPT ![m] = IF @.cancelled THEN NoAsk ELSE [@ EXCEPT !.at = "going"]]
    /\ UNCHANGED <<serverVars, formVars, read, preview, upload, save, told>>

Priced(change) == [price |-> Price(Applied(row, change)), rejected |-> Refused(change)]

ServePreview(m, reaches) ==
    /\ asks[m].at = "going"
    /\ asks' = [asks EXCEPT ![m] = IF reaches THEN [@ EXCEPT !.at = "priced", !.price = Priced(asks[m].of).price,
                                                             !.rejected = Priced(asks[m].of).rejected]
                                   ELSE [@ EXCEPT !.at = "failed"]]
    /\ UNCHANGED <<serverVars, formVars, read, preview, upload, save, told>>

PreviewAnswered(m) ==
    /\ asks[m].at \in {"priced", "failed"} /\ asks' = [asks EXCEPT ![m] = NoAsk]
    /\ preview' = IF asks[m].cancelled THEN preview
                  ELSE IF asks[m].at = "failed" THEN IdleState
                  ELSE [price |-> asks[m].price, rejected |-> asks[m].rejected, of |-> asks[m].of, loading |-> FALSE]
    /\ UNCHANGED <<serverVars, formVars, read, upload, save, told>>

-----------------------------------------------------------------------------
(* Documents.                                                              *)

HandleFileUpload ==
    /\ OnForm /\ "docs" \in Fields /\ upload = None /\ form["docs"] = initialValues["docs"] /\ upload' = "going"
    /\ UNCHANGED <<serverVars, formVars, read, preview, asks, save, told>>

\* A save that is under way goes without the document.
UploadAnswered(slot) == upload = "going" /\ upload' = None /\ Edit("docs", "mine", slot)

UploadFailed ==
    /\ upload = "going" /\ upload' = None
    /\ UNCHANGED <<serverVars, formVars, read, preview, asks, save, told>>

-----------------------------------------------------------------------------
(* Save.                                                                   *)

\* The last price is taken for the check, also one of an earlier change, and asked for when there is none.
HandleSaveChanges ==
    /\ OnForm /\ save = None /\ preview.rejected = {}
    /\ LET change == BuildEditChange(form)
       IN  IF DOMAIN change = {} THEN told' = "nothing" /\ told # told' /\ UNCHANGED save
           ELSE /\ save' = [of |-> change, base |-> initialValues, typed |-> form, at |-> IF preview.price # None THEN "going" ELSE "checking"]
                /\ told' = None
    /\ UNCHANGED <<serverVars, formVars, read, preview, asks, upload>>

ServeCheck(reaches) ==
    /\ save # None /\ save.at = "checking"
    /\ save' = [save EXCEPT !.at = IF ~reaches THEN "failed" ELSE IF Refused(save.of) = {} THEN "going" ELSE "refused"]
    /\ UNCHANGED <<serverVars, formVars, read, preview, asks, upload, told>>

ServeSave(reaches, answers) ==
    /\ save # None /\ save.at = "going"
    /\ LET ok == reaches /\ Refused(save.of) = {}
       IN  /\ IF ok THEN row' = Applied(row, save.of) /\ paid' = Billed(save.of) ELSE UNCHANGED <<row, paid>>
           /\ save' = [save EXCEPT !.at = IF ok /\ answers THEN "answered" ELSE "failed"]
    /\ UNCHANGED <<stage, others, formVars, read, preview, asks, upload, told>>

\* The page is left for the order's.
SaveAnswered ==
    /\ save # None /\ save.at = "answered" /\ save' = None /\ told' = "saved"
    /\ UNCHANGED <<serverVars, formVars, read, preview, asks, upload>>

\* What was typed stays for the next try.
FormReset == initialValues
FormStays == form
FormOnFailure == FormStays

SaveFailed ==
    /\ save # None /\ save.at \in {"failed", "refused"} /\ save' = None /\ told' = save.at /\ form' = FormOnFailure
    /\ UNCHANGED <<serverVars, initialValues, read, preview, asks, upload>>

Next ==
    \/ OthersAct \/ Loaded \/ HandleFileUpload \/ UploadFailed \/ HandleSaveChanges \/ SaveAnswered \/ SaveFailed
    \/ \E m \in Asks : TypeField(m) \/ AskPreview(m) \/ PreviewAnswered(m) \/ UploadAnswered(m)
    \/ \E a \in BOOLEAN : ServeRead(a) \/ ServeCheck(a) \/ \E m \in Asks : ServePreview(m, a)
    \/ \E a, b \in BOOLEAN : ServeSave(a, b)

Spec == Init /\ [][Next]_vars

-----------------------------------------------------------------------------
TypeOK ==
    /\ \A f \in Fields : row[f] \in Values /\ (form # None => form[f] \in Values)
    /\ stage \in Stages /\ preview.loading \in BOOLEAN /\ told \in {None, "nothing", "saved", "failed", "refused"}

\* A save carries no field that its person left as it was loaded, so that it undoes nobody's edit of
\* it; and a price that is shown as checked is that of the form as it stands, although requests for
\* it are answered in any order.
ActedAsShown ==
    /\ save # None => \A f \in DOMAIN save.of : save.typed[f] # save.base[f] /\ save.of[f] = save.typed[f]
    /\ PriceShown => preview.of = BuildEditChange(form)

\* The order is billed its price, and that price once, although a lost answer has it saved again.
OncePerIntent == paid.price = Price(row) /\ ~paid.twice

\* Prices, refusals, lost answers and other editors leave the form as it is.
KeepsTyping ==
    (row' # row \/ save' # save \/ \E m \in Asks : asks[m].at \in {"going", "priced", "failed"} /\ asks'[m].at # asks[m].at)
    => UNCHANGED form
=============================================================================
