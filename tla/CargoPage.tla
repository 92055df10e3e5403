----------------------------- MODULE CargoPage -----------------------------
(***************************************************************************)
(* The page of one B2B order (b2b/shipments/[id]/page.tsx) where its hold is  *)
(* answered in place, by a document or by a delivery appointment, beside the  *)
(* dialog that books an appointment without a hold                            *)
(* (create-appointment-dialog.tsx). Neither request says which hold it means.  *)
(***************************************************************************)
EXTENDS Naturals, Sequences

CONSTANTS None,
    Reasons,            \* why the parcel may be held
    Ways,               \* what is used: "document", "appointment", "dialog"
    Dates, Slots,
    Loads, MaxHolds, MaxMoves

VARIABLES
    status, reason, heldFor, answered, window, moves,               \* the server
    shown, cached, loads,                                           \* the page and its reads
    documentType, date, slot, uploading, scheduling,                \* the hub of the hold
    open, form, bookings                                            \* CreateAppointmentDialog, and its requests

vars == <<status, reason, heldFor, answered, window, moves, shown, cached, loads,
          documentType, date, slot, uploading, scheduling, open, form, bookings>>
serverVars == <<status, reason, heldFor, answered, window, moves>>
pageVars == <<shown, cached, loads>>
hubVars == <<documentType, date, slot, uploading, scheduling>>
dialogVars == <<open, form, bookings>>

Idle == [live |-> FALSE, read |-> None]
Window(d, s) == [date |-> d, slot |-> s]
Windows == {Window(d, s) : d \in Dates, s \in Slots}
Blank == [date |-> None, slot |-> None]
Details == [status |-> status, reason |-> reason]

-----------------------------------------------------------------------------
(* The server.                                                             *)

\* The reason an answer resolves; the row is locked and looked at before anything is written.
ResolvedBy(answer) == IF answer = "document" THEN "DOCUMENT_NEEDED" ELSE "APPOINTMENT_NEEDED"
HeldForIt(answer) == status = "EXCEPTION" /\ reason = ResolvedBy(answer)
HeldAtAll(answer) == status = "EXCEPTION"
AnyState(answer) == TRUE
AssertActionAllowed(answer) == HeldForIt(answer)

Resolve(answer) ==
    /\ status' = "IN_TRANSIT" /\ reason' = None
    /\ answered' = [answered EXCEPT ![Len(heldFor)] = Append(@, answer)] /\ UNCHANGED <<heldFor, moves>>

\* update_appointment: any parcel that is not yet out for delivery, a hold only when it waits for this.
WaitsForIt == status = "EXCEPTION" => reason = "APPOINTMENT_NEEDED"
MayBook == WaitsForIt

\* The carrier holds the parcel, staff release it or take it out for delivery.
OthersAct ==
    /\ moves < MaxMoves /\ moves' = moves + 1
    /\ \/ /\ status # "EXCEPTION" /\ Len(heldFor) < MaxHolds
          /\ \E r \in Reasons : status' = "EXCEPTION" /\ reason' = r /\ heldFor' = Append(heldFor, r)
       \/ status = "EXCEPTION" /\ status' = "IN_TRANSIT" /\ reason' = None /\ UNCHANGED heldFor
       \/ status = "IN_TRANSIT" /\ status' = "OUT_FOR_DELIVERY" /\ UNCHANGED <<reason, heldFor>>
    /\ UNCHANGED <<answered, window, pageVars, hubVars, dialogVars>>

-----------------------------------------------------------------------------
(* The page.                                                               *)

Init ==
    /\ status = "EXCEPTION" /\ reason \in Reasons /\ heldFor = <<reason>> /\ answered = [k \in 1..MaxHolds |-> <<>>]
    /\ window = None /\ moves = 0
    /\ cached \in {None, Details} /\ shown = cached
    /\ \E m \in Loads : loads = [n \in Loads |-> IF n = m THEN [Idle EXCEPT !.live = TRUE] ELSE Idle]
    /\ documentType = "OTHER" /\ date = None /\ slot = None /\ uploading = None /\ scheduling = None
    /\ open = FALSE /\ form = Blank /\ bookings = {}

\* The dialog is mounted with its button: when the page shows a parcel that is not in transit it is
\* lost with what was typed, and a request it had under way goes on without it.
Offers(details) == "dialog" \in Ways /\ details # None /\ details.status = "IN_TRANSIT"
Show(details) ==
    /\ shown' = details
    /\ IF Offers(details) THEN UNCHANGED dialogVars
       ELSE open' = FALSE /\ form' = Blank /\ bookings' = {[b EXCEPT !.mine = FALSE] : b \in bookings}

ReadDetails(m) ==
    /\ loads[m].live /\ loads[m].read = None /\ loads' = [loads EXCEPT ![m].read = Details]
    /\ UNCHANGED <<serverVars, shown, cached, hubVars, dialogVars>>

DetailsAnswered(m) ==
    /\ loads[m].read # None /\ loads' = [loads EXCEPT ![m] = Idle]
    /\ cached' = loads[m].read /\ Show(loads[m].read)
    /\ UNCHANGED <<serverVars, hubVars>>

DetailsFail(m) ==
    /\ loads[m].live /\ loads' = [loads EXCEPT ![m] = Idle]
    /\ UNCHANGED <<serverVars, shown, cached, hubVars, dialogVars>>

-----------------------------------------------------------------------------
(* The hub of a hold: there while the page shows one of its reason.         *)

Hub(answer) == answer \in Ways /\ shown # None /\ shown.status = "EXCEPTION" /\ shown.reason = ResolvedBy(answer)

ChooseDocumentType ==
    /\ Hub("document") /\ uploading = None /\ documentType' = IF documentType = "OTHER" THEN "INVOICE" ELSE "OTHER"
    /\ UNCHANGED <<serverVars, pageVars, date, slot, uploading, scheduling, dialogVars>>

\* Stored first, then named in the answer to the hold.
HandleFileUpload ==
    /\ Hub("document") /\ uploading = None /\ uploading' = [type |-> documentType, at |-> "storing"]
    /\ UNCHANGED <<serverVars, pageVars, documentType, date, slot, scheduling, dialogVars>>

DocumentStored(reaches) ==
    /\ uploading # None /\ uploading.at = "storing"
    /\ uploading' = [uploading EXCEPT !.at = IF reaches THEN "going" ELSE "failed"]
    /\ UNCHANGED <<serverVars, pageVars, documentType, date, slot, scheduling, dialogVars>>

ServeUpload(reaches, answers) ==
    /\ uploading # None /\ uploading.at = "going"
    /\ LET ok == reaches /\ AssertActionAllowed("document")
       IN  /\ IF ok THEN Resolve("document")
              ELSE UNCHANGED <<status, reason, heldFor, answered, moves>>
           /\ uploading' = [uploading EXCEPT !.at = IF ok /\ answers THEN "answered" ELSE "failed"]
    /\ UNCHANGED <<window, pageVars, documentType, date, slot, scheduling, dialogVars>>

\* Writes drop the cached details, also those that may have failed after they were made.
UploadAnswered(m) ==
    /\ uploading # None /\ uploading.at = "answered" /\ uploading' = None
    /\ ~loads[m].live /\ loads' = [loads EXCEPT ![m].live = TRUE] /\ cached' = None
    /\ UNCHANGED <<serverVars, shown, documentType, date, slot, scheduling, dialogVars>>

UploadFailed ==
    /\ uploading # None /\ uploading.at = "failed" /\ uploading' = None /\ cached' \in {cached, None}
    /\ UNCHANGED <<serverVars, shown, loads, documentType, date, slot, scheduling, dialogVars>>

ChooseWindow ==
    /\ Hub("appointment")
    /\ \/ date' \in Dates \ {date} /\ UNCHANGED slot
       \/ slot' \in Slots \ {slot} /\ UNCHANGED date
    /\ UNCHANGED <<serverVars, pageVars, documentType, uploading, scheduling, dialogVars>>

HandleScheduleAppointment ==
    /\ Hub("appointment") /\ scheduling = None /\ date # None /\ slot # None
    /\ scheduling' = [window |-> Window(date, slot), at |-> "going"]
    /\ UNCHANGED <<serverVars, pageVars, documentType, date, slot, uploading, dialogVars>>

ServeSchedule(reaches, answers) ==
    /\ scheduling # None /\ scheduling.at = "going"
    /\ LET ok == reaches /\ AssertActionAllowed("appointment")
       IN  /\ IF ok THEN Resolve("appointment") /\ window' = scheduling.window
              ELSE UNCHANGED <<status, reason, heldFor, answered, window, moves>>
           /\ scheduling' = [scheduling EXCEPT !.at = IF ok /\ answers THEN "answered" ELSE "failed"]
    /\ UNCHANGED <<pageVars, documentType, date, slot, uploading, dialogVars>>

ScheduleAnswered(m) ==
    /\ scheduling # None /\ scheduling.at = "answered" /\ scheduling' = None
    /\ ~loads[m].live /\ loads' = [loads EXCEPT ![m].live = TRUE] /\ cached' = None
    /\ UNCHANGED <<serverVars, shown, documentType, date, slot, uploading, dialogVars>>

\* What was chosen stays for the next try.
ScheduleFailed ==
    /\ scheduling # None /\ scheduling.at = "failed" /\ scheduling' = None /\ cached' \in {cached, None}
    /\ UNCHANGED <<serverVars, shown, loads, documentType, date, slot, uploading, dialogVars>>

-----------------------------------------------------------------------------
(* CreateAppointmentDialog.                                                *)

ToggleDialog ==
    /\ Offers(shown) /\ open' = ~open
    /\ UNCHANGED <<serverVars, pageVars, hubVars, form, bookings>>

FillForm ==
    /\ open
    /\ \/ \E d \in Dates \ {form.date} : form' = [form EXCEPT !.date = d]
       \/ \E s \in Slots \ {form.slot} : form' = [form EXCEPT !.slot = s]
    /\ UNCHANGED <<serverVars, pageVars, hubVars, open, bookings>>

HandleSubmit ==
    /\ open /\ ~(\E b \in bookings : b.mine) /\ form.date # None /\ form.slot # None
    /\ bookings' = bookings \cup {[window |-> Window(form.date, form.slot), at |-> "going", mine |-> TRUE]}
    /\ UNCHANGED <<serverVars, pageVars, hubVars, open, form>>

\* Booked, and the hold that came in between is over when it waited for this.
ServeBooking(b, reaches, answers) ==
    /\ b.at = "going"
    /\ LET ok == reaches /\ status # "OUT_FOR_DELIVERY" /\ MayBook
       IN  /\ IF ok THEN /\ window' = b.window
                         /\ IF status = "EXCEPTION" THEN Resolve("appointment") ELSE UNCHANGED <<status, reason, heldFor, answered, moves>>
              ELSE UNCHANGED <<status, reason, heldFor, answered, window, moves>>
           /\ bookings' = (bookings \ {b}) \cup {[b EXCEPT !.at = IF ok /\ answers THEN "answered" ELSE "failed"]}
    /\ UNCHANGED <<pageVars, hubVars, open, form>>

BookingAnswered(b, m) ==
    /\ b.at = "answered" /\ bookings' = bookings \ {b} /\ open' = (open /\ ~b.mine)
    /\ ~loads[m].live /\ loads' = [loads EXCEPT ![m].live = TRUE] /\ cached' = None
    /\ UNCHANGED <<serverVars, shown, hubVars, form>>

\* What was chosen stays for the next try.
FormReset == Blank
FormStays == form
FormOnFailure == FormStays

BookingFailed(b) ==
    /\ b.at = "failed" /\ bookings' = bookings \ {b} /\ cached' \in {cached, None} /\ form' = FormOnFailure
    /\ UNCHANGED <<serverVars, shown, loads, hubVars, open>>

Next ==
    \/ OthersAct \/ ChooseDocumentType \/ HandleFileUpload \/ UploadFailed \/ ChooseWindow \/ HandleScheduleAppointment
    \/ ScheduleFailed \/ ToggleDialog \/ FillForm \/ HandleSubmit
    \/ \E m \in Loads : ReadDetails(m) \/ DetailsAnswered(m) \/ DetailsFail(m) \/ UploadAnswered(m) \/ ScheduleAnswered(m)
    \/ \E b \in bookings : BookingFailed(b) \/ \E m \in Loads : BookingAnswered(b, m)
    \/ \E a \in BOOLEAN : DocumentStored(a)
    \/ \E a, b \in BOOLEAN : ServeUpload(a, b) \/ ServeSchedule(a, b) \/ \E r \in bookings : ServeBooking(r, a, b)

Spec == Init /\ [][Next]_vars

-----------------------------------------------------------------------------
TypeOK ==
    /\ status \in {"IN_TRANSIT", "EXCEPTION", "OUT_FOR_DELIVERY"} /\ (reason = None) = (status # "EXCEPTION")
    /\ heldFor \in Seq(Reasons) /\ window \in Windows \cup {None} /\ open \in BOOLEAN

\* However late an answer reaches the server, and although it does not name the hold it is for, it
\* ends only a hold that waited for an answer of its kind.
ActedAsShown ==
    \A k \in DOMAIN heldFor : \A i \in DOMAIN answered[k] : heldFor[k] = ResolvedBy(answered[k][i])

\* A hold is answered once, and is over then, although both buttons of the page and the dialog may
\* be under way and answers that were lost are tried again.
OncePerIntent ==
    /\ \A k \in 1..MaxHolds : Len(answered[k]) <= 1
    /\ reason # None => answered[Len(heldFor)] = <<>>

\* Reads, failures and answers leave what was chosen as it is, but for a read that takes the dialog
\* away with its button.
KeepsTyping ==
    loads' # loads \/ uploading' # uploading \/ scheduling' # scheduling \/ bookings' # bookings
    => UNCHANGED <<documentType, date, slot>> /\ (form' = form \/ ~Offers(shown'))
=============================================================================
