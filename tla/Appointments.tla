---------------------------- MODULE Appointments ----------------------------
(***************************************************************************)
(* Manage Appointments (b2b/appointments/page.tsx) and its dialog: tabs and   *)
(* filters read again under a person who ticks LRs, one window booked for one *)
(* or for many of them one after the other, and others who book, hold and     *)
(* release the same LRs. Nothing that is sent says what it was chosen against.*)
(***************************************************************************)
EXTENDS Naturals, FiniteSets

CONSTANTS None,
    Lrs, PageOf,                \* the LRs, and the page each is listed on
    CanBook,
    Loads, MaxTurns, MaxOthers, MaxPresses

VARIABLES
    window, hold, wrong, others,                        \* the server, by LR
    tab, search, page, turns,                           \* the place
    data, error, loading, cached, loads, newest, refreshed,
    selectedIds,
    dialogRows, form,                                   \* what the dialog is open for, and the window in it
    presses, saving

vars == <<window, hold, wrong, others, tab, search, page, turns, data, error, loading, cached, loads, newest, refreshed,
          selectedIds, dialogRows, form, presses, saving>>
serverVars == <<window, hold, wrong, others>>
placeVars == <<tab, search, page, turns>>
listVars == <<data, error, loading, cached, loads, newest, refreshed>>

Tabs == {"pending", "booked"}
Pages == {PageOf[p] : p \in Lrs}
Keys == Tabs \X BOOLEAN \X Pages
Idle == [of |-> None, rows |-> None, cold |-> FALSE]
NothingCached == [k \in Keys |-> None]
NoRows == [p \in {} |-> None]

-----------------------------------------------------------------------------
(* The server.                                                             *)

Row(p) == [window |-> window[p]]

\* A search finds the first LR only.
Listed(key) ==
    [p \in {q \in Lrs : (key[1] = "pending") = (window[q] = None) /\ PageOf[q] = key[3] /\ (key[2] => q = 1)} |-> Row(p)]

\* update_appointment: an LR on hold is booked only when the hold waits for that, and is off hold then.
WaitsForIt(p) == hold[p] # "other"
AnyHold(p) == TRUE
MayBook(p) == WaitsForIt(p)

UpdateAppointment(p, w) ==
    /\ window' = [window EXCEPT ![p] = w] /\ hold' = [hold EXCEPT ![p] = "none"]
    /\ wrong' = wrong \cup (IF hold[p] = "other" THEN {p} ELSE {}) /\ UNCHANGED others

OthersAct ==
    /\ others < MaxOthers /\ others' = others + 1
    /\ \E p \in Lrs : \/ window' = [window EXCEPT ![p] = "theirs"] /\ window' # window /\ UNCHANGED hold
                      \/ /\ hold' = [hold EXCEPT ![p] = IF @ = "none" THEN "other" ELSE "none"] /\ UNCHANGED window
    /\ UNCHANGED <<wrong, placeVars, listVars, selectedIds, dialogRows, form, presses, saving>>

-----------------------------------------------------------------------------
(* The list.                                                               *)

\* The list effect: the reads before it are ignored, and what is cached is shown at once only until
\* the first booking.
Fetch(key, slot, fresh) ==
    /\ loads[slot] = Idle /\ newest' = slot
    /\ loads' = [loads EXCEPT ![slot] = [of |-> key, rows |-> None, cold |-> cached[key] = None]]
    /\ IF cached[key] # None /\ fresh THEN data' = [of |-> key, rows |-> cached[key]] /\ loading' = FALSE
       ELSE UNCHANGED data /\ loading' = (loading \/ cached[key] = None)
    /\ UNCHANGED <<cached, error>>

Here == <<tab, search, page>>

Init ==
    /\ window \in [Lrs -> {None}] /\ hold \in [Lrs -> {"none", "appointment"}] /\ wrong = {} /\ others = 0
    /\ tab = "pending" /\ search = FALSE /\ page = 1 /\ turns = 0
    /\ data = [of |-> None, rows |-> NoRows] /\ error = FALSE /\ loading = TRUE /\ cached = NothingCached
    /\ \E m \in Loads : newest = m /\ loads = [n \in Loads |-> IF n = m THEN [Idle EXCEPT !.of = Here, !.cold = TRUE] ELSE Idle]
    /\ refreshed = FALSE /\ selectedIds = {} /\ dialogRows = NoRows /\ form = None /\ presses = 0 /\ saving = None

ReadList(m) ==
    /\ loads[m].of # None /\ loads[m].rows = None /\ loads' = [loads EXCEPT ![m].rows = Listed(loads[m].of)]
    /\ UNCHANGED <<serverVars, placeVars, data, error, loading, cached, newest, refreshed, selectedIds, dialogRows, form, presses, saving>>

\* if (ignore) return.
ShowNewest(m) == m = newest
Shows(m) == ShowNewest(m)

\* The dialog keeps the rows it was opened with.
FormFollows == None
FormKept == form
FormOnReload == FormKept

ListAnswered(m) ==
    /\ loads[m].rows # None /\ loads' = [loads EXCEPT ![m] = Idle]
    /\ cached' = [cached EXCEPT ![loads[m].of] = loads[m].rows] /\ form' = FormOnReload
    /\ IF Shows(m) THEN data' = [of |-> loads[m].of, rows |-> loads[m].rows] /\ error' = FALSE /\ loading' = FALSE
       ELSE UNCHANGED <<data, error, loading>>
    /\ UNCHANGED <<serverVars, placeVars, newest, refreshed, selectedIds, dialogRows, presses, saving>>

\* Told only when nothing of the place was cached.
ListFails(m) ==
    /\ loads[m].of # None /\ loads' = [loads EXCEPT ![m] = Idle]
    /\ error' = (error \/ (m = newest /\ loads[m].cold)) /\ loading' = (loading /\ m # newest)
    /\ UNCHANGED <<serverVars, placeVars, data, cached, newest, refreshed, selectedIds, dialogRows, form, presses, saving>>

-----------------------------------------------------------------------------
(* Moving about and ticking; an open dialog covers the page.               *)

IsOpen == DOMAIN dialogRows # {}
Browsing == ~IsOpen

\* The effect of a filter: the first page, and nothing selected.
TicksOnFilter == {}

ChangePlace(t, s, p, slot) ==
    /\ Browsing /\ turns < MaxTurns /\ turns' = turns + 1 /\ <<t, s, p>> # Here
    /\ tab' = t /\ search' = s /\ page' = p
    /\ selectedIds' = IF <<t, s>> = <<tab, search>> THEN selectedIds ELSE TicksOnFilter
    /\ Fetch(<<t, s, p>>, slot, ~refreshed)
    /\ UNCHANGED <<serverVars, refreshed, dialogRows, form, presses, saving>>

ChangeFilter(slot) == \E t \in Tabs, s \in BOOLEAN : (t = tab \/ s = search) /\ <<t, s>> # <<tab, search>> /\ ChangePlace(t, s, 1, slot)
TurnPage(slot) == \E p \in Pages : p # page /\ ChangePlace(tab, search, p, slot)

ToggleRow ==
    /\ Browsing /\ CanBook /\ \E p \in DOMAIN data.rows : selectedIds' = IF p \in selectedIds THEN selectedIds \ {p} ELSE selectedIds \cup {p}
    /\ UNCHANGED <<serverVars, placeVars, listVars, dialogRows, form, presses, saving>>

ToggleAll ==
    /\ Browsing /\ CanBook /\ DOMAIN data.rows # {}
    /\ selectedIds' = IF DOMAIN data.rows \subseteq selectedIds THEN {} ELSE DOMAIN data.rows
    /\ UNCHANGED <<serverVars, placeVars, listVars, dialogRows, form, presses, saving>>

\* Ticks outlive their rows, on other pages too, but only rows of the list can be booked.
EveryTick == [p \in selectedIds |-> IF p \in DOMAIN data.rows THEN data.rows[p] ELSE [window |-> "gone"]]
ListedTicks == [p \in selectedIds \cap DOMAIN data.rows |-> data.rows[p]]
SelectedRows == ListedTicks

-----------------------------------------------------------------------------
(* BookAppointmentDialog.                                                  *)

\* One LR brings its window with it, several start with none.
Prefilled(rows) == IF Cardinality(DOMAIN rows) = 1 THEN rows[CHOOSE p \in DOMAIN rows : TRUE].window ELSE None

Open(rows) ==
    /\ CanBook /\ Browsing /\ DOMAIN rows # {} /\ dialogRows' = rows /\ form' = Prefilled(rows)
    /\ UNCHANGED <<serverVars, placeVars, listVars, selectedIds, presses, saving>>

OpenRow == \E p \in DOMAIN data.rows : Open([q \in {p} |-> data.rows[p]])
OpenBulk == Open(SelectedRows)

\* Escape, also while it is saving.
Close ==
    /\ IsOpen /\ dialogRows' = NoRows
    /\ UNCHANGED <<serverVars, placeVars, listVars, selectedIds, form, presses, saving>>

ChooseWindow ==
    /\ IsOpen /\ form # "mine" /\ form' = "mine"
    /\ UNCHANGED <<serverVars, placeVars, listVars, selectedIds, dialogRows, presses, saving>>

HandleSubmit ==
    /\ IsOpen /\ saving = None /\ form # None /\ presses < MaxPresses /\ presses' = presses + 1
    /\ saving' = [rows |-> DOMAIN dialogRows, left |-> DOMAIN dialogRows, form |-> form, done |-> {}, booked |-> 0, failed |-> 0]
    /\ UNCHANGED <<serverVars, placeVars, listVars, selectedIds, dialogRows, form>>

\* The loop: one LR after the other, and the next one although this one failed.
BookNext(reaches, answers) ==
    /\ saving # None /\ saving.left # {}
    /\ LET p == CHOOSE q \in saving.left : \A r \in saving.left : q <= r
           ok == reaches /\ MayBook(p)
       IN  /\ IF ok THEN UpdateAppointment(p, saving.form) ELSE UNCHANGED serverVars
           /\ saving' = [saving EXCEPT !.left = @ \ {p}, !.done = IF ok THEN @ \cup {p} ELSE @,
                                       !.booked = IF ok /\ answers THEN @ + 1 ELSE @, !.failed = IF ok /\ answers THEN @ ELSE @ + 1]
           /\ cached' = IF reaches /\ ~ok THEN cached ELSE NothingCached
    /\ UNCHANGED <<placeVars, data, error, loading, loads, newest, refreshed, selectedIds, dialogRows, form, presses>>

\* One booked is enough to close whichever dialog is open, to drop the ticks and to read again.
SaysCounts(s) == [booked |-> s.booked, failed |-> s.failed]
Toast(s) == SaysCounts(s)

Finished(slot) ==
    /\ saving # None /\ saving.left = {} /\ saving' = None
    /\ IF saving.booked > 0
       THEN dialogRows' = NoRows /\ selectedIds' = {} /\ refreshed' = TRUE /\ Fetch(Here, slot, FALSE)
       ELSE UNCHANGED <<dialogRows, selectedIds, listVars>>
    /\ UNCHANGED <<serverVars, placeVars, form, presses>>

Next ==
    \/ OthersAct \/ ToggleRow \/ ToggleAll \/ OpenRow \/ OpenBulk \/ Close \/ ChooseWindow \/ HandleSubmit
    \/ \E m \in Loads : ReadList(m) \/ ListAnswered(m) \/ ListFails(m) \/ ChangeFilter(m) \/ TurnPage(m) \/ Finished(m)
    \/ \E a, b \in BOOLEAN : BookNext(a, b)

Spec == Init /\ [][Next]_vars

-----------------------------------------------------------------------------
TypeOK ==
    /\ \A p \in Lrs : window[p] \in {None, "mine", "theirs"} /\ hold[p] \in {"none", "appointment", "other"}
    /\ Here \in Keys /\ selectedIds \subseteq Lrs /\ form \in {None, "mine", "theirs"} /\ loading \in BOOLEAN

\* The rows on the screen are those of the place chosen last, unless they are being read or could not
\* be, while nothing has been booked; the dialog is open for rows that were listed when it was
\* opened, whatever had been ticked elsewhere; and what the toast
\* counts as booked was booked for LRs of that dialog, however many failed.
ActedAsShown ==
    /\ ~refreshed /\ data.of # Here => loading \/ error
    /\ saving # None => saving.done \subseteq saving.rows \ saving.left /\ saving.form # None
    /\ saving # None => Toast(saving).booked <= Cardinality(saving.done)
    /\ \A p \in DOMAIN dialogRows : dialogRows[p].window # "gone"

\* A booking ends no hold that waits for something else.
OncePerIntent == wrong = {}

\* Reads, answers and failures leave the window that is being chosen as it is.
KeepsTyping ==
    (IsOpen /\ (loads' # loads \/ saving' # saving)) => UNCHANGED form
=============================================================================
