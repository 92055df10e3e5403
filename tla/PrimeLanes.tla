----------------------------- MODULE PrimeLanes -----------------------------
(***************************************************************************)
(* The table of Prime lanes (components/pricing-admin, services/prime_admin):  *)
(* rows edited in place, lanes switched on and off, and a file of lanes that   *)
(* is checked first and imported after. The lanes are the transporters of one  *)
(* route, of which one may be active.                                          *)
(***************************************************************************)
EXTENDS Naturals, FiniteSets

CONSTANTS None,
    Lanes, Seed,            \* transporters, and those with a row: the first of them is the active one
    Values, Files,          \* amounts, and files: functions from lanes to rows
    CanEdit, MaxEdits, MaxOthers

VARIABLES
    lanes, others,                          \* the server
    activeOnly, lanesShown, load,           \* the table
    draft, edits, row,                      \* the rows: what is typed, and their requests
    open, file, report, busy, told          \* the import dialog

vars == <<lanes, others, activeOnly, lanesShown, load, draft, edits, row, open, file, report, busy, told>>
serverVars == <<lanes, others>>
tableVars == <<activeOnly, lanesShown, load>>
rowVars == <<draft, edits, row>>
importVars == <<open, file, report, busy>>

Fields == {"rate", "docket"}
NoRows == [l \in {} |-> None]
Idle == [at |-> "idle", of |-> None, rows |-> NoRows]
NoPatch == [at |-> "idle", fields |-> {}, values |-> None, typed |-> {}, refreshed |-> FALSE, row |-> None]
NotBusy == [at |-> "idle", dry |-> TRUE, report |-> None]

-----------------------------------------------------------------------------
(* The server.                                                             *)

Existing(ls) == {l \in Lanes : ls[l] # None}
ActiveIn(ls) == {l \in Existing(ls) : ls[l].active}
ListLanes(active) == [l \in IF active THEN ActiveIn(lanes) ELSE Existing(lanes) |-> lanes[l]]

\* patch_lane: switching one on switches the route's other lane off.
Patched(l, p) ==
    IF "active" \notin p.fields
    THEN [lanes EXCEPT ![l] = [f \in DOMAIN lanes[l] |-> IF f \in p.fields THEN p.values[f] ELSE lanes[l][f]]]
    ELSE [m \in Lanes |-> IF m = l THEN [lanes[l] EXCEPT !.active = p.values.active]
                          ELSE IF m \in Existing(lanes) /\ p.values.active /\ ~lanes[l].active
                               THEN [lanes[m] EXCEPT !.active = FALSE] ELSE lanes[m]]

\* plan_lane_import: the active row of a file displaces the active lane the file does not name.
ActiveOf(f) == {l \in DOMAIN f : f[l].active}
DisplacesNone(ls, f) == {}
Displaces(ls, f) == IF ActiveOf(f) = {} THEN {} ELSE ActiveIn(ls) \ DOMAIN f
Displaced(ls, f) == Displaces(ls, f)
Errors(f) == Cardinality(ActiveOf(f)) > 1
PlanOf(ls, f) ==
    [created |-> DOMAIN f \ Existing(ls), blocked |-> Errors(f), off |-> Displaced(ls, f) \cup {l \in DOMAIN f \cap ActiveIn(ls) : ~f[l].active},
     updated |-> {l \in DOMAIN f \cap Existing(ls) : f[l] # ls[l] /\ f[l] # [ls[l] EXCEPT !.active = FALSE]}]

NoChanges(plan) == plan.created = {} /\ plan.updated = {} /\ plan.off = {}
AppliedPlan(ls, f) ==
    [l \in Lanes |-> IF l \in DOMAIN f THEN f[l] ELSE IF l \in Displaced(ls, f) THEN [ls[l] EXCEPT !.active = FALSE] ELSE ls[l]]

\* Another admin edits a lane, or switches one on.
OthersAct ==
    /\ others < MaxOthers /\ others' = others + 1
    /\ \E l \in Existing(lanes) :
        \/ \E f \in Fields, v \in Values : v # lanes[l][f] /\ lanes' = [lanes EXCEPT ![l][f] = v]
        \/ lanes' = Patched(l, [fields |-> {"active"}, values |-> [active |-> TRUE]])
    /\ UNCHANGED <<tableVars, rowVars, importVars, told>>

-----------------------------------------------------------------------------
(* The table.                                                              *)

First == CHOOSE l \in Seed : \A m \in Seed : l <= m
NewRow(active) == [rate |-> 1, docket |-> 1, active |-> active]

Init ==
    /\ lanes = [l \in Lanes |-> IF l \in Seed THEN NewRow(l = First) ELSE None] /\ others = 0
    /\ activeOnly = TRUE /\ lanesShown = NoRows /\ load = [Idle EXCEPT !.at = "going", !.of = TRUE]
    /\ draft = [l \in Lanes |-> None] /\ edits = 0 /\ row = [l \in Lanes |-> NoPatch]
    /\ open = FALSE /\ file = None /\ report = None /\ busy = NotBusy /\ told = None

\* The answer of a load that was overtaken is dropped.
Load(active) == load' = [Idle EXCEPT !.at = "going", !.of = active]

SetActiveOnly ==
    /\ ~open /\ activeOnly' = ~activeOnly /\ Load(~activeOnly)
    /\ UNCHANGED <<serverVars, lanesShown, rowVars, importVars, told>>

ServeLoad(reaches) ==
    /\ load.at = "going"
    /\ load' = IF reaches THEN [load EXCEPT !.at = "read", !.rows = ListLanes(load.of)] ELSE [load EXCEPT !.at = "failed"]
    /\ UNCHANGED <<serverVars, activeOnly, lanesShown, rowVars, importVars, told>>

\* A row that left the table takes what was typed in it along; one that stays keeps it, over its new values.
DraftsOver(rows) ==
    [l \in Lanes |-> IF draft[l] = None \/ l \notin DOMAIN rows THEN None
                     ELSE IF rows[l] # lanesShown[l] THEN [draft[l] EXCEPT !.refreshed = TRUE] ELSE draft[l]]

LoadAnswered ==
    /\ load.at \in {"read", "failed"} /\ load' = Idle
    /\ IF load.at = "read" THEN lanesShown' = load.rows /\ draft' = DraftsOver(load.rows) ELSE UNCHANGED <<lanesShown, draft>>
    /\ UNCHANGED <<serverVars, activeOnly, edits, row, importVars, told>>

-----------------------------------------------------------------------------
(* A row. One request of a row at a time is also assumed of a row that left   *)
(* the table and came back.                                                *)

Editable(l) == ~open /\ CanEdit /\ l \in DOMAIN lanesShown /\ row[l].at = "idle"

EditLane(l) ==
    /\ Editable(l) /\ draft[l] = None /\ edits < MaxEdits /\ edits' = edits + 1
    /\ draft' = [draft EXCEPT ![l] = [values |-> [f \in Fields |-> lanesShown[l][f]], typed |-> {}, refreshed |-> FALSE]]
    /\ UNCHANGED <<serverVars, tableVars, row, importVars, told>>

TypeLane(l, f, v) ==
    /\ Editable(l) /\ draft[l] # None /\ draft[l].values[f] # v
    /\ draft' = [draft EXCEPT ![l].values[f] = v, ![l].typed = @ \cup {f}]
    /\ UNCHANGED <<serverVars, tableVars, edits, row, importVars, told>>

Cancel(l) ==
    /\ Editable(l) /\ draft[l] # None /\ draft' = [draft EXCEPT ![l] = None]
    /\ UNCHANGED <<serverVars, tableVars, edits, row, importVars, told>>

\* buildLanePatch: the fields that differ from the row as it is shown.
WholeDraft(l) == Fields
ChangedFields(l) == {f \in Fields : draft[l].values[f] # lanesShown[l][f]}
PatchFields(l) == ChangedFields(l)

Save(l) ==
    /\ Editable(l) /\ draft[l] # None /\ told' = None
    /\ IF PatchFields(l) = {} THEN draft' = [draft EXCEPT ![l] = None] /\ UNCHANGED row
       ELSE row' = [row EXCEPT ![l] = [NoPatch EXCEPT !.at = "going", !.fields = PatchFields(l), !.values = draft[l].values,
                                       !.typed = draft[l].typed, !.refreshed = draft[l].refreshed]] /\ UNCHANGED draft
    /\ UNCHANGED <<serverVars, tableVars, edits, importVars>>

ToggleActive(l) ==
    /\ Editable(l) /\ draft[l] = None /\ edits < MaxEdits /\ edits' = edits + 1 /\ told' = None
    /\ row' = [row EXCEPT ![l] = [NoPatch EXCEPT !.at = "going", !.fields = {"active"}, !.values = [active |-> ~lanesShown[l].active],
                                  !.typed = {"active"}]]
    /\ UNCHANGED <<serverVars, tableVars, draft, importVars>>

ServePatch(l, reaches, answers) ==
    /\ row[l].at = "going" /\ lanes' = IF reaches THEN Patched(l, row[l]) ELSE lanes
    /\ row' = IF reaches /\ answers THEN [row EXCEPT ![l].at = "answered", ![l].row = lanes'[l]] ELSE [row EXCEPT ![l].at = "failed"]
    /\ UNCHANGED <<others, tableVars, draft, edits, importVars, told>>

\* An edit replaces its row; a switch reads the table again, as other lanes may have changed.
PatchAnswered(l) ==
    /\ row[l].at = "answered" /\ row' = [row EXCEPT ![l] = NoPatch] /\ told' = "saved"
    /\ IF "active" \in row[l].fields THEN Load(activeOnly) /\ UNCHANGED <<lanesShown, draft>>
       ELSE /\ lanesShown' = [m \in DOMAIN lanesShown |-> IF m = l THEN row[l].row ELSE lanesShown[m]]
            /\ draft' = [draft EXCEPT ![l] = None] /\ UNCHANGED load
    /\ UNCHANGED <<serverVars, activeOnly, edits, importVars>>

DraftDropped(l) == [draft EXCEPT ![l] = None]
DraftKept(l) == draft
DraftOnFailure(l) == DraftKept(l)

PatchFailed(l) ==
    /\ row[l].at = "failed" /\ row' = [row EXCEPT ![l] = NoPatch] /\ told' = "failed" /\ draft' = DraftOnFailure(l)
    /\ UNCHANGED <<serverVars, tableVars, edits, importVars>>

-----------------------------------------------------------------------------
(* The import dialog, closed by nothing while a request is on its way.     *)

OpenImport ==
    /\ CanEdit /\ Files # {} /\ ~open /\ open' = TRUE
    /\ UNCHANGED <<serverVars, tableVars, rowVars, file, report, busy, told>>

AtDialog == open /\ busy.at = "idle"

HandleOpenChange ==
    /\ AtDialog /\ open' = FALSE /\ file' = None /\ report' = None
    /\ UNCHANGED <<serverVars, tableVars, rowVars, busy, told>>

ReportDropped == None
ReportOnChange == ReportDropped

HandleFileChange(f) ==
    /\ AtDialog /\ f # file /\ file' = f /\ report' = ReportOnChange
    /\ UNCHANGED <<serverVars, tableVars, rowVars, open, busy, told>>

CanImport == report # None /\ ~report.plan.blocked /\ ~NoChanges(report.plan)

\* The button checks the file until a clean report with changes turns it into the import.
RunDryRun ==
    /\ AtDialog /\ file # None /\ ~CanImport /\ busy' = [NotBusy EXCEPT !.at = "going"] /\ told' = None
    /\ UNCHANGED <<serverVars, tableVars, rowVars, open, file, report>>

ConfirmImport ==
    /\ AtDialog /\ file # None /\ CanImport /\ busy' = [NotBusy EXCEPT !.at = "going", !.dry = FALSE] /\ told' = None
    /\ UNCHANGED <<serverVars, tableVars, rowVars, open, file, report>>

\* All or nothing.
ServeImport(reaches, answers) ==
    /\ busy.at = "going"
    /\ lanes' = IF reaches /\ ~busy.dry /\ ~Errors(file) THEN AppliedPlan(lanes, file) ELSE lanes
    /\ busy' = IF reaches /\ answers THEN [busy EXCEPT !.at = "answered", !.report = [of |-> file, plan |-> PlanOf(lanes, file)]]
               ELSE [busy EXCEPT !.at = "failed"]
    /\ UNCHANGED <<others, tableVars, rowVars, open, file, report, told>>

ImportAnswered ==
    /\ busy.at = "answered" /\ busy' = NotBusy
    /\ IF busy.dry \/ busy.report.plan.blocked
       THEN report' = busy.report /\ UNCHANGED <<open, file, load, told>>
       ELSE open' = FALSE /\ file' = None /\ report' = None /\ told' = "imported" /\ Load(activeOnly)
    /\ UNCHANGED <<serverVars, activeOnly, lanesShown, rowVars>>

ImportFailed ==
    /\ busy.at = "failed" /\ busy' = NotBusy /\ told' = "failed"
    /\ UNCHANGED <<serverVars, tableVars, rowVars, open, file, report>>

Next ==
    \/ OthersAct \/ SetActiveOnly \/ LoadAnswered \/ OpenImport \/ HandleOpenChange \/ RunDryRun \/ ConfirmImport
    \/ ImportAnswered \/ ImportFailed
    \/ \E l \in Lanes : EditLane(l) \/ Cancel(l) \/ Save(l) \/ ToggleActive(l) \/ PatchAnswered(l) \/ PatchFailed(l)
    \/ \E l \in Lanes, f \in Fields, v \in Values : TypeLane(l, f, v)
    \/ \E f \in Files : HandleFileChange(f)
    \/ \E a \in BOOLEAN : ServeLoad(a)
    \/ \E a, b \in BOOLEAN : ServeImport(a, b) \/ \E l \in Lanes : ServePatch(l, a, b)

Spec == Init /\ [][Next]_vars

-----------------------------------------------------------------------------
TypeOK ==
    /\ \A l \in Existing(lanes) : lanes[l].rate \in Values /\ lanes[l].docket \in Values /\ lanes[l].active \in BOOLEAN
    /\ DOMAIN lanesShown \subseteq Lanes /\ activeOnly \in BOOLEAN /\ open \in BOOLEAN /\ file \in Files \cup {None}

\* An edit sends what was typed and nothing else, unless the row was read again under what was typed; a file
\* is imported only after that very file was checked and found clean.
ActedAsShown ==
    /\ \A l \in Lanes : row[l].fields \subseteq row[l].typed \/ row[l].refreshed
    /\ (busy.at # "idle" /\ ~busy.dry) => report # None /\ report.of = file /\ ~report.plan.blocked

\* A clean file leaves the route with one active lane at most, and importing it again, after an answer
\* that was lost, changes nothing.
OncePerIntent ==
    /\ Cardinality(ActiveIn(lanes)) <= 1
    /\ \A f \in Files : ~Errors(f) => LET after == AppliedPlan(lanes, f)
                                      IN  Cardinality(ActiveIn(after)) <= 1 /\ NoChanges(PlanOf(after, f))

\* A failure leaves what was typed and the file chosen.
KeepsTyping == (told' = "failed" /\ told # "failed") => UNCHANGED <<draft, file, report>>
=============================================================================
