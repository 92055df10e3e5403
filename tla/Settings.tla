------------------------------ MODULE Settings ------------------------------
(***************************************************************************)
(* The Settings page (settings/page.tsx) and its history dialog, with the     *)
(* settings row of the tenant (services/tenants.py): one form over all        *)
(* sections, saved as a whole; a snapshot before every change; a restore of    *)
(* an earlier snapshot. Other admins save, and price on a panel of their own.  *)
(***************************************************************************)
EXTENDS Naturals, Sequences

CONSTANTS None,
    Own,                        \* what the form holds; "landing" is sent along with it
    Cards,                      \* sections of the page that are opened
    Cached,                     \* whether an earlier visit left the settings in the tab's cache
    Reads, MaxOthers, MaxVersions

VARIABLES
    settings, history, priced, others,      \* the server: the row, its snapshots, the prices last set
    form, lastSavedValues, cache,           \* what the form holds, what it was loaded as, the cache
    settingsHydrated, settingsHydrateError, reads, activeSection,
    save, historyOpen, items, list, confirmEntry, restore, told

vars == <<settings, history, priced, others, form, lastSavedValues, cache, settingsHydrated,
          settingsHydrateError, reads, activeSection, save, historyOpen, items, list, confirmEntry, restore, told>>
serverVars == <<settings, history, priced, others>>
formVars == <<form, lastSavedValues>>
tabVars == <<activeSection>>
readVars == <<cache, settingsHydrated, settingsHydrateError, reads>>
dialogVars == <<historyOpen, items, list, confirmEntry, restore>>

\* "blank" is what the public settings show of a section that only admins may read.
\* "wrong" is typed but not valid.
Values == {"blank", "old", "mine", "theirs", "wrong"}
Sections == Own \cup {"landing", "pricing"}
Idle == [at |-> "idle", row |-> None]
OwnOf(row) == [s \in Own |-> row[s]]
FromPublic == [s \in Own |-> "blank"]

\* The fields of the form each section of the page shows; prices are on a panel of their own. No
\* section shows features_block and socials: they go back as they were loaded.
FieldsOf ==
    [company |-> {"company"}, branding |-> {"brand"},
     website |-> {"announcement_bar", "hero_block", "about_page", "services_page"},
     support |-> {"support", "contact", "escalation_matrix"}, wallet |-> {"wallet_config"}, rates |-> {}]

-----------------------------------------------------------------------------
(* The server.                                                             *)

ChangedSections(before, after) == {s \in Sections : before[s] # after[s]}

\* _replace_settings: the settings before go to the history when something changed.
SnapshotOnChange(after) ==
    LET changed == ChangedSections(settings, after)
    IN  IF changed = {} THEN history ELSE Append(history, [settings |-> settings, changed |-> changed])
Snapshotted(after) == SnapshotOnChange(after)

ReplaceSettings(after) ==
    Len(Snapshotted(after)) <= MaxVersions /\ settings' = after /\ history' = Snapshotted(after)

\* _deep_merge of a section-wise patch.
Merged(patch) == [s \in Sections |-> IF s \in DOMAIN patch THEN patch[s] ELSE settings[s]]

\* _carry_forward_runtime_keys: the prices stay those of today.
RestoreAll(row) == row
RestoreKeepsPricing(row) == [row EXCEPT !["pricing"] = settings["pricing"]]
CarryForward(row) == RestoreKeepsPricing(row)

\* list_settings_history: newest first there; entries that only changed prices are left out.
VisibleHistory == {i \in DOMAIN history : history[i].changed # {"pricing"}}

OthersAct ==
    /\ others < MaxOthers /\ others' = others + 1
    /\ \E s \in Sections :
        /\ settings[s] # "theirs" /\ ReplaceSettings(Merged([t \in {s} |-> "theirs"]))
        /\ priced' = IF s = "pricing" THEN "theirs" ELSE priced
    /\ UNCHANGED <<formVars, tabVars, readVars, save, dialogVars, told>>

-----------------------------------------------------------------------------
(* The page and its reads.                                                 *)

\* buildValuesFromSettings of the cache, else of the public settings.
Shown == IF cache # None THEN cache ELSE FromPublic

Init ==
    /\ settings = [s \in Sections |-> "old"] /\ history = <<>> /\ priced = "old" /\ others = 0
    /\ cache = IF Cached THEN [s \in Own |-> "old"] ELSE None
    /\ form = Shown /\ lastSavedValues = Shown
    /\ settingsHydrated = Cached /\ settingsHydrateError = FALSE
    /\ reads = [r \in Reads |-> IF r = 1 THEN [Idle EXCEPT !.at = "going"] ELSE Idle]
    /\ save = None /\ historyOpen = FALSE /\ items = {} /\ list = Idle /\ confirmEntry = None
    /\ restore = None /\ told = None /\ activeSection = "company"

IsDirty == form # lastSavedValues

\* refreshFromBackend; nothing cancels a request that is still on its way.
StartedRead(r) == [reads EXCEPT ![r] = [Idle EXCEPT !.at = "going"]]

ServeRead(r, reaches) ==
    /\ reads[r].at = "going"
    /\ reads' = [reads EXCEPT ![r] = IF reaches THEN [at |-> "read", row |-> OwnOf(settings)]
                                     ELSE [Idle EXCEPT !.at = "failed"]]
    /\ UNCHANGED <<serverVars, tabVars, formVars, cache, settingsHydrated, settingsHydrateError, save, dialogVars, told>>

\* A restore waits for its own refresh and then closes the dialog.
DialogAfter(r) ==
    IF restore # None /\ restore.at = "refreshing" /\ restore.read = r
    THEN restore' = None /\ historyOpen' = FALSE /\ confirmEntry' = None
    ELSE UNCHANGED <<restore, historyOpen, confirmEntry>>

ReadAnswered(r) ==
    /\ reads[r].at = "read" /\ reads' = [reads EXCEPT ![r] = Idle]
    /\ cache' = reads[r].row /\ lastSavedValues' = reads[r].row /\ form' = reads[r].row
    /\ settingsHydrated' = TRUE /\ settingsHydrateError' = FALSE /\ DialogAfter(r)
    /\ UNCHANGED <<serverVars, tabVars, save, items, list, told>>

\* Kept quiet while the cache holds settings.
ReadFailed(r) ==
    /\ reads[r].at = "failed" /\ reads' = [reads EXCEPT ![r] = Idle]
    /\ settingsHydrateError' = (settingsHydrateError \/ cache = None) /\ DialogAfter(r)
    /\ UNCHANGED <<serverVars, tabVars, formVars, cache, settingsHydrated, save, items, list, told>>

Retry(r) ==
    /\ ~settingsHydrated /\ settingsHydrateError /\ reads[r].at = "idle" /\ reads' = StartedRead(r)
    /\ UNCHANGED <<serverVars, tabVars, formVars, cache, settingsHydrated, settingsHydrateError, save, dialogVars, told>>

\* Another page and back; the cache is as old as the last read, whatever was saved since.
Revisit ==
    /\ \A r \in Reads : reads[r].at = "idle" /\ save = None /\ restore = None /\ cache # None
    /\ form' = cache /\ lastSavedValues' = cache /\ settingsHydrated' = TRUE /\ settingsHydrateError' = FALSE
    /\ reads' = StartedRead(1) /\ historyOpen' = FALSE /\ items' = {} /\ list' = Idle /\ confirmEntry' = None
    /\ told' = None /\ activeSection' = "company" /\ UNCHANGED <<serverVars, cache, save, restore>>

-----------------------------------------------------------------------------
(* The form.                                                               *)

\* The fields are open at all times, also while the settings load or are saved.
TypeSection(s) ==
    /\ s \in FieldsOf[activeSection]
    /\ \E v \in {"mine", "wrong"} : form[s] # v /\ form' = [form EXCEPT ![s] = v]
    /\ UNCHANGED <<serverVars, tabVars, lastSavedValues, readVars, save, dialogVars, told>>

SetActiveSection(c) ==
    /\ c # activeSection /\ activeSection' = c /\ told' = None
    /\ UNCHANGED <<serverVars, formVars, readVars, save, dialogVars>>

\* The bar with Save and Discard; the pricing panel has a button of its own.
SaveBar == activeSection # "rates"

DiscardChanges ==
    /\ SaveBar /\ settingsHydrated /\ IsDirty /\ save = None /\ form' = lastSavedValues
    /\ UNCHANGED <<serverVars, tabVars, lastSavedValues, readVars, save, dialogVars, told>>

\* Every section goes along, and the blocks of the landing page as the public settings had them.
Payload == [s \in Own \cup {"landing"} |-> IF s \in Own THEN form[s] ELSE "old"]

DirtyEnough == IsDirty
HydratedAndDirty == settingsHydrated /\ IsDirty
SaveOffered == HydratedAndDirty

\* settingsSchema, and the section a refusal opens.
Wrong == {s \in Own : form[s] = "wrong"}
SectionForErrors == CHOOSE c \in DOMAIN FieldsOf : FieldsOf[c] \cap Wrong # {}

Invalid ==
    /\ SaveBar /\ SaveOffered /\ save = None /\ Wrong # {}
    /\ activeSection' = SectionForErrors /\ told' = "invalid"
    /\ UNCHANGED <<serverVars, formVars, readVars, save, dialogVars>>

ExecuteSave ==
    /\ SaveBar /\ SaveOffered /\ save = None /\ Wrong = {}
    /\ save' = [of |-> Payload, typed |-> form, at |-> "going"] /\ told' = None
    /\ UNCHANGED <<serverVars, tabVars, formVars, readVars, dialogVars>>

ServeSave(reaches, answers) ==
    /\ save # None /\ save.at = "going"
    /\ IF reaches THEN ReplaceSettings(Merged(save.of)) ELSE UNCHANGED <<settings, history>>
    /\ save' = [save EXCEPT !.at = IF reaches /\ answers THEN "answered" ELSE "failed"]
    /\ UNCHANGED <<priced, others, formVars, tabVars, readVars, dialogVars, told>>

\* The form is put back to what was sent.
SaveAnswered ==
    /\ save # None /\ save.at = "answered" /\ save' = None /\ told' = "saved"
    /\ form' = save.typed /\ lastSavedValues' = save.typed
    /\ UNCHANGED <<serverVars, tabVars, readVars, dialogVars>>

FormReset == lastSavedValues
FormStays == form
FormOnFailure == FormStays

SaveFailed ==
    /\ save # None /\ save.at = "failed" /\ save' = None /\ told' = "failed" /\ form' = FormOnFailure
    /\ UNCHANGED <<serverVars, tabVars, lastSavedValues, readVars, dialogVars>>

-----------------------------------------------------------------------------
(* The history dialog.                                                     *)

OpenHistory ==
    /\ ~historyOpen /\ list.at = "idle" /\ historyOpen' = TRUE /\ list' = [Idle EXCEPT !.at = "going"]
    /\ UNCHANGED <<serverVars, tabVars, formVars, readVars, save, items, confirmEntry, restore, told>>

\* Also by Escape, and while a restore is under way.
CloseHistory ==
    /\ historyOpen /\ historyOpen' = FALSE /\ confirmEntry' = None
    /\ UNCHANGED <<serverVars, tabVars, formVars, readVars, save, items, list, restore, told>>

ServeList(reaches) ==
    /\ list.at = "going"
    /\ list' = IF reaches THEN [at |-> "read", row |-> VisibleHistory] ELSE [Idle EXCEPT !.at = "failed"]
    /\ UNCHANGED <<serverVars, tabVars, formVars, readVars, save, historyOpen, items, confirmEntry, restore, told>>

ListAnswered ==
    /\ list.at \in {"read", "failed"} /\ list' = Idle /\ items' = IF list.at = "read" THEN list.row ELSE items
    /\ UNCHANGED <<serverVars, tabVars, formVars, readVars, save, historyOpen, confirmEntry, restore, told>>

RowsShown == historyOpen /\ list.at = "idle" /\ restore = None

SetConfirmEntry(i) ==
    /\ RowsShown /\ i \in items /\ confirmEntry' = IF confirmEntry = i THEN None ELSE i
    /\ UNCHANGED <<serverVars, tabVars, formVars, readVars, save, historyOpen, items, list, restore, told>>

HandleRestore ==
    /\ RowsShown /\ confirmEntry \in items /\ restore' = [of |-> confirmEntry, at |-> "going", read |-> None]
    /\ told' = None /\ UNCHANGED <<serverVars, tabVars, formVars, readVars, save, historyOpen, items, list, confirmEntry>>

ServeRestore(reaches, answers) ==
    /\ restore # None /\ restore.at = "going"
    /\ IF reaches THEN ReplaceSettings(CarryForward(history[restore.of].settings)) ELSE UNCHANGED <<settings, history>>
    /\ restore' = [restore EXCEPT !.at = IF reaches /\ answers THEN "answered" ELSE "failed"]
    /\ UNCHANGED <<priced, others, formVars, tabVars, readVars, save, historyOpen, items, list, confirmEntry, told>>

RestoreAnswered(r) ==
    /\ restore # None /\ restore.at = "answered" /\ reads[r].at = "idle" /\ reads' = StartedRead(r)
    /\ restore' = [restore EXCEPT !.at = "refreshing", !.read = r] /\ confirmEntry' = None /\ told' = "restored"
    /\ UNCHANGED <<serverVars, tabVars, formVars, cache, settingsHydrated, settingsHydrateError, save, historyOpen, items, list>>

RestoreFailed ==
    /\ restore # None /\ restore.at = "failed" /\ restore' = None /\ told' = "failed"
    /\ UNCHANGED <<serverVars, tabVars, formVars, readVars, save, historyOpen, items, list, confirmEntry>>

Next ==
    \/ OthersAct \/ Revisit \/ DiscardChanges \/ Invalid \/ ExecuteSave \/ SaveAnswered \/ SaveFailed
    \/ OpenHistory \/ CloseHistory \/ ListAnswered \/ HandleRestore \/ RestoreFailed
    \/ \E s \in Own : TypeSection(s)
    \/ \E c \in Cards : SetActiveSection(c)
    \/ \E i \in 1..MaxVersions : SetConfirmEntry(i)
    \/ \E r \in Reads : ReadAnswered(r) \/ ReadFailed(r) \/ Retry(r) \/ RestoreAnswered(r)
    \/ \E a \in BOOLEAN : ServeList(a) \/ \E r \in Reads : ServeRead(r, a)
    \/ \E a, b \in BOOLEAN : ServeSave(a, b) \/ ServeRestore(a, b)

Spec == Init /\ [][Next]_vars

-----------------------------------------------------------------------------
TypeOK ==
    /\ activeSection \in DOMAIN FieldsOf /\ settings \in [Sections -> Values] /\ priced \in Values /\ Len(history) <= MaxVersions
    /\ form \in [Own -> Values] /\ lastSavedValues \in [Own -> Values]
    /\ settingsHydrated \in BOOLEAN /\ settingsHydrateError \in BOOLEAN /\ items \subseteq DOMAIN history
    /\ confirmEntry = None \/ confirmEntry \in DOMAIN history

\* A save, which carries every section, never blanks one the admin has not been shown: the settings
\* hold no value that stood in for an unread one, nor one that is not valid. An error is reported only while nothing could be read.
ActedAsShown ==
    /\ \A s \in Sections : settings[s] \notin {"blank", "wrong"}
    /\ settingsHydrated => \A s \in Own : form[s] # "blank"
    /\ ~(settingsHydrated /\ settingsHydrateError)

\* Neither a save nor a restore changes what customers are charged, and pressing again after a lost
\* answer adds no second snapshot of one change.
OncePerIntent ==
    /\ settings["pricing"] = priced
    /\ \A i \in DOMAIN history : (IF i = Len(history) THEN settings ELSE history[i + 1].settings) # history[i].settings

\* What was typed outlives a failure and whatever others save, and a refused form opens the section
\* that shows what is wrong; and each change of the settings leaves
\* those before it in the history, so that it can be undone.
KeepsTyping ==
    /\ ((save' # save /\ told' # "saved") \/ settings' # settings) => UNCHANGED form
    /\ (told' = "invalid" /\ told # "invalid") => \E f \in FieldsOf[activeSection'] \cap Own : form[f] = "wrong"
    /\ settings' # settings => history' # history /\ history'[Len(history')].settings = settings
=============================================================================
