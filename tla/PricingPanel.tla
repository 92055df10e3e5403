---------------------------- MODULE PricingPanel ----------------------------
(***************************************************************************)
(* The pricing policy in the settings (pricing-policy-panel, pricing-policy-   *)
(* form) with its endpoint: a form filled from the policy, a dialog that lists *)
(* what would change, and a save that replaces the whole policy. A service     *)
(* without an entry of its own follows a default, which the form shows as if   *)
(* it were one.                                                              *)
(***************************************************************************)
EXTENDS Naturals

CONSTANTS None,
    Options,                \* the services: "prime" has lanes with markups of their own
    Base, Values,           \* the default markup of the others, and amounts
    Ways,                   \* what is edited: "markup", "cod", "services"
    CanEdit, Cached, MaxTypings, MaxOthers

VARIABLES
    policy, others,                             \* the server
    saved, loadError, fetch,                    \* what was read last
    form, typings, pending, changes, save, told

vars == <<policy, others, saved, loadError, fetch, form, typings, pending, changes, save, told>>
serverVars == <<policy, others>>
readVars == <<saved, loadError, fetch>>
dialogVars == <<pending, changes>>

NotAsked == [at |-> "idle", seen |-> None]
NotSaving == [at |-> "idle", of |-> None, listed |-> {}, on |-> None, seen |-> None]
Boxes == {"cod_fee_min", "cod_fee_percent"}
EmptyPolicy == [entries |-> [o \in Options |-> None], cod |-> [b \in Boxes |-> None], enabled |-> {}]

-----------------------------------------------------------------------------
(* The policy as prices are made of it.                                    *)

\* sell_price: an entry wins; without one the lane's own markup or the base.
MarkupOf(p, o) == IF p.entries[o] # None THEN p.entries[o]
                  ELSE IF o = "prime" THEN [mode |-> "LANE", value |-> None] ELSE [mode |-> "PERCENT", value |-> Base]
SetOf(p) == {<<o, MarkupOf(p, o)>> : o \in Options} \cup {<<b, p.cod[b]>> : b \in Boxes} \cup {<<"services", p.enabled>>}
ReallyChanged(p, q) == {c[1] : c \in SetOf(q) \ SetOf(p)}

-----------------------------------------------------------------------------
(* The form.                                                               *)

SupportsLaneMarkup(o) == o = "prime"
DefaultMarkupRow(o) == IF SupportsLaneMarkup(o) THEN [mode |-> "LANE", value |-> None] ELSE [mode |-> "PERCENT", value |-> Base]
MarkupRow(o, p) == IF p.entries[o] = None THEN DefaultMarkupRow(o) ELSE p.entries[o]
PolicyToFormValues(p) == [markups |-> [o \in Options |-> MarkupRow(o, p)], cod |-> p.cod, enabled |-> p.enabled]

ValidRow(row) == row.mode = "LANE" \/ row.value # None
Valid(f) == \A o \in Options : ValidRow(f.markups[o])
SameRule(a, b) == a.mode = b.mode /\ (a.mode = "LANE" \/ a.value = b.value)

\* An entry is made only of a row that had one, or that is not the default.
KeepsEntry(o, row, p) == p.entries[o] # None \/ ~SameRule(row, DefaultMarkupRow(o))
EntryOf(o, row, p) == IF row.mode = "LANE" \/ ~KeepsEntry(o, row, p) THEN None ELSE row
FormValuesToPolicy(f, p) == [entries |-> [o \in Options |-> EntryOf(o, f.markups[o], p)], cod |-> f.cod, enabled |-> f.enabled]

\* The rows of the dialog: what differs between the policy read and the one to be saved.
DescribePolicyChanges(p, q) ==
    {o \in Options : ~SameRule(MarkupRow(o, p), MarkupRow(o, q))} \cup {b \in Boxes : p.cod[b] # q.cod[b]}
    \cup (IF p.enabled # q.enabled THEN {"services"} ELSE {})

IsDirty == saved # None /\ form # PolicyToFormValues(saved)
PanelShown == loadError = FALSE /\ saved # None
Editable == PanelShown /\ CanEdit /\ pending = None

-----------------------------------------------------------------------------
Stored == {[EmptyPolicy EXCEPT !.enabled = Options],
           [EmptyPolicy EXCEPT !.entries = [o \in Options |-> [mode |-> "FLAT", value |-> Base]], !.enabled = Options]}

Init ==
    /\ policy \in Stored /\ others = 0
    /\ saved = IF Cached THEN policy ELSE None
    /\ form = IF Cached THEN PolicyToFormValues(policy) ELSE PolicyToFormValues(EmptyPolicy)
    /\ loadError = FALSE /\ fetch = [NotAsked EXCEPT !.at = "going"]
    /\ typings = 0 /\ pending = None /\ changes = {} /\ save = NotSaving /\ told = None

\* Another admin's save.
OthersAct ==
    /\ others < MaxOthers /\ others' = others + 1
    /\ \/ \E b \in Boxes, v \in Values : policy.cod[b] # v /\ policy' = [policy EXCEPT !.cod[b] = v]
       \/ \E o \in Options, v \in Values : policy.entries[o] # [mode |-> "FLAT", value |-> v]
                                           /\ policy' = [policy EXCEPT !.entries[o] = [mode |-> "FLAT", value |-> v]]
    /\ UNCHANGED <<readVars, form, typings, dialogVars, save, told>>

ServeFetch(reaches) ==
    /\ fetch.at = "going"
    /\ fetch' = IF reaches THEN [at |-> "read", seen |-> policy] ELSE [fetch EXCEPT !.at = "failed"]
    /\ UNCHANGED <<serverVars, saved, loadError, form, typings, dialogVars, save, told>>

\* The answer fills the form anew, whatever was typed over the cached policy meanwhile.
FetchAnswered ==
    /\ fetch.at \in {"read", "failed"} /\ fetch' = NotAsked
    /\ IF fetch.at = "read" THEN saved' = fetch.seen /\ form' = PolicyToFormValues(fetch.seen) /\ loadError' = FALSE
       ELSE loadError' = (saved = None) /\ UNCHANGED <<saved, form>>
    /\ UNCHANGED <<serverVars, typings, dialogVars, save, told>>

TryAgain ==
    /\ loadError /\ fetch.at = "idle" /\ fetch' = [NotAsked EXCEPT !.at = "going"]
    /\ UNCHANGED <<serverVars, saved, loadError, form, typings, dialogVars, save, told>>

Typed == Editable /\ typings < MaxTypings /\ typings' = typings + 1 /\ UNCHANGED <<serverVars, readVars, dialogVars, save, told>>

\* The mode leaves the value that was there.
Modes(o) == {"PERCENT", "FLAT"} \cup (IF SupportsLaneMarkup(o) THEN {"LANE"} ELSE {})
EditMarkup(o) ==
    /\ "markup" \in Ways /\ Typed
    /\ \/ \E m \in Modes(o) : m # form.markups[o].mode /\ form' = [form EXCEPT !.markups[o].mode = m]
       \/ form.markups[o].mode # "LANE" /\ \E v \in Values \cup {None} : v # form.markups[o].value /\ form' = [form EXCEPT !.markups[o].value = v]

EditCod(b) == "cod" \in Ways /\ Typed /\ \E v \in Values \cup {None} : v # form.cod[b] /\ form' = [form EXCEPT !.cod[b] = v]
ToggleOption(o) ==
    /\ "services" \in Ways /\ Typed
    /\ form' = [form EXCEPT !.enabled = IF o \in @ THEN @ \ {o} ELSE @ \cup {o}]

Discard ==
    /\ Editable /\ IsDirty /\ save.at = "idle" /\ form' = PolicyToFormValues(saved)
    /\ UNCHANGED <<serverVars, readVars, typings, dialogVars, save, told>>

\* The dialog opens unless nothing differs.
HandleValid ==
    /\ Editable /\ IsDirty /\ save.at = "idle" /\ Valid(form)
    /\ LET next == FormValuesToPolicy(form, saved)
           diff == DescribePolicyChanges(saved, next)
       IN  IF diff = {} THEN told' = "unchanged" /\ UNCHANGED dialogVars
           ELSE pending' = [policy |-> next, on |-> saved] /\ changes' = diff /\ told' = None
    /\ UNCHANGED <<serverVars, readVars, form, typings, save>>

CancelConfirm ==
    /\ pending # None /\ save.at = "idle" /\ pending' = None
    /\ UNCHANGED <<serverVars, readVars, form, typings, changes, save, told>>

\* What the dialog listed is what goes, though the form may have been filled anew behind it.
FormAsItIs == FormValuesToPolicy(form, saved)
AsListed == pending.policy
Sent == AsListed

ConfirmSave ==
    /\ pending # None /\ save.at = "idle" /\ told' = None
    /\ save' = [NotSaving EXCEPT !.at = "going", !.of = Sent, !.listed = changes, !.on = pending.on]
    /\ UNCHANGED <<serverVars, readVars, form, typings, dialogVars>>

\* replace_policy: the whole section, whatever another admin saved since it was read.
ServeSave(reaches, answers) ==
    /\ save.at = "going" /\ policy' = IF reaches THEN save.of ELSE policy
    /\ save' = IF reaches /\ answers THEN [save EXCEPT !.at = "answered", !.seen = save.of] ELSE [save EXCEPT !.at = "failed"]
    /\ UNCHANGED <<others, readVars, form, typings, dialogVars, told>>

SaveAnswered ==
    /\ save.at = "answered" /\ save' = NotSaving /\ told' = "saved"
    /\ saved' = save.seen /\ form' = PolicyToFormValues(save.seen) /\ pending' = None
    /\ UNCHANGED <<serverVars, loadError, fetch, typings, changes>>

DialogClosed == None
DialogStays == pending
DialogOnFailure == DialogStays

SaveFailed ==
    /\ save.at = "failed" /\ save' = NotSaving /\ told' = "failed" /\ pending' = DialogOnFailure
    /\ UNCHANGED <<serverVars, readVars, form, typings, changes>>

Next ==
    \/ OthersAct \/ FetchAnswered \/ TryAgain \/ Discard \/ HandleValid \/ CancelConfirm \/ ConfirmSave \/ SaveAnswered \/ SaveFailed
    \/ \E o \in Options : EditMarkup(o) \/ ToggleOption(o)
    \/ \E b \in Boxes : EditCod(b)
    \/ \E a \in BOOLEAN : ServeFetch(a)
    \/ \E a, b \in BOOLEAN : ServeSave(a, b)

Spec == Init /\ [][Next]_vars

-----------------------------------------------------------------------------
TypeOK ==
    /\ policy.enabled \subseteq Options /\ loadError \in BOOLEAN /\ changes \subseteq Options \cup Boxes \cup {"services"}
    /\ \A o \in Options : form.markups[o].mode \in Modes(o)

\* A save changes the prices of bookings, against the policy the dialog was made of, in what the dialog
\* listed and in nothing else: neither a default that was shown as an entry, nor an answer that filled the
\* form again behind the dialog, adds to it.
ActedAsShown == save.at # "idle" => ReallyChanged(save.on, save.of) = save.listed

\* A failed save leaves the form and the dialog as they were.
KeepsTyping == (told' = "failed" /\ told # "failed") => UNCHANGED <<form, pending>>
=============================================================================
