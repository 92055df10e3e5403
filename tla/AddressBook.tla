----------------------------- MODULE AddressBook ----------------------------
(***************************************************************************)
(* The address book (app/address-book, components/forms, services/addresses): *)
(* a list, a dialog to add and one to edit an address, each filling the city  *)
(* in from the pincode, and a dialog that asks before an address is removed.  *)
(* Shipments keep pointing at the row they were booked with.               *)
(***************************************************************************)
EXTENDS Naturals, FiniteSets

CONSTANTS None,
    Ids, Seed,              \* rows, numbered from 1, and those there at first: rows of the book
    Admin,                  \* whether the user may share addresses and change everyone's
    Filters, Ways,          \* what the list is narrowed to, and what the page is used for
    Reads, MaxOpens, MaxTypings, MaxOthers

VARIABLES
    book, booked, readded, edited, others,      \* the server
    rows, filter, reads,                        \* the list
    dialog, form, geo, typings, saving, opens,  \* the dialogs to add and to edit
    confirm, removing, told                     \* the question, and what the page said last

vars == <<book, booked, readded, edited, others, rows, filter, reads, dialog, form, geo, typings, saving, opens, confirm, removing, told>>
serverVars == <<book, booked, readded, edited, others>>
listVars == <<rows, filter, reads>>
dialogVars == <<dialog, form, geo, typings, saving, opens>>
questionVars == <<confirm, removing>>

Modes == {"add", "edit"}
Scopes == {"PRIVATE", "TENANT"}
Blank == [name |-> 0, pin |-> 0, city |-> 0, extra |-> 0, scope |-> "PRIVATE"]
NoLookup == [verified |-> FALSE, lookup |-> 0, kept |-> FALSE]
NotSaving == [at |-> "idle", of |-> None, body |-> None]
NotRemoving == [at |-> "idle", of |-> None, list |-> None]
NoRead == [at |-> "idle", rows |-> None]

-----------------------------------------------------------------------------
(* The server. Names stand for all that makes two addresses the same with     *)
(* their pincode; extra is a field that may be left blank.                 *)

Rows(bk) == {i \in Ids : bk[i] # None}
Contents(r) == [f \in DOMAIN Blank |-> r[f]]
Visible(r, u) == r.scope = "TENANT" \/ r.owner = u
ListSaved(u) == [i \in {j \in Rows(book) : book[j].saved /\ Visible(book[j], u)} |-> book[i]]

Alike(r, s) == r.name = s.name /\ r.pin = s.pin
NoDuplicates(bk, r, u) == {}
Duplicates(bk, r, u) == {i \in Rows(bk) : Alike(bk[i], r) /\ Visible(bk[i], u)}
Matching(bk, r, u) == Duplicates(bk, r, u)

Fresh(bk) == {i \in Ids \ Rows(bk) : \A j \in Ids \ Rows(bk) : i <= j}
Row(c, u) == [name |-> c.name, pin |-> c.pin, city |-> c.city, extra |-> c.extra, scope |-> c.scope, owner |-> u, saved |-> TRUE]

\* A match that is saved stands for the new address; one that was removed comes back as it is now typed.
Created(bk, c, u) ==
    LET found == Matching(bk, c, u)
    IN  IF found = {} THEN {[bk EXCEPT ![i] = Row(c, u)] : i \in Fresh(bk)}
        ELSE {[bk EXCEPT ![i] = IF bk[i].saved THEN bk[i] ELSE Row(c, u)] : i \in found}

MayChange(r, u) == (u = "me" /\ ~Admin) => r.scope = "PRIVATE" /\ r.owner = u

\* A blank optional field is not sent, and so stays what it was.
MergedValues(r, c) == [r EXCEPT !.name = c.name, !.pin = c.pin, !.city = c.city, !.scope = c.scope,
                                !.extra = IF c.extra = 0 THEN r.extra ELSE c.extra]

\* The address written may itself be the match that is found first.
Deduplicated(bk, i, j, u) ==
    IF j = i \/ (~bk[j].saved /\ booked[j] # None) THEN bk
    ELSE [bk EXCEPT ![i].saved = FALSE, ![j] = IF bk[j].saved THEN bk[j] ELSE Row(bk[i], u)]

IsReferenced(i) == booked[i] # None
NeverReferenced(i) == FALSE
KeepsTheRow(i) == IsReferenced(i)

Updated(bk, i, c, u) ==
    LET new == MergedValues(bk[i], c)
        written == [bk EXCEPT ![i] = new]
        found == Matching(written, new, u)
    IN  IF ~bk[i].saved \/ ~MayChange(bk[i], u) THEN {}
        ELSE IF KeepsTheRow(i) THEN {[bk EXCEPT ![i].saved = FALSE, ![j] = new] : j \in Fresh(bk)}
        ELSE IF found = {} THEN {written} ELSE {Deduplicated(written, i, j, u) : j \in found}

\* A row that was removed already is removed again without a word.
Removed(bk, i, u) == IF MayChange(bk[i], u) THEN {[bk EXCEPT ![i].saved = FALSE]} ELSE {}

\* A shipment is booked with an address, or another admin changes one.
OthersAct ==
    /\ others < MaxOthers /\ others' = others + 1
    /\ \E i \in Rows(book) :
        /\ book[i].saved
        /\ \/ booked[i] = None /\ booked' = [booked EXCEPT ![i] = Contents(book[i])] /\ UNCHANGED <<book, edited>>
           \/ /\ book' \in Updated(book, i, [Contents(book[i]) EXCEPT !.extra = 2], "they") \cup Removed(book, i, "they")
              /\ edited' = TRUE /\ UNCHANGED booked
    /\ UNCHANGED <<readded, listVars, dialogVars, questionVars, told>>

-----------------------------------------------------------------------------
(* The list.                                                               *)

Init ==
    /\ book = [i \in Ids |-> IF i \in DOMAIN Seed THEN Seed[i] ELSE None] /\ booked = [i \in Ids |-> None]
    /\ readded = {} /\ edited = FALSE /\ others = 0
    /\ rows = [i \in {} |-> None] /\ filter = "ALL" /\ reads = [k \in Reads |-> IF k = 1 THEN [NoRead EXCEPT !.at = "going"] ELSE NoRead]
    /\ dialog = None /\ form = [m \in Modes |-> Blank] /\ geo = [m \in Modes |-> NoLookup] /\ typings = 0
    /\ saving = [m \in Modes |-> NotSaving] /\ opens = 0
    /\ confirm = None /\ removing = NotRemoving /\ told = None

\* Reads are not told apart: they answer in any order.
Refresh ==
    \E k \in Reads :
        /\ reads[k].at = "idle" /\ \A j \in Reads : j < k => reads[j].at # "idle"
        /\ reads' = [reads EXCEPT ![k].at = "going"]

ServeRead(k, reaches) ==
    /\ reads[k].at = "going"
    /\ reads' = [reads EXCEPT ![k] = IF reaches THEN [at |-> "read", rows |-> ListSaved("me")] ELSE NoRead]
    /\ UNCHANGED <<serverVars, rows, filter, dialogVars, questionVars, told>>

ReadAnswered(k) ==
    /\ reads[k].at = "read" /\ rows' = reads[k].rows /\ reads' = [reads EXCEPT ![k] = NoRead]
    /\ UNCHANGED <<serverVars, filter, dialogVars, questionVars, told>>

AtList == dialog = None /\ confirm = None

SetFilter(f) ==
    /\ AtList /\ Admin /\ f # filter /\ filter' = f
    /\ UNCHANGED <<serverVars, rows, reads, dialogVars, questionVars, told>>

FilteredRows == {i \in DOMAIN rows : filter = "ALL" \/ rows[i].scope = filter}
IsEditable(i) == i \in FilteredRows /\ (Admin \/ (rows[i].scope = "PRIVATE" /\ rows[i].owner = "me"))

-----------------------------------------------------------------------------
(* The dialogs to add and to edit. The lookup of a pincode that changed is     *)
(* dropped, and its mark stays until the new one is answered.              *)

LookedUp(m, pin) ==
    IF pin = form[m].pin THEN [geo EXCEPT ![m].kept = geo[m].verified]
    ELSE IF pin = 0 THEN [geo EXCEPT ![m] = NoLookup]
    ELSE [geo EXCEPT ![m].lookup = pin]

OpenAdd ==
    /\ AtList /\ "add" \in Ways /\ opens < MaxOpens /\ opens' = opens + 1
    /\ dialog' = [mode |-> "add", of |-> None] /\ form' = [form EXCEPT !["add"] = Blank] /\ geo' = [geo EXCEPT !["add"] = NoLookup]
    /\ UNCHANGED <<serverVars, listVars, typings, saving, questionVars, told>>

OpenEdit(i) ==
    /\ AtList /\ "edit" \in Ways /\ IsEditable(i) /\ opens < MaxOpens /\ opens' = opens + 1
    /\ dialog' = [mode |-> "edit", of |-> i] /\ form' = [form EXCEPT !["edit"] = Contents(rows[i])] /\ geo' = LookedUp("edit", rows[i].pin)
    /\ UNCHANGED <<serverVars, listVars, typings, saving, questionVars, told>>

\* What a closed form held is not seen again, but for the pincode an editing form goes by.
Shut(m) == form' = [form EXCEPT ![m] = IF m = "add" THEN Blank ELSE [Blank EXCEPT !.pin = form[m].pin]]

Close ==
    /\ dialog # None /\ dialog' = None /\ Shut(dialog.mode) /\ geo' = [geo EXCEPT !["add"] = NoLookup]
    /\ UNCHANGED <<serverVars, listVars, typings, saving, opens, questionVars, told>>

Type(changes) ==
    /\ dialog # None /\ typings < MaxTypings /\ typings' = typings + 1
    /\ form' = [form EXCEPT ![dialog.mode] = changes]
    /\ UNCHANGED <<serverVars, listVars, dialog, saving, opens, questionVars, told>>

Shown == form[dialog.mode]

TypeName(n) == dialog # None /\ n # Shown.name /\ Type([Shown EXCEPT !.name = n]) /\ UNCHANGED geo
TypeExtra(x) == dialog # None /\ x # Shown.extra /\ Type([Shown EXCEPT !.extra = x]) /\ UNCHANGED geo
TypePincode(p) == dialog # None /\ p # Shown.pin /\ Type([Shown EXCEPT !.pin = p]) /\ geo' = LookedUp(dialog.mode, p)

UntilVerified == ~geo[dialog.mode].verified
AtAnyTime == TRUE
CityIsOpen == UntilVerified

TypeCity(c) == dialog # None /\ c # Shown.city /\ CityIsOpen /\ Type([Shown EXCEPT !.city = c]) /\ UNCHANGED geo
ChooseScope(s) == dialog # None /\ Admin /\ s # Shown.scope /\ Type([Shown EXCEPT !.scope = s]) /\ UNCHANGED geo

CityOf(pin) == pin

LookupAnswered(m, found) ==
    /\ geo[m].lookup # 0
    /\ geo' = [geo EXCEPT ![m] = [verified |-> found, lookup |-> 0, kept |-> FALSE]]
    /\ form' = IF found /\ dialog # None /\ dialog.mode = m THEN [form EXCEPT ![m].city = CityOf(geo[m].lookup)] ELSE form
    /\ UNCHANGED <<serverVars, listVars, dialog, typings, saving, opens, questionVars, told>>

Valid(c) == c.name # 0 /\ c.pin # 0 /\ c.city # 0
Payload(c) == [c EXCEPT !.scope = IF Admin THEN c.scope ELSE "PRIVATE"]

OnSubmit ==
    /\ dialog # None /\ Valid(Shown) /\ saving[dialog.mode].at = "idle" /\ told' = None
    /\ saving' = [saving EXCEPT ![dialog.mode] = [at |-> "going", of |-> dialog.of, body |-> Payload(Shown)]]
    /\ UNCHANGED <<serverVars, listVars, dialog, form, geo, typings, opens, questionVars>>

Outcomes(m) == IF m = "add" THEN Created(book, saving[m].body, "me") ELSE Updated(book, saving[m].of, saving[m].body, "me")

ServeSave(m, reaches, answers) ==
    /\ saving[m].at = "going"
    /\ IF reaches THEN book' \in Outcomes(m) ELSE UNCHANGED book
    /\ readded' = IF m = "add" THEN readded \cup {i \in Ids : booked[i] # None /\ book[i] # book'[i]} ELSE readded
    /\ edited' = (edited \/ (reaches /\ m = "edit"))
    /\ saving' = [saving EXCEPT ![m].at = IF reaches /\ answers THEN "answered" ELSE "failed"]
    /\ UNCHANGED <<booked, others, listVars, dialog, form, geo, typings, opens, questionVars, told>>

RefuseSave ==
    /\ saving["edit"].at = "going" /\ Outcomes("edit") = {} /\ saving' = [saving EXCEPT !["edit"].at = "failed"]
    /\ UNCHANGED <<serverVars, listVars, dialog, form, geo, typings, opens, questionVars, told>>

\* Whichever dialog of the kind is open by then is closed.
SaveAnswered(m) ==
    /\ saving[m].at = "answered" /\ saving' = [saving EXCEPT ![m] = NotSaving] /\ told' = "saved" /\ Refresh
    /\ IF dialog # None /\ dialog.mode = m THEN dialog' = None /\ Shut(m) /\ geo' = [geo EXCEPT !["add"] = NoLookup]
       ELSE UNCHANGED <<dialog, form, geo>>
    /\ UNCHANGED <<serverVars, rows, filter, typings, opens, questionVars>>

DialogStays(m) == dialog
DialogShut(m) == IF dialog # None /\ dialog.mode = m THEN None ELSE dialog
DialogOnFailure(m) == DialogStays(m)

SaveFailed(m) ==
    /\ saving[m].at = "failed" /\ saving' = [saving EXCEPT ![m] = NotSaving] /\ told' = "failed" /\ dialog' = DialogOnFailure(m)
    /\ UNCHANGED <<serverVars, listVars, form, geo, typings, opens, questionVars>>

-----------------------------------------------------------------------------
(* Removing an address. The question can be left while the request is out.  *)

AskToRemove(i) ==
    /\ AtList /\ "remove" \in Ways /\ IsEditable(i) /\ opens < MaxOpens /\ opens' = opens + 1 /\ confirm' = i
    /\ UNCHANGED <<serverVars, listVars, dialog, form, geo, typings, saving, removing, told>>

LeaveQuestion ==
    /\ confirm # None /\ confirm' = None
    /\ UNCHANGED <<serverVars, listVars, dialogVars, removing, told>>

ExecuteDelete ==
    /\ confirm # None /\ removing.at = "idle" /\ removing' = [at |-> "going", of |-> confirm, list |-> rows] /\ told' = None
    /\ UNCHANGED <<serverVars, listVars, dialogVars, confirm>>

ServeRemove(reaches, answers) ==
    /\ removing.at = "going"
    /\ LET bks == Removed(book, removing.of, "me")
           done == reaches /\ bks # {}
       IN  /\ IF done THEN book' \in bks ELSE UNCHANGED book
           /\ removing' = [removing EXCEPT !.at = IF done /\ answers THEN "answered" ELSE "failed"]
    /\ UNCHANGED <<booked, readded, edited, others, listVars, dialogVars, confirm, told>>

\* The list as it was when the button was pressed comes back, without the row.
RemoveAnswered ==
    /\ removing.at = "answered" /\ removing' = NotRemoving /\ confirm' = None /\ told' = "removed" /\ Refresh
    /\ rows' = [i \in DOMAIN removing.list \ {removing.of} |-> removing.list[i]]
    /\ UNCHANGED <<serverVars, filter, dialogVars>>

RemoveFailed ==
    /\ removing.at = "failed" /\ removing' = NotRemoving /\ told' = "failed"
    /\ UNCHANGED <<serverVars, listVars, dialogVars, confirm>>

Next ==
    \/ OthersAct \/ OpenAdd \/ Close \/ OnSubmit \/ RefuseSave \/ LeaveQuestion \/ ExecuteDelete \/ RemoveAnswered \/ RemoveFailed
    \/ \E i \in Ids : OpenEdit(i) \/ AskToRemove(i)
    \/ \E f \in Filters : SetFilter(f)
    \/ \E k \in Reads : ReadAnswered(k) \/ \E a \in BOOLEAN : ServeRead(k, a)
    \/ \E n \in {1, 2} : TypeName(n) \/ TypeCity(n)
    \/ \E x \in {0, 1} : TypeExtra(x)
    \/ \E p \in {0, 1, 2} : TypePincode(p)
    \/ \E s \in Scopes : ChooseScope(s)
    \/ \E m \in Modes : SaveAnswered(m) \/ SaveFailed(m) \/ \E a, b \in BOOLEAN : ServeSave(m, a, b) \/ LookupAnswered(m, a)
    \/ \E a, b \in BOOLEAN : ServeRemove(a, b)

Spec == Init /\ [][Next]_vars

-----------------------------------------------------------------------------
TypeOK ==
    /\ \A i \in Rows(book) : book[i].scope \in Scopes /\ book[i].saved \in BOOLEAN /\ book[i].owner \in {"me", "they"}
    /\ DOMAIN rows \subseteq Rows(book) /\ confirm \in Ids \cup {None} /\ (dialog # None => dialog.mode \in Modes)

\* The address a shipment was booked with stays as it was, unless the same address was added anew; and a city
\* shown as verified is the one of the pincode beside it, but while a newer pincode is looked up and when the
\* dialog was opened on another address of the same pincode.
ActedAsShown ==
    /\ \A i \in Ids \ readded : booked[i] # None => Contents(book[i]) = booked[i]
    /\ dialog # None => LET g == geo[dialog.mode]
                        IN  g.verified /\ g.lookup = 0 /\ ~g.kept => Shown.city = CityOf(Shown.pin)

\* An address added again, after an answer that was lost or after it was removed, is in the book once, as long
\* as none was edited.
OncePerIntent ==
    edited \/ \A i, j \in Rows(book) :
        book[i].saved /\ book[j].saved /\ Visible(book[i], "me") /\ Visible(book[j], "me") /\ Alike(book[i], book[j]) => i = j

\* A failure leaves the dialogs as they are, with all that was typed.
KeepsTyping == (told' = "failed" /\ told # "failed") => UNCHANGED <<dialog, form, confirm>>
=============================================================================
