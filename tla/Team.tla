-------------------------------- MODULE Team --------------------------------
(***************************************************************************)
(* The Users page (team/page.tsx, user-edit-policy.ts) with the rules the     *)
(* server applies to it (tenants.py): roles, status and service scope of the  *)
(* people of a workspace, the hand-over of the Owner role, and requests for   *)
(* B2B access, while other administrators change the same people.            *)
(***************************************************************************)
EXTENDS Naturals

CONSTANTS None,
    Starts,                     \* the people a page is opened on: user 1 is the viewer
    Uses,                       \* what is used: fields of the dialog, the row "menus", the "filter"
    Loads, MaxOthers, MaxOpens

VARIABLES
    row, others,                \* the server, by person
    actor,                      \* the role the viewer's profile was loaded with
    users, statusFilter, loads, \* the list and its reads
    modal, save,                \* the edit dialog and its request
    act, opens                  \* the row mutation under way

vars == <<row, others, actor, users, statusFilter, loads, modal, save, act, opens>>
serverVars == <<row, others>>
listVars == <<users, statusFilter, loads>>

Users == {1, 2}
Roles == {"OWNER", "ADMIN", "STAFF", "CUSTOMER"}
Admins == {"OWNER", "ADMIN"}
Scopes == {"B2C", "BOTH"}
Idle == [at |-> "idle", rows |-> None]
Same == [role |-> None, active |-> None, scope |-> None, contact |-> None]   \* a request that names nothing

-----------------------------------------------------------------------------
(* The server.                                                             *)

Or(new, old) == IF new = None THEN old ELSE new

\* _assert_owner_rules: who may change whose role and status.
OwnerRules(by, u, r, p) ==
    LET changesRole == p.role # None /\ p.role # r.role
    IN  /\ u = 1 => ~changesRole /\ p.active # FALSE
        /\ by # "OWNER" => ~(changesRole /\ p.role \in Admins) /\ ~(r.role = "ADMIN" /\ (changesRole \/ p.active = FALSE))
        /\ r.role = "OWNER" => p.role \in {None, "OWNER"} /\ p.active # FALSE

\* update_user: the attributes of the row read that the request changes; a team member keeps both
\* flows, and both flows make an access request approved.
Edited(now, r, p) ==
    LET role == Or(p.role, r.role)
        scope == IF role # "CUSTOMER" THEN "BOTH" ELSE Or(p.scope, r.scope)
    IN  [role |-> IF role = r.role THEN now.role ELSE role, scope |-> IF scope = r.scope THEN now.scope ELSE scope,
         active |-> IF Or(p.active, r.active) = r.active THEN now.active ELSE p.active,
         contact |-> IF Or(p.contact, r.contact) = r.contact THEN now.contact ELSE p.contact,
         b2b |-> IF scope = "BOTH" THEN "APPROVED" ELSE now.b2b]

\* A transfer makes the previous Owner an Admin.
OwnerStays(rows, u, r, p) == rows
OwnerSteps(rows, u, r, p) ==
    IF p.role = "OWNER" /\ r.role # "OWNER" /\ u # 1 THEN [rows EXCEPT ![1].role = "ADMIN"] ELSE rows
AfterTransfer(rows, u, r, p) == OwnerSteps(rows, u, r, p)

Updated(u, r, p) == AfterTransfer([row EXCEPT ![u] = Edited(row[u], r, p)], u, r, p)

\* review_b2b_access decides whatever the request's state is.
Reviewed(r, approve) == IF approve THEN [r EXCEPT !.scope = "BOTH", !.b2b = "APPROVED"] ELSE [r EXCEPT !.b2b = "REJECTED"]

\* Other administrators, the Owner when it is not the viewer, and the customer who asks for access.
OthersAct ==
    /\ others < MaxOthers /\ others' = others + 1
    /\ \/ \E f \in Scopes : row[2].role = "CUSTOMER" /\ row' = [row EXCEPT ![2].scope = f]
       \/ row[2].role \notin Admins /\ row' = [row EXCEPT ![2].active = ~@]
       \/ \E d \in BOOLEAN : row[2].b2b = "PENDING" /\ row' = [row EXCEPT ![2] = Reviewed(@, d)]
       \/ row[2].scope = "B2C" /\ row' = [row EXCEPT ![2].b2b = "PENDING"]
       \/ row' = [row EXCEPT ![2].contact = "theirs"]
       \/ row[1].role # "OWNER" /\ row[2].role # "OWNER" /\ \E q \in {"ADMIN", "STAFF"} : row' = [row EXCEPT ![2].role = q, ![2].scope = "BOTH"]
       \/ row[2].role = "OWNER" /\ \E q \in {"OWNER", "STAFF"} :
             row' = [row EXCEPT ![1].role = q, ![2].role = IF q = "OWNER" THEN "ADMIN" ELSE "OWNER"]
    /\ row' # row /\ UNCHANGED <<actor, listVars, modal, save, act, opens>>

-----------------------------------------------------------------------------
(* What the page offers.                                                   *)

\* getUserEditPolicy: the roles that may be chosen on a person shown as r, and whether the status may.
AllRoles(by, u, r) == Roles
PolicyRoles(by, u, r) ==
    IF u = 1 \/ r.role = "OWNER" \/ (by # "OWNER" /\ r.role = "ADMIN") THEN {}
    ELSE IF by = "OWNER" THEN Roles ELSE Roles \ Admins
OfferedRoles(by, u, r) == PolicyRoles(by, u, r)
StatusLocked(by, u, r) == PolicyRoles(by, u, r) = {}
CanChangeScope(by, u, r) == r.role = "CUSTOMER" /\ ~StatusLocked(by, u, r)

CanManageTeam == actor \in Admins
FilteredUsers == {u \in DOMAIN users : statusFilter = "ALL" \/ users[u].active}
AtList == CanManageTeam /\ modal = None

\* The cache always holds the last answer, which is what the list shows already.
FetchUsers(slot) == loads[slot] = Idle /\ loads' = [loads EXCEPT ![slot].at = "going"]

Init ==
    /\ row \in Starts /\ others = 0 /\ actor = row[1].role /\ statusFilter = "ALL" /\ users = [u \in {} |-> None]
    /\ \E slot \in Loads : loads = [m \in Loads |-> IF m = slot THEN [Idle EXCEPT !.at = "going"] ELSE Idle]
    /\ modal = None /\ save = None /\ act = None /\ opens = 0

ReadUsers(m) ==
    /\ loads[m].at = "going" /\ row[1].role \in Admins /\ loads' = [loads EXCEPT ![m] = [at |-> "read", rows |-> row]]
    /\ UNCHANGED <<serverVars, actor, users, statusFilter, modal, save, act, opens>>

\* The dialog is not filled again from a list that is read under it.
ModalRefilled == IF modal = None THEN None ELSE [modal EXCEPT !.active = users'[modal.of].active]
ModalKept == modal
ModalOnReload == ModalKept

UsersAnswered(m) ==
    /\ loads[m].at = "read" /\ users' = loads[m].rows /\ loads' = [loads EXCEPT ![m] = Idle] /\ modal' = ModalOnReload
    /\ UNCHANGED <<serverVars, actor, statusFilter, save, act, opens>>

UsersFail(m) ==
    /\ loads[m].at # "idle" /\ loads' = [loads EXCEPT ![m] = Idle]
    /\ UNCHANGED <<serverVars, actor, users, statusFilter, modal, save, act, opens>>

SetStatusFilter ==
    /\ AtList /\ "filter" \in Uses /\ statusFilter' = (IF statusFilter = "ALL" THEN "ACTIVE" ELSE "ALL")
    /\ UNCHANGED <<serverVars, actor, users, loads, modal, save, act, opens>>

-----------------------------------------------------------------------------
(* The row mutations, one at a time.                                       *)

Press(u, kind, p, approve) ==
    /\ AtList /\ "menus" \in Uses /\ act = None
    /\ act' = [of |-> u, kind |-> kind, request |-> p, approve |-> approve, at |-> "going"]
    /\ UNCHANGED <<serverVars, actor, listVars, modal, save, opens>>

\* The requests above the table are not filtered; a row's own button only approves.
HandleReviewB2bRequest ==
    \E u \in DOMAIN users, approve \in BOOLEAN : users[u].b2b = "PENDING" /\ Press(u, "review", Same, approve)

ChangeScopeQuick ==
    \E u \in FilteredUsers, f \in Scopes : CanChangeScope(actor, u, users[u]) /\ Press(u, "scope", [Same EXCEPT !.scope = f], FALSE)

ToggleActiveQuick ==
    \E u \in FilteredUsers :
        ~StatusLocked(actor, u, users[u]) /\ Press(u, "active", [Same EXCEPT !.active = ~users[u].active], FALSE)

ServeAct(reaches, answers) ==
    /\ act # None /\ act.at = "going"
    /\ LET u == act.of
           ok == /\ reaches /\ row[1].role \in Admins
                 /\ act.kind = "review" \/ OwnerRules(row[1].role, u, row[u], act.request)
       IN  /\ row' = IF ~ok THEN row ELSE IF act.kind = "review" THEN [row EXCEPT ![u] = Reviewed(@, act.approve)]
                     ELSE Updated(u, row[u], act.request)
           /\ act' = [act EXCEPT !.at = IF ok /\ answers THEN "answered" ELSE "failed"]
    /\ UNCHANGED <<others, actor, listVars, modal, save, opens>>

ActAnswered(slot) ==
    /\ act # None /\ act.at = "answered" /\ act' = None /\ FetchUsers(slot)
    /\ UNCHANGED <<serverVars, actor, users, statusFilter, modal, save, opens>>

ActFailed ==
    /\ act # None /\ act.at = "failed" /\ act' = None
    /\ UNCHANGED <<serverVars, actor, listVars, modal, save, opens>>

-----------------------------------------------------------------------------
(* The edit dialog.                                                        *)

OpenEditModal ==
    /\ AtList /\ opens < MaxOpens /\ opens' = opens + 1
    /\ \E u \in FilteredUsers :
          modal' = [of |-> u, shown |-> users[u], role |-> users[u].role, active |-> users[u].active,
                    scope |-> users[u].scope, contact |-> users[u].contact, confirmed |-> FALSE, ticked |-> FALSE]
    /\ UNCHANGED <<serverVars, actor, listVars, save, act>>

Type(field, new) ==
    /\ modal # None /\ field \in Uses /\ modal' = new
    /\ UNCHANGED <<serverVars, actor, listVars, save, act, opens>>

\* isOwnershipTransfer
PendingTransfer(m) == m.role = "OWNER" /\ m.shown.role # "OWNER"

\* Every choice of a role asks again for the confirmation and sets the scope anew. "ticked" is
\* the box as ticked since that choice.
TickStays(m) == m.confirmed
TickGone(m) == FALSE
TickOnChoice(m) == TickGone(m)

ChooseRole ==
    /\ modal # None
    /\ \E q \in OfferedRoles(actor, modal.of, modal.shown) \cup {modal.role} :
          Type("role", [modal EXCEPT !.role = q, !.confirmed = TickOnChoice(modal), !.ticked = FALSE,
                                     !.scope = IF q = "CUSTOMER" THEN "B2C" ELSE "BOTH"])

SetIsActiveInput ==
    /\ modal # None /\ ~StatusLocked(actor, modal.of, modal.shown) /\ Type("active", [modal EXCEPT !.active = ~@])

SetScopeInput == modal # None /\ modal.role = "CUSTOMER" /\ \E f \in Scopes : Type("scope", [modal EXCEPT !.scope = f])

TypeContact == modal # None /\ modal.contact # "mine" /\ Type("contact", [modal EXCEPT !.contact = "mine"])

SetTransferConfirmed == modal # None /\ PendingTransfer(modal) /\ Type("role", [modal EXCEPT !.confirmed = ~@, !.ticked = ~@])

\* Cancel and Escape, also while a save is under way.
CloseModal ==
    /\ modal # None /\ modal' = None
    /\ UNCHANGED <<serverVars, actor, listVars, save, act, opens>>

Payload(m) == [role |-> m.role, active |-> m.active, contact |-> m.contact,
               scope |-> IF m.role = "CUSTOMER" THEN m.scope ELSE "BOTH"]

\* Everything in the dialog is sent, also what was not touched.
HandleSaveUserModal ==
    /\ modal # None /\ save = None /\ (PendingTransfer(modal) => modal.confirmed)
    /\ save' = [of |-> modal.of, shown |-> modal.shown, request |-> Payload(modal), transfers |-> PendingTransfer(modal),
                ticked |-> modal.ticked, by |-> actor, read |-> None, at |-> "going"]
    /\ UNCHANGED <<serverVars, actor, listVars, modal, act, opens>>

\* The row is read without a lock, and what was changed of it is written later: a promotion that
\* falls between the two leaves a team member with the scope a customer was saved with.
ServeSaveRead(reaches) ==
    /\ save # None /\ save.at = "going"
    /\ LET r == row[save.of]
           ok == reaches /\ row[1].role \in Admins /\ OwnerRules(row[1].role, save.of, r, save.request)
       IN  save' = IF ok THEN [save EXCEPT !.at = "read", !.read = r] ELSE [save EXCEPT !.at = "failed"]
    /\ UNCHANGED <<serverVars, actor, listVars, modal, act, opens>>

ServeSaveWrite(answers) ==
    /\ save # None /\ save.at = "read" /\ row' = Updated(save.of, save.read, save.request)
    /\ save' = [save EXCEPT !.at = IF answers THEN "answered" ELSE "failed", !.read = None]
    /\ UNCHANGED <<others, actor, listVars, modal, act, opens>>

\* The answer closes the dialog that is open now; after a transfer the page is loaded anew.
SaveAnswered(slot) ==
    /\ save # None /\ save.at = "answered" /\ save' = None /\ modal' = None
    /\ IF save.transfers
       THEN /\ actor' = row[1].role /\ users' = [u \in {} |-> None] /\ statusFilter' = "ALL" /\ act' = None
            /\ loads' = [m \in Loads |-> IF m = slot THEN [Idle EXCEPT !.at = "going"] ELSE Idle]
       ELSE FetchUsers(slot) /\ UNCHANGED <<actor, users, statusFilter, act>>
    /\ UNCHANGED <<serverVars, opens>>

SaveFailed ==
    /\ save # None /\ save.at = "failed" /\ save' = None
    /\ UNCHANGED <<serverVars, actor, listVars, modal, act, opens>>

Next ==
    \/ OthersAct \/ SetStatusFilter \/ HandleReviewB2bRequest \/ ChangeScopeQuick \/ ToggleActiveQuick \/ ActFailed
    \/ OpenEditModal \/ ChooseRole \/ SetIsActiveInput \/ SetScopeInput \/ TypeContact \/ SetTransferConfirmed
    \/ CloseModal \/ HandleSaveUserModal \/ SaveFailed
    \/ \E m \in Loads : ReadUsers(m) \/ UsersAnswered(m) \/ UsersFail(m) \/ ActAnswered(m) \/ SaveAnswered(m)
    \/ \E a \in BOOLEAN : ServeSaveRead(a) \/ ServeSaveWrite(a)
    \/ \E a, b \in BOOLEAN : ServeAct(a, b)

Spec == Init /\ [][Next]_vars

-----------------------------------------------------------------------------
TypeOK ==
    /\ \A u \in Users : row[u].role \in Roles /\ row[u].scope \in Scopes /\ row[u].active \in BOOLEAN
    /\ actor \in Roles /\ statusFilter \in {"ALL", "ACTIVE"} /\ DOMAIN users \subseteq Users

\* The Owner role goes to the person it was confirmed for and not on an older tick, and what the
\* page lets its viewer choose on a row the server accepts as long as the row is as it was shown.
\* The status is always sent along, so an inactive person whose status the viewer may not choose
\* cannot be saved at all: an Admin, or an Owner, whom nobody asks to be active when the role comes.
ActedAsShown ==
    save # None =>
        /\ save.transfers => save.ticked /\ save.request.role = "OWNER"
        /\ (StatusLocked(save.by, save.of, save.shown) => save.shown.active)
              => OwnerRules(save.by, save.of, save.shown, save.request)

\* The Owner role is handed over, never doubled or lost, although a row is read before it is written.
OncePerIntent ==
    /\ row[1].role = "OWNER" => row[2].role # "OWNER"
    /\ (\A r \in Starts : r[1].role = "OWNER" \/ r[2].role = "OWNER") => row[1].role = "OWNER" \/ row[2].role = "OWNER"

\* The list is read again, and rows are changed, under an open dialog, which keeps what it holds.
KeepsTyping ==
    (row' # row \/ act' # act \/ \E m \in Loads : loads[m].at # "idle" /\ loads'[m] # loads[m])
    /\ UNCHANGED save => UNCHANGED modal
=============================================================================
