--------------------------- MODULE PickupRequests ---------------------------
(***************************************************************************)
(* Pickup requests (PURs, "manifests" in the code) and the shipments they  *)
(* collect, under concurrent requests: services/manifests.py with          *)
(* repositories/manifests.py, and the detaching cancel of                  *)
(* services/shipment.py.                                                   *)
(*                                                                         *)
(* Postgres runs at READ COMMITTED, so a request is cut where another can  *)
(* get in: at each SELECT ... FOR UPDATE, at each UPDATE its flush sends   *)
(* (which queues for the row), and at the commit, which publishes what it  *)
(* wrote and frees its rows.  Shipments are read without a lock by every   *)
(* PUR handler; what it read decides what it writes.  A link validated on   *)
(* such a read may be written over a cancel or another link: `relinked'     *)
(* and `miscounted' remember where, and the properties except it.           *)
(*                                                                         *)
(* Shipments are ordered: a flush sends its UPDATEs in primary-key order.  *)
(***************************************************************************)
EXTENDS Naturals, FiniteSets

CONSTANTS
    Shipments,    \* naturals: the order of their primary keys
    Purs,         \* ids of pickup requests
    Requests,     \* HTTP requests the server works on at the same time
    NoPur,        \* manifest_id None
    NoRequest     \* nobody holds the row

ASSUME ShipmentAssumption == Shipments \subseteq Nat /\ IsFiniteSet(Shipments)
ASSUME NoneAssumption == NoPur \notin Purs /\ NoRequest \notin Requests

VARIABLES
    ship,         \* committed shipment rows: status and manifest_id
    pur,          \* committed manifest rows: status and total_boxes
    shipLock,     \* who holds the row lock of a shipment
    purLock,      \* who holds the row lock of a pickup request
    req,          \* the requests in flight
    relinked,     \* history: shipments linked although no longer to be collected as they were read
    miscounted    \* history: the pickup requests such a shipment left or went to

vars == <<ship, pur, shipLock, purLock, req, relinked, miscounted>>
ghostVars == <<relinked, miscounted>>

Open == {"SCHEDULED", "OUT_FOR_PICKUP"}
Ended == {"PICKED", "CANCELED", "NOT_PICKED"}

ShipmentRow == [status: {"OPEN", "ASSIGNED", "IN_TRANSIT", "CANCELLED"}, pur: Purs \cup {NoPur}]

\* A PUR id is NEW until its INSERT is committed.  Every shipment is one box; blind pickups,
\* whose boxes are declared, are left out.
PurRow == [st: {"NEW"} \cup Open \cup Ended, boxes: Nat]

\* ids: the shipments it writes; picked: those handed over; seen: the status as read of those
\* it gives back or hands over;
\* end: the status its PUR gets; boxes: the total it writes.
Request == [op: {"none", "create", "add", "release", "dispatch", "cancel"},
            pc: {"idle", "update", "sync", "commit"}, pur: Purs \cup {NoPur},
            ids: SUBSET Shipments, picked: SUBSET Shipments,
            seen: [Shipments -> {"OPEN", "ASSIGNED", "IN_TRANSIT", "CANCELLED"}],
            end: {"NEW"} \cup Open \cup Ended, boxes: Nat]

Unread == [s \in Shipments |-> "OPEN"]
Seen(ids) == [s \in Shipments |-> IF s \in ids THEN ship[s].status ELSE "OPEN"]
Idle == [op |-> "none", pc |-> "idle", pur |-> NoPur, ids |-> {}, picked |-> {},
         seen |-> Unread, end |-> "NEW", boxes |-> 0]

LinkedTo(p) == {s \in Shipments : ship[s].pur = p}

Init ==
    /\ ship = [s \in Shipments |-> [status |-> "OPEN", pur |-> NoPur]]
    /\ pur = [p \in Purs |-> [st |-> "NEW", boxes |-> 0]]
    /\ shipLock = [s \in Shipments |-> NoRequest]
    /\ purLock = [p \in Purs |-> NoRequest]
    /\ req = [r \in Requests |-> Idle]
    /\ relinked = {} /\ miscounted = {}

(******************************** row locks ********************************)

\* The rows the request has yet to UPDATE; the first is the one it waits for.
ToUpdate(r) == {s \in req[r].ids : shipLock[s] # r}
NextRow(r) == CHOOSE s \in ToUpdate(r) : \A t \in ToUpdate(r) : s <= t

\* A lock given back by a request that ends, committed or not.
Freed(lock, r) == [x \in DOMAIN lock |-> IF lock[x] = r THEN NoRequest ELSE lock[x]]

RolledBack(r) ==
    /\ req' = [req EXCEPT ![r] = Idle]
    /\ shipLock' = Freed(shipLock, r)
    /\ purLock' = Freed(purLock, r)
    /\ UNCHANGED <<ship, pur, ghostVars>>

\* The request that holds the row r waits for.
WaitsFor(r) ==
    CASE req[r].pc = "update" -> shipLock[NextRow(r)]
      [] req[r].pc = "sync" -> purLock[req[r].pur]
      [] OTHER -> NoRequest

\* Postgres aborts a request that waits in a cycle; its client gets a 500.
DeadlockVictim(r) ==
    /\ \E C \in SUBSET Requests : r \in C /\ \A c \in C : WaitsFor(c) \in C
    /\ RolledBack(r)

\* A request in flight may also fail (connection lost, server stopped).
Fail(r) == req[r].pc # "idle" /\ RolledBack(r)

(*************************** linking shipments *****************************)

\* _validate_linkable_shipments on the rows it read, which it does not lock.
ToCollect(s) == ship[s].status = "OPEN" /\ ship[s].pur = NoPur
Linkable(ids) == \A s \in ids : ToCollect(s)

\* create_manifest: the row is its own until the commit.
CreatePur(r, p, ids) ==
    /\ req[r].pc = "idle" /\ pur[p].st = "NEW" /\ purLock[p] = NoRequest
    /\ ids # {} /\ Linkable(ids)
    /\ req' = [req EXCEPT ![r] = [op |-> "create", pc |-> "update", pur |-> p, ids |-> ids,
                                  picked |-> {}, seen |-> Unread, end |-> "SCHEDULED",
                                  boxes |-> Cardinality(ids)]]
    /\ purLock' = [purLock EXCEPT ![p] = r]
    /\ UNCHANGED <<ship, pur, shipLock, ghostVars>>

\* Mutant: the pickup request is read without FOR UPDATE.
AddShipmentsUnlocked(r, p, ids) ==
    /\ req[r].pc = "idle" /\ pur[p].st = "SCHEDULED"
    /\ ids # {} /\ Linkable(ids)
    /\ req' = [req EXCEPT ![r] = [op |-> "add", pc |-> "update", pur |-> p, ids |-> ids,
                                  picked |-> {}, seen |-> Unread, end |-> "SCHEDULED",
                                  boxes |-> Cardinality(LinkedTo(p) \cup ids)]]
    /\ UNCHANGED <<ship, pur, shipLock, purLock, ghostVars>>

AddShipments(r, p, ids) ==
    /\ req[r].pc = "idle" /\ purLock[p] = NoRequest /\ pur[p].st = "SCHEDULED"
    /\ ids # {} /\ Linkable(ids)
    /\ req' = [req EXCEPT ![r] = [op |-> "add", pc |-> "update", pur |-> p, ids |-> ids,
                                  picked |-> {}, seen |-> Unread, end |-> "SCHEDULED",
                                  boxes |-> Cardinality(LinkedTo(p) \cup ids)]]
    /\ purLock' = [purLock EXCEPT ![p] = r]
    /\ UNCHANGED <<ship, pur, shipLock, ghostVars>>

(************************* ending a pickup request *************************)

MarkOutForPickup(p) ==
    /\ purLock[p] = NoRequest /\ pur[p].st = "SCHEDULED"
    /\ pur' = [pur EXCEPT ![p].st = "OUT_FOR_PICKUP"]
    /\ UNCHANGED <<ship, shipLock, purLock, req, ghostVars>>

Updating(ids) == IF ids = {} THEN "commit" ELSE "update"

\* Mutant: two clicks may both find the pickup request open.
ReleasePurUnlocked(r, p, end) ==
    /\ req[r].pc = "idle" /\ pur[p].st \in Open
    /\ req' = [req EXCEPT ![r] = [op |-> "release", pc |-> Updating(LinkedTo(p)), pur |-> p,
                                  ids |-> LinkedTo(p), picked |-> {}, seen |-> Seen(LinkedTo(p)), end |-> end,
                                  boxes |-> pur[p].boxes]]
    /\ UNCHANGED <<ship, pur, shipLock, purLock, ghostVars>>

\* cancel_manifest and mark_not_picked.
ReleasePur(r, p, end) ==
    /\ req[r].pc = "idle" /\ purLock[p] = NoRequest /\ pur[p].st \in Open
    /\ req' = [req EXCEPT ![r] = [op |-> "release", pc |-> Updating(LinkedTo(p)), pur |-> p,
                                  ids |-> LinkedTo(p), picked |-> {}, seen |-> Seen(LinkedTo(p)), end |-> end,
                                  boxes |-> pur[p].boxes]]
    /\ purLock' = [purLock EXCEPT ![p] = r]
    /\ UNCHANGED <<ship, pur, shipLock, ghostVars>>

\* dispatch_manifest: all linked shipments, or those selected, are handed over.
DispatchPur(r, p, picked) ==
    /\ req[r].pc = "idle" /\ purLock[p] = NoRequest /\ pur[p].st \in Open
    /\ picked \subseteq LinkedTo(p) /\ (picked = {} => LinkedTo(p) = {})
    /\ req' = [req EXCEPT ![r] =
                  [op |-> "dispatch", pc |-> Updating(LinkedTo(p)), pur |-> p, ids |-> LinkedTo(p),
                   picked |-> picked, seen |-> Seen(LinkedTo(p)), end |-> "PICKED",
                   boxes |-> IF picked = LinkedTo(p) THEN pur[p].boxes ELSE Cardinality(picked)]]
    /\ purLock' = [purLock EXCEPT ![p] = r]
    /\ UNCHANGED <<ship, pur, shipLock, ghostVars>>

(************************** cancelling a shipment **************************)

\* cancel_shipment, and PATCH to CANCELLED: the row is locked before it is read.
CancelShipment(r, s) ==
    /\ req[r].pc = "idle" /\ shipLock[s] = NoRequest
    /\ ship[s].status \in {"OPEN", "ASSIGNED"}
    /\ req' = [req EXCEPT ![r] = [op |-> "cancel", pur |-> ship[s].pur, ids |-> {s},
                                  pc |-> IF ship[s].pur = NoPur THEN "commit" ELSE "sync",
                                  picked |-> {}, seen |-> Unread, end |-> "NEW", boxes |-> 0]]
    /\ shipLock' = [shipLock EXCEPT ![s] = r]
    /\ UNCHANGED <<ship, pur, purLock, ghostVars>>

\* Mutant: the shipment that leaves is still counted.
RemainingWithSelf(r) == LinkedTo(req[r].pur)

\* The shipments still to collect, once the cancelled one is detached.
Remaining(r) == LinkedTo(req[r].pur) \ req[r].ids

\* A pickup request that is over is left as it is (NEW: nothing is written).
SyncedStatus(p, remaining) ==
    CASE pur[p].st \notin Open -> "NEW"
      [] pur[p].st = "SCHEDULED" /\ remaining = {} -> "CANCELED"
      [] OTHER -> pur[p].st

\* Mutant: the pickup request is read without FOR UPDATE.
SyncPurUnlocked(r) ==
    LET p == req[r].pur
    IN  /\ req[r].pc = "sync"
        /\ req' = [req EXCEPT ![r].pc = "commit", ![r].boxes = Cardinality(Remaining(r)),
                              ![r].end = SyncedStatus(p, Remaining(r))]
        /\ UNCHANGED <<ship, pur, shipLock, purLock, ghostVars>>

\* _sync_manifest_after_detach: total_boxes follows, and a SCHEDULED pickup request with
\* nothing left to collect is cancelled.
SyncPur(r) ==
    LET p == req[r].pur
    IN  /\ req[r].pc = "sync" /\ purLock[p] = NoRequest
        /\ req' = [req EXCEPT ![r].pc = "commit", ![r].boxes = Cardinality(Remaining(r)),
                              ![r].end = SyncedStatus(p, Remaining(r))]
        /\ purLock' = [purLock EXCEPT ![p] = r]
        /\ UNCHANGED <<ship, pur, shipLock, ghostVars>>

(*************************** writing and committing ************************)

\* The flush queues for the next row; the UPDATE finds it by id, whatever it holds by now.
UpdateRow(r) ==
    /\ req[r].pc = "update" /\ shipLock[NextRow(r)] = NoRequest
    /\ shipLock' = [shipLock EXCEPT ![NextRow(r)] = r]
    /\ req' = [req EXCEPT ![r].pc = IF Cardinality(ToUpdate(r)) = 1 THEN "commit" ELSE @]
    /\ UNCHANGED <<ship, pur, purLock, ghostVars>>

\* Mutant: a shipment that comes back keeps its status.
ReleasedRowKeepingStatus(r, s) == [ship[s] EXCEPT !.pur = NoPur]

ReleasedRow(r, s) ==
    [status |-> IF req[r].seen[s] = "ASSIGNED" THEN "OPEN" ELSE ship[s].status, pur |-> NoPur]

\* What the request writes to a shipment; a column it did not change keeps what is there.
RowAfter(r, s) ==
    CASE req[r].op \in {"create", "add"} -> [status |-> "ASSIGNED", pur |-> req[r].pur]
      [] req[r].op = "release" -> ReleasedRow(r, s)
      [] req[r].op = "dispatch" /\ s \in req[r].picked ->
            [ship[s] EXCEPT !.status = IF req[r].seen[s] \in {"OPEN", "ASSIGNED"}
                                       THEN "IN_TRANSIT" ELSE @]
      [] req[r].op = "dispatch" /\ s \notin req[r].picked -> [status |-> "OPEN", pur |-> NoPur]
      [] OTHER -> [status |-> "CANCELLED", pur |-> NoPur]

\* History: a link written over what others did to the shipment since it was validated, and the
\* pickup requests whose count that upsets.
Overwrites(r) == {s \in req[r].ids : req[r].op \in {"create", "add"} /\ ~ToCollect(s)}
Recorded(r) ==
    /\ relinked' = relinked \cup Overwrites(r)
    /\ miscounted' = miscounted \cup {p \in Purs : \E s \in relinked' : p \in {ship[s].pur, ship'[s].pur}}

\* Mutant: a finished request keeps the pickup request it had locked.
CommitKeepingPur(r) ==
    /\ req[r].pc = "commit"
    /\ ship' = [s \in Shipments |-> IF s \in req[r].ids THEN RowAfter(r, s) ELSE ship[s]]
    /\ pur' = [p \in Purs |-> IF p = req[r].pur /\ req[r].end # "NEW"
                              THEN [st |-> req[r].end, boxes |-> req[r].boxes] ELSE pur[p]]
    /\ req' = [req EXCEPT ![r] = Idle] /\ Recorded(r)
    /\ shipLock' = Freed(shipLock, r)
    /\ UNCHANGED purLock

Commit(r) ==
    /\ req[r].pc = "commit"
    /\ ship' = [s \in Shipments |-> IF s \in req[r].ids THEN RowAfter(r, s) ELSE ship[s]]
    /\ pur' = [p \in Purs |-> IF p = req[r].pur /\ req[r].end # "NEW"
                              THEN [st |-> req[r].end, boxes |-> req[r].boxes] ELSE pur[p]]
    /\ req' = [req EXCEPT ![r] = Idle] /\ Recorded(r)
    /\ shipLock' = Freed(shipLock, r)
    /\ purLock' = Freed(purLock, r)

Next ==
    \/ \E r \in Requests :
          \/ \E p \in Purs, ids \in SUBSET Shipments :
                CreatePur(r, p, ids) \/ AddShipments(r, p, ids) \/ DispatchPur(r, p, ids)
          \/ \E p \in Purs, end \in {"CANCELED", "NOT_PICKED"} : ReleasePur(r, p, end)
          \/ \E s \in Shipments : CancelShipment(r, s)
          \/ SyncPur(r) \/ UpdateRow(r) \/ Commit(r) \/ DeadlockVictim(r) \/ Fail(r)
    \/ \E p \in Purs : MarkOutForPickup(p)

Spec == Init /\ [][Next]_vars

\* The server runs a request to its end, row locks are granted first come first served,
\* and the database looks for deadlocks.
Fairness ==
    \A r \in Requests :
        /\ WF_vars(Commit(r)) /\ WF_vars(DeadlockVictim(r))
        /\ SF_vars(UpdateRow(r)) /\ SF_vars(SyncPur(r))

FairSpec == Spec /\ Fairness

(******************************** properties *******************************)

\* Rows, locks and requests are well formed; a request at its commit holds every row it
\* writes, and a shipment is linked exactly when it is Ready for Pickup or was dispatched,
\* unless a link was written over what others did to it.
TypeOK ==
    /\ ship \in [Shipments -> ShipmentRow] /\ pur \in [Purs -> PurRow]
    /\ shipLock \in [Shipments -> Requests \cup {NoRequest}]
    /\ purLock \in [Purs -> Requests \cup {NoRequest}]
    /\ req \in [Requests -> Request]
    /\ \A r \in Requests : req[r].pc = "commit" => \A s \in req[r].ids : shipLock[s] = r
    /\ relinked \subseteq Shipments /\ miscounted \subseteq Purs
    /\ \A s \in Shipments \ relinked : ship[s].pur = NoPur <=> ship[s].status \in {"OPEN", "CANCELLED"}

\* The run-sheet's carton count is what the courier will find: total_boxes of a pickup
\* request that is open or picked is the boxes linked to it, whoever cancels, adds,
\* releases or dispatches at the same time (D-11). The exception: a shipment of it was linked
\* over what others did to it between the validation and the write (manifests.py:787).
BoxesMatch ==
    \A p \in Purs \ miscounted :
        pur[p].st \in Open \cup {"PICKED"} => pur[p].boxes = Cardinality(LinkedTo(p))

\* MANIFEST_STATE of services/integrity_audit.py: an ASSIGNED shipment sits on an active
\* pickup request, but for such a shipment.
AssignedOnOpenPur ==
    \A s \in Shipments \ relinked :
        ship[s].status = "ASSIGNED" => \E p \in Purs : ship[s].pur = p /\ pur[p].st \in Open

\* A cancelled and refunded shipment is never put on a truck or back up for collection:
\* H-6, "Nothing leaves these" terminal states. Only a link validated before the cancel and
\* written after it does that, and is named.
CancelledStays ==
    [][\A s \in Shipments : ship[s].status = "CANCELLED" =>
          ship'[s].status = "CANCELLED" \/ s \in relinked']_vars

\* Dispatch, cancel and not-picked act once: of two clicks the second is refused (H-4, J55).
PurEndsOnce == [][\A p \in Purs : pur[p].st \in Ended => pur'[p] = pur[p]]_vars

\* A cancel locks the shipment and then the pickup request, a dispatch the other way round;
\* still every request ends.
RequestsEnd == \A r \in Requests : req[r].pc # "idle" ~> req[r].pc = "idle"
=============================================================================
