---------------------------- MODULE PickupProofs ----------------------------
(***************************************************************************)
(* Proofs about PickupRequests for any shipments, pickup requests and      *)
(* concurrent requests.  From the row locks alone: a pickup request ends   *)
(* once.  But for the shipments a link was written over (`relinked') and    *)
(* their pickup requests (`miscounted'): linked means Ready for Pickup on   *)
(* an open pickup request or dispatched with one, total_boxes counts what   *)
(* is linked, and a cancelled shipment stays cancelled.                    *)
(*                                                                         *)
(* The argument: the shipments linked to a pickup request change only by   *)
(* the commit of the request that holds its row, or by a link written over *)
(* them.  So what the holder read of them, to write them and to count      *)
(* them, is true until it ends, for all that are not named.                *)
(*                                                                         *)
(* After them the screens a pickup is asked for, worked off and tracked    *)
(* at: what OrdersList, PickupForm, PickupRun and Doorstep promise, for    *)
(* every value of their constants, as parts of TypeOK, OncePerIntent,      *)
(* ActedAsShown and TypingKept of MCDesks.  A section declares the         *)
(* constants and variables its screen adds and names its operators with a  *)
(* prefix; ...Constants is what a proof asks of the constants, and every   *)
(* instance of MCDesks satisfies it.                                       *)
(***************************************************************************)
EXTENDS PickupRequests, Naturals, Sequences, FiniteSetTheorems, TLAPS

(***************************** the row locks *******************************)

Shapes ==
    /\ ship \in [Shipments -> ShipmentRow] /\ pur \in [Purs -> PurRow]
    /\ shipLock \in [Shipments -> Requests \cup {NoRequest}]
    /\ purLock \in [Purs -> Requests \cup {NoRequest}]
    /\ req \in [Requests -> Request]
    /\ relinked \subseteq Shipments /\ miscounted \subseteq Purs

\* A request holds its pickup request from the start, or, a cancel, from its sync; a cancel
\* holds its shipment from the start, the others hold theirs when they commit.
Holds(r) ==
    /\ req[r].op = "none" => req[r].pc = "idle" /\ req[r].ids = {} /\ req[r].end = "NEW"
    /\ req[r].pc = "idle" => req[r].op = "none"
    /\ req[r].op \in {"create", "add", "release", "dispatch"} =>
          req[r].pc \in {"update", "commit"} /\ req[r].pur \in Purs /\ purLock[req[r].pur] = r
    /\ req[r].op = "cancel" =>
          /\ req[r].pc \in {"sync", "commit"}
          /\ \A s \in req[r].ids : shipLock[s] = r
          /\ req[r].pc = "sync" => req[r].pur \in Purs /\ req[r].end = "NEW"
          /\ req[r].pc = "commit" /\ req[r].pur # NoPur => purLock[req[r].pur] = r
          /\ req[r].pur = NoPur => req[r].end = "NEW"
    /\ req[r].pc = "commit" => \A s \in req[r].ids : shipLock[s] = r

\* The pickup request that the holder is about to change is still as it found it.
Found(r) ==
    LET p == req[r].pur
    IN  /\ req[r].op = "create" => req[r].end = "SCHEDULED" /\ pur[p].st = "NEW"
        /\ req[r].op = "add" => req[r].end = "SCHEDULED" /\ pur[p].st = "SCHEDULED"
        /\ req[r].op = "release" => req[r].end \in {"CANCELED", "NOT_PICKED"} /\ pur[p].st \in Open
        /\ req[r].op = "dispatch" => req[r].end = "PICKED" /\ pur[p].st \in Open
        /\ req[r].op = "cancel" /\ req[r].end # "NEW" =>
              pur[p].st \in Open /\ req[r].end \in Open \cup {"CANCELED"}

LockInv == Shapes /\ \A r \in Requests : Holds(r) /\ Found(r)

(************************** what is linked where ***************************)

\* A shipment's status and its pickup request's go together, unless a link was written over it.
LinksOK ==
    \A s \in Shipments \ relinked :
        \/ ship[s].pur = NoPur /\ ship[s].status \in {"OPEN", "CANCELLED"}
        \/ ship[s].pur \in Purs /\ ship[s].status = "ASSIGNED" /\ pur[ship[s].pur].st \in Open
        \/ ship[s].pur \in Purs /\ ship[s].status = "IN_TRANSIT" /\ pur[ship[s].pur].st = "PICKED"

\* Such a shipment is linked to pickup requests that are named only.
Named == \A s \in relinked : ship[s].pur \in miscounted \cup {NoPur}

\* What will be linked to its pickup request once the request has committed.
LinkedAfter(r) ==
    CASE req[r].op \in {"create", "add"} -> LinkedTo(req[r].pur) \cup req[r].ids
      [] req[r].op = "release" -> {}
      [] req[r].op = "dispatch" -> req[r].picked
      [] OTHER -> LinkedTo(req[r].pur) \ req[r].ids

\* What a request that ends a pickup request read: its shipments, all of them.
Collecting(r) ==
    req[r].op \in {"release", "dispatch"} =>
        /\ req[r].picked \subseteq req[r].ids /\ LinkedTo(req[r].pur) \subseteq req[r].ids
        /\ req[r].pur \notin miscounted => req[r].ids = LinkedTo(req[r].pur)
        /\ \A s \in req[r].ids \ relinked :
              ship[s].pur = req[r].pur /\ req[r].seen[s] = ship[s].status

\* What a cancel read of its shipment, and of the others on the pickup request it ends.
Cancelling(r) ==
    req[r].op = "cancel" =>
        /\ req[r].ids # {}
        /\ \A s \in req[r].ids : ship[s].pur = req[r].pur /\ ship[s].status \in {"OPEN", "ASSIGNED"}
        /\ req[r].end = "CANCELED" => LinkedTo(req[r].pur) \subseteq req[r].ids

\* The total it will write fits what will be linked.
Counting(r) ==
    req[r].pc \in {"update", "commit"} /\ req[r].pur \notin miscounted \cup {NoPur} =>
        /\ req[r].end # "NEW"
        /\ req[r].end \in Open \cup {"PICKED"} => req[r].boxes = Cardinality(LinkedAfter(r))

PurInv ==
    /\ LockInv
    /\ LinksOK /\ Named /\ BoxesMatch
    /\ \A r \in Requests : Collecting(r) /\ Cancelling(r) /\ Counting(r)

(************************** the locks, step by step ************************)

LEMMA IdleRequest == Idle \in Request
BY DEF Idle, Unread, Request, Open, Ended

LEMMA SeenType ==
    ASSUME Shapes
    PROVE  /\ Unread \in [Shipments -> {"OPEN", "ASSIGNED", "IN_TRANSIT", "CANCELLED"}]
           /\ \A ids : Seen(ids) \in [Shipments -> {"OPEN", "ASSIGNED", "IN_TRANSIT", "CANCELLED"}]
BY DEF Shapes, Seen, Unread, ShipmentRow

LEMMA FiniteShipments == \A S \in SUBSET Shipments : IsFiniteSet(S) /\ Cardinality(S) \in Nat
BY ShipmentAssumption, FS_Subset, FS_CardinalityType

\* A step of one request that commits nothing and takes no lock from another.
LEMMA OwnStepLocks ==
    ASSUME LockInv, NEW r \in Requests, NEW x \in Request, req' = [req EXCEPT ![r] = x],
           ship' = ship, pur' = pur, UNCHANGED ghostVars,
           shipLock' \in [Shipments -> Requests \cup {NoRequest}],
           purLock' \in [Purs -> Requests \cup {NoRequest}],
           \A q \in Requests \ {r}, s \in Shipments : shipLock[s] = q => shipLock'[s] = q,
           \A q \in Requests \ {r}, p \in Purs : purLock[p] = q => purLock'[p] = q,
           Holds(r)', Found(r)'
    PROVE  LockInv'
<1>1. Shapes'
  BY DEF LockInv, Shapes, ghostVars
<1>2. ASSUME NEW q \in Requests, q # r PROVE Holds(q)' /\ Found(q)'
  <2>1. req'[q] = req[q] /\ req[q] \in Request /\ Holds(q) /\ Found(q)
    BY <1>2 DEF LockInv, Shapes
  <2>2. req[q].ids \subseteq Shipments /\ req[q].pur \in Purs \cup {NoPur}
    BY <2>1 DEF Request
  <2>3. Holds(q)'
    BY <1>2, <2>1, <2>2 DEF Holds
  <2>4. Found(q)'
    BY <2>1 DEF Found
  <2> QED BY <2>3, <2>4
<1> QED BY <1>1, <1>2 DEF LockInv

\* A lock that was free and is now held takes nothing from another.
LEMMA PurTaken ==
    ASSUME Shapes, NEW r \in Requests, NEW p \in Purs, purLock[p] = NoRequest,
           purLock' = [purLock EXCEPT ![p] = r]
    PROVE  /\ purLock' \in [Purs -> Requests \cup {NoRequest}] /\ purLock'[p] = r
           /\ \A q \in Requests \ {r}, t \in Purs : purLock[t] = q => purLock'[t] = q
BY NoneAssumption DEF Shapes

LEMMA RowTaken ==
    ASSUME Shapes, NEW r \in Requests, NEW s, shipLock[s] = NoRequest,
           shipLock' = [shipLock EXCEPT ![s] = r]
    PROVE  /\ shipLock' \in [Shipments -> Requests \cup {NoRequest}]
           /\ s \in Shipments => shipLock'[s] = r
           /\ \A q \in Requests, t \in Shipments : shipLock[t] = q => shipLock'[t] = q
BY NoneAssumption DEF Shapes

\* What a request that starts holds: its pickup request, and, if there is nothing to write
\* to, every shipment it writes.
LEMMA StartLocks ==
    ASSUME LockInv, NEW r \in Requests, NEW p \in Purs, NEW x \in Request,
           purLock[p] = NoRequest, purLock' = [purLock EXCEPT ![p] = r],
           req' = [req EXCEPT ![r] = x], UNCHANGED <<ship, pur, shipLock, ghostVars>>,
           x.op \in {"create", "add", "release", "dispatch"}, x.pur = p,
           x.pc = Updating(x.ids), Found(r)'
    PROVE  LockInv'
<1>1. Shapes
  BY DEF LockInv
<1>2. /\ purLock' \in [Purs -> Requests \cup {NoRequest}] /\ purLock'[p] = r
      /\ \A q \in Requests \ {r}, t \in Purs : purLock[t] = q => purLock'[t] = q
  BY <1>1, PurTaken
<1>3. req'[r] = x
  BY <1>1 DEF Shapes
<1>4. Holds(r)'
  BY <1>2, <1>3 DEF Holds, Updating
<1> QED BY <1>1, <1>2, <1>4, OwnStepLocks DEF Shapes

LEMMA CreateLocks ==
    ASSUME LockInv, NEW r \in Requests, NEW p \in Purs, NEW ids \in SUBSET Shipments,
           CreatePur(r, p, ids)
    PROVE  LockInv'
<1> DEFINE x == [op |-> "create", pc |-> "update", pur |-> p, ids |-> ids, picked |-> {},
                 seen |-> Unread, end |-> "SCHEDULED", boxes |-> Cardinality(ids)]
<1>1. x \in Request
  BY SeenType, FiniteShipments DEF LockInv, Request, Open
<1>2. req' = [req EXCEPT ![r] = x] /\ req'[r] = x
  BY DEF CreatePur, LockInv, Shapes
<1>3. Found(r)'
  BY <1>2 DEF Found, CreatePur
<1>4. x.pc = Updating(x.ids)
  BY DEF Updating, CreatePur
<1> QED BY <1>1, <1>2, <1>3, <1>4, StartLocks DEF CreatePur

LEMMA AddLocks ==
    ASSUME LockInv, NEW r \in Requests, NEW p \in Purs, NEW ids \in SUBSET Shipments,
           AddShipments(r, p, ids)
    PROVE  LockInv'
<1> DEFINE x == [op |-> "add", pc |-> "update", pur |-> p, ids |-> ids, picked |-> {},
                 seen |-> Unread, end |-> "SCHEDULED",
                 boxes |-> Cardinality(LinkedTo(p) \cup ids)]
<1>1. LinkedTo(p) \cup ids \in SUBSET Shipments
  BY DEF LinkedTo
<1>2. x \in Request
  BY <1>1, SeenType, FiniteShipments DEF LockInv, Request, Open
<1>3. req' = [req EXCEPT ![r] = x] /\ req'[r] = x
  BY DEF AddShipments, LockInv, Shapes
<1>4. Found(r)'
  BY <1>3 DEF Found, AddShipments
<1>5. x.pc = Updating(x.ids)
  BY DEF Updating, AddShipments
<1> QED BY <1>2, <1>3, <1>4, <1>5, StartLocks DEF AddShipments

LEMMA ReleaseLocks ==
    ASSUME LockInv, NEW r \in Requests, NEW p \in Purs, NEW end \in {"CANCELED", "NOT_PICKED"},
           ReleasePur(r, p, end)
    PROVE  LockInv'
<1> DEFINE x == [op |-> "release", pc |-> Updating(LinkedTo(p)), pur |-> p, ids |-> LinkedTo(p),
                 picked |-> {}, seen |-> Seen(LinkedTo(p)), end |-> end, boxes |-> pur[p].boxes]
<1>1. LinkedTo(p) \in SUBSET Shipments /\ pur[p].boxes \in Nat
  BY DEF LinkedTo, LockInv, Shapes, PurRow
<1>2. x \in Request
  BY <1>1, SeenType DEF LockInv, Request, Ended, Updating
<1>3. req' = [req EXCEPT ![r] = x] /\ req'[r] = x
  BY DEF ReleasePur, LockInv, Shapes
<1>4. Found(r)'
  BY <1>3 DEF Found, ReleasePur
<1> QED BY <1>2, <1>3, <1>4, StartLocks DEF ReleasePur

LEMMA DispatchLocks ==
    ASSUME LockInv, NEW r \in Requests, NEW p \in Purs, NEW picked \in SUBSET Shipments,
           DispatchPur(r, p, picked)
    PROVE  LockInv'
<1> DEFINE x == [op |-> "dispatch", pc |-> Updating(LinkedTo(p)), pur |-> p,
                 ids |-> LinkedTo(p), picked |-> picked, seen |-> Seen(LinkedTo(p)), end |-> "PICKED",
                 boxes |-> IF picked = LinkedTo(p) THEN pur[p].boxes ELSE Cardinality(picked)]
<1>1. LinkedTo(p) \in SUBSET Shipments /\ pur[p].boxes \in Nat /\ Cardinality(picked) \in Nat
  BY FiniteShipments DEF LinkedTo, LockInv, Shapes, PurRow
<1>2. x \in Request
  BY <1>1, SeenType DEF LockInv, Request, Ended, Updating
<1>3. req' = [req EXCEPT ![r] = x] /\ req'[r] = x
  BY DEF DispatchPur, LockInv, Shapes
<1>4. Found(r)'
  BY <1>3 DEF Found, DispatchPur
<1> QED BY <1>2, <1>3, <1>4, StartLocks DEF DispatchPur

LEMMA CancelLocks ==
    ASSUME LockInv, NEW r \in Requests, NEW s \in Shipments, CancelShipment(r, s)
    PROVE  LockInv'
<1> DEFINE x == [op |-> "cancel", pur |-> ship[s].pur, ids |-> {s},
                 pc |-> IF ship[s].pur = NoPur THEN "commit" ELSE "sync",
                 picked |-> {}, seen |-> Unread, end |-> "NEW", boxes |-> 0]
<1>1. ship[s].pur \in Purs \cup {NoPur}
  BY DEF LockInv, Shapes, ShipmentRow
<1>2. x \in Request
  BY <1>1, SeenType DEF LockInv, Request
<1>3. req' = [req EXCEPT ![r] = x] /\ req'[r] = x
  BY DEF CancelShipment, LockInv, Shapes
<1>4. Found(r)'
  BY <1>3 DEF Found
<1>5. Shapes /\ shipLock[s] = NoRequest /\ shipLock' = [shipLock EXCEPT ![s] = r]
  BY DEF CancelShipment, LockInv
<1>6. /\ shipLock' \in [Shipments -> Requests \cup {NoRequest}] /\ shipLock'[s] = r
      /\ \A q \in Requests, t \in Shipments : shipLock[t] = q => shipLock'[t] = q
  BY <1>5, RowTaken
<1>7. Holds(r)'
  BY <1>1, <1>3, <1>6 DEF Holds
<1>8. ship' = ship /\ pur' = pur /\ purLock' = purLock /\ UNCHANGED ghostVars
  BY DEF CancelShipment
<1>9. purLock' \in [Purs -> Requests \cup {NoRequest}]
  BY <1>5, <1>8 DEF Shapes
<1> HIDE DEF x
<1> QED BY <1>2, <1>3, <1>4, <1>6, <1>7, <1>8, <1>9, OwnStepLocks

LEMMA SyncLocks ==
    ASSUME LockInv, NEW r \in Requests, SyncPur(r)
    PROVE  LockInv'
<1> DEFINE p == req[r].pur
           rest == Remaining(r)
           x == [req[r] EXCEPT !.pc = "commit", !.boxes = Cardinality(rest),
                               !.end = SyncedStatus(p, rest)]
<1>1. req[r] \in Request /\ Holds(r) /\ Shapes /\ req[r].pc = "sync"
  BY DEF LockInv, Shapes, SyncPur
<1>2. req[r].op = "cancel"
  BY <1>1 DEF Holds, Request
<1>3. p \in Purs /\ \A s \in req[r].ids : shipLock[s] = r
  BY <1>1, <1>2 DEF Holds
<1>4. Cardinality(rest) \in Nat
  BY FiniteShipments DEF Remaining, LinkedTo
<1>5. /\ SyncedStatus(p, rest) \in {"NEW"} \cup Open \cup {"CANCELED"}
      /\ SyncedStatus(p, rest) # "NEW" => pur[p].st \in Open
  BY DEF SyncedStatus, Open
<1>6. x \in Request
  BY <1>1, <1>4, <1>5 DEF Request, Ended
<1>7. req' = [req EXCEPT ![r] = x] /\ req'[r] = x
  BY <1>1 DEF SyncPur, Shapes
<1>8. purLock[p] = NoRequest /\ purLock' = [purLock EXCEPT ![p] = r]
      /\ ship' = ship /\ pur' = pur /\ shipLock' = shipLock /\ UNCHANGED ghostVars
  BY DEF SyncPur
<1>9. /\ purLock' \in [Purs -> Requests \cup {NoRequest}] /\ purLock'[p] = r
      /\ \A q \in Requests \ {r}, t \in Purs : purLock[t] = q => purLock'[t] = q
  BY <1>1, <1>3, <1>8, PurTaken
<1>10. /\ x.op = "cancel" /\ x.pc = "commit" /\ x.pur = p /\ x.ids = req[r].ids
       /\ x.end = SyncedStatus(p, rest)
  BY <1>1, <1>2 DEF Request
<1> HIDE DEF x, rest
<1>11. Found(r)'
  BY <1>5, <1>7, <1>8, <1>10 DEF Found
<1>12. Holds(r)'
  BY <1>3, <1>7, <1>8, <1>9, <1>10, NoneAssumption DEF Holds
<1>13. shipLock' \in [Shipments -> Requests \cup {NoRequest}]
  BY <1>1, <1>8 DEF Shapes
<1> QED BY <1>6, <1>7, <1>8, <1>9, <1>11, <1>12, <1>13, OwnStepLocks

\* A row that is written is locked, and the last one ends the flush.
LEMMA UpdateLocks ==
    ASSUME LockInv, NEW r \in Requests, UpdateRow(r)
    PROVE  LockInv'
<1> DEFINE pc == IF Cardinality(ToUpdate(r)) = 1 THEN "commit" ELSE req[r].pc
           x == [req[r] EXCEPT !.pc = pc]
<1>1. req[r] \in Request /\ Holds(r) /\ Found(r) /\ Shapes /\ req[r].pc = "update"
  BY DEF LockInv, Shapes, UpdateRow
<1>2. x \in Request /\ pc \in {"update", "commit"}
  BY <1>1 DEF Request
<1>3. req' = [req EXCEPT ![r] = x] /\ req'[r] = x
  BY <1>1 DEF UpdateRow, Shapes
<1>4. shipLock[NextRow(r)] = NoRequest /\ shipLock' = [shipLock EXCEPT ![NextRow(r)] = r]
      /\ ship' = ship /\ pur' = pur /\ purLock' = purLock /\ UNCHANGED ghostVars
  BY DEF UpdateRow
<1>5. /\ shipLock' \in [Shipments -> Requests \cup {NoRequest}]
      /\ NextRow(r) \in Shipments => shipLock'[NextRow(r)] = r
      /\ \A q \in Requests, t \in Shipments : shipLock[t] = q => shipLock'[t] = q
  BY <1>1, <1>4, RowTaken
<1>6. req[r].ids \subseteq Shipments /\ ToUpdate(r) \subseteq req[r].ids
  BY <1>1 DEF ToUpdate, Request
<1>7. pc = "commit" => \A s \in req[r].ids : shipLock'[s] = r
  <2>1. SUFFICES ASSUME Cardinality(ToUpdate(r)) = 1, NEW s \in req[r].ids
                 PROVE  shipLock'[s] = r
    BY <1>1
  <2>2. IsFiniteSet(ToUpdate(r))
    BY <1>6, FiniteShipments
  <2>3. PICK y : ToUpdate(r) = {y}
    BY <2>1, <2>2, FS_Singleton
  <2>4. y \in Nat
    BY <1>6, <2>3, ShipmentAssumption
  <2>5. NextRow(r) = y
    BY <2>3, <2>4 DEF NextRow
  <2>6. CASE s = y
    BY <1>5, <1>6, <2>5, <2>6
  <2>7. CASE s # y
    BY <1>5, <1>6, <2>3, <2>7 DEF ToUpdate
  <2> QED BY <2>6, <2>7
<1>8. /\ x.op = req[r].op /\ x.ids = req[r].ids /\ x.pur = req[r].pur /\ x.end = req[r].end
      /\ x.pc = pc /\ req[r].op \in {"create", "add", "release", "dispatch"}
  BY <1>1 DEF Request, Holds
<1> HIDE DEF x, pc
<1>9. Found(r)'
  BY <1>1, <1>3, <1>4, <1>8 DEF Found
<1>10. Holds(r)'
  BY <1>1, <1>2, <1>3, <1>4, <1>7, <1>8 DEF Holds
<1>11. purLock' \in [Purs -> Requests \cup {NoRequest}]
  BY <1>1, <1>4 DEF Shapes
<1> QED BY <1>2, <1>3, <1>4, <1>5, <1>9, <1>10, <1>11, OwnStepLocks

\* Giving back one's locks takes none from another.
LEMMA FreedLocks ==
    ASSUME Shapes, NEW r \in Requests
    PROVE  /\ Freed(shipLock, r) \in [Shipments -> Requests \cup {NoRequest}]
           /\ Freed(purLock, r) \in [Purs -> Requests \cup {NoRequest}]
           /\ \A q \in Requests \ {r}, s \in Shipments : shipLock[s] = q => Freed(shipLock, r)[s] = q
           /\ \A q \in Requests \ {r}, p \in Purs : purLock[p] = q => Freed(purLock, r)[p] = q
BY DEF Shapes, Freed

LEMMA IdleHolds ==
    ASSUME NEW r \in Requests, req'[r] = Idle
    PROVE  Holds(r)' /\ Found(r)'
BY DEF Holds, Found, Idle

LEMMA RollbackLocks ==
    ASSUME LockInv, NEW r \in Requests, RolledBack(r)
    PROVE  LockInv'
<1>1. Shapes /\ req' = [req EXCEPT ![r] = Idle] /\ ship' = ship /\ pur' = pur
      /\ shipLock' = Freed(shipLock, r) /\ purLock' = Freed(purLock, r) /\ UNCHANGED ghostVars
  BY DEF LockInv, RolledBack
<1>2. req'[r] = Idle
  BY <1>1 DEF Shapes
<1>3. Holds(r)' /\ Found(r)'
  BY <1>2, IdleHolds
<1>4. /\ shipLock' \in [Shipments -> Requests \cup {NoRequest}]
      /\ purLock' \in [Purs -> Requests \cup {NoRequest}]
      /\ \A q \in Requests \ {r}, s \in Shipments : shipLock[s] = q => shipLock'[s] = q
      /\ \A q \in Requests \ {r}, p \in Purs : purLock[p] = q => purLock'[p] = q
  BY <1>1, FreedLocks
<1>5. Idle \in Request
  BY IdleRequest
<1> QED BY <1>1, <1>3, <1>4, <1>5, OwnStepLocks

\* What a request writes are rows.
LEMMA RowAfterType ==
    ASSUME Shapes, NEW r \in Requests, NEW s \in req[r].ids
    PROVE  RowAfter(r, s) \in ShipmentRow
<1>1. req[r] \in Request /\ s \in Shipments /\ ship[s] \in ShipmentRow
  BY DEF Shapes, Request
<1>2. ship[s].status \in {"OPEN", "ASSIGNED", "IN_TRANSIT", "CANCELLED"}
      /\ ship[s].pur \in Purs \cup {NoPur} /\ req[r].pur \in Purs \cup {NoPur}
  BY <1>1 DEF ShipmentRow, Request
<1> QED BY <1>1, <1>2 DEF RowAfter, ReleasedRow, ShipmentRow

LEMMA CommitLocks ==
    ASSUME LockInv, NEW r \in Requests, Commit(r)
    PROVE  LockInv'
<1>1. Shapes /\ req[r] \in Request /\ Holds(r) /\ Found(r)
  BY DEF LockInv, Shapes
<1>2. /\ req' = [req EXCEPT ![r] = Idle] /\ req'[r] = Idle
      /\ shipLock' = Freed(shipLock, r) /\ purLock' = Freed(purLock, r)
  BY <1>1 DEF Commit, Shapes
<1>3. ship' \in [Shipments -> ShipmentRow]
  BY <1>1, RowAfterType DEF Commit, Shapes
<1>4. pur' \in [Purs -> PurRow]
  <2>1. req[r].end \in {"NEW"} \cup Open \cup Ended /\ req[r].boxes \in Nat
    BY <1>1 DEF Request
  <2> QED BY <1>1, <2>1 DEF Commit, Shapes, PurRow
<1>5. Shapes'
  <2>1. relinked' \subseteq Shipments /\ miscounted' \subseteq Purs
    BY <1>1 DEF Commit, Recorded, Overwrites, Shapes, Request
  <2> QED BY <1>1, <1>2, <1>3, <1>4, <2>1, FreedLocks, IdleRequest DEF Shapes
<1>6. ASSUME NEW q \in Requests, q # r PROVE Holds(q)' /\ Found(q)'
  <2>1. req'[q] = req[q] /\ req[q] \in Request /\ Holds(q) /\ Found(q)
    BY <1>1, <1>2, <1>6 DEF LockInv, Shapes
  <2>2. req[q].ids \subseteq Shipments /\ req[q].pur \in Purs \cup {NoPur}
    BY <2>1 DEF Request
  <2>3. Holds(q)'
    BY <1>1, <1>2, <1>6, <2>1, <2>2, FreedLocks DEF Holds
  <2>4. ASSUME req[q].pur \in Purs, purLock[req[q].pur] = q
        PROVE  pur'[req[q].pur] = pur[req[q].pur]
    <3>1. req[r].end # "NEW" => req[r].pur \in Purs /\ purLock[req[r].pur] = r
      BY <1>1 DEF Holds, Request, Commit
    <3> QED BY <3>1, <1>6, <2>4 DEF Commit
  <2>5. req[q].op # "none" /\ (req[q].op = "cancel" => req[q].end # "NEW") =>
           req[q].pur \in Purs /\ purLock[req[q].pur] = q
    BY <2>1 DEF Holds, Request
  <2>6. Found(q)'
    BY <2>1, <2>4, <2>5 DEF Found
  <2> QED BY <2>3, <2>6
<1> QED BY <1>2, <1>5, <1>6, IdleHolds DEF LockInv

LEMMA MarkOutLocks ==
    ASSUME LockInv, NEW p \in Purs, MarkOutForPickup(p)
    PROVE  LockInv'
<1>1. Shapes'
  BY DEF LockInv, Shapes, MarkOutForPickup, ghostVars, PurRow, Open
<1>2. ASSUME NEW q \in Requests PROVE Holds(q)' /\ Found(q)'
  <2>1. req'[q] = req[q] /\ req[q] \in Request /\ Holds(q) /\ Found(q)
    BY DEF LockInv, Shapes, MarkOutForPickup
  <2>2. Holds(q)'
    BY <2>1 DEF Holds, MarkOutForPickup
  <2>3. req[q].op # "none" /\ (req[q].op = "cancel" => req[q].end # "NEW") =>
           req[q].pur \in Purs /\ purLock[req[q].pur] = q
    BY <2>1 DEF Holds, Request
  <2>4. req[q].pur \in Purs /\ purLock[req[q].pur] = q => pur'[req[q].pur] = pur[req[q].pur]
    BY NoneAssumption DEF MarkOutForPickup, LockInv, Shapes
  <2>5. Found(q)'
    BY <2>1, <2>3, <2>4 DEF Found
  <2> QED BY <2>2, <2>5
<1> QED BY <1>1, <1>2 DEF LockInv

LEMMA LockInit == Init => LockInv
<1> SUFFICES ASSUME Init PROVE LockInv
  OBVIOUS
<1>1. Shapes
  BY IdleRequest DEF Init, Shapes, ShipmentRow, PurRow
<1>2. \A r \in Requests : Holds(r) /\ Found(r)
  BY DEF Init, Holds, Found, Idle
<1> QED BY <1>1, <1>2 DEF LockInv

LEMMA LockStep == LockInv /\ [Next]_vars => LockInv'
<1> SUFFICES ASSUME LockInv, [Next]_vars PROVE LockInv'
  OBVIOUS
<1>1. CASE UNCHANGED vars
  BY <1>1 DEF vars, LockInv, Shapes, Holds, Found
<1>2. CASE Next
  BY <1>2, CreateLocks, AddLocks, DispatchLocks, ReleaseLocks, CancelLocks, SyncLocks,
     UpdateLocks, CommitLocks, RollbackLocks, MarkOutLocks DEF Next, DeadlockVictim, Fail
<1> QED BY <1>1, <1>2

(************************ a pickup request ends once ************************)

\* Pickup requests are written by commits and by the courier who sets out.
LEMMA PurWriters ==
    ASSUME [Next]_vars
    PROVE  \/ pur' = pur
           \/ \E r \in Requests : Commit(r)
           \/ \E p \in Purs : MarkOutForPickup(p)
<1>1. CASE UNCHANGED vars
  BY <1>1 DEF vars
<1>2. ASSUME NEW r \in Requests, NEW p \in Purs, NEW ids \in SUBSET Shipments,
             CreatePur(r, p, ids) \/ AddShipments(r, p, ids) \/ DispatchPur(r, p, ids)
      PROVE  pur' = pur
  BY <1>2 DEF CreatePur, AddShipments, DispatchPur
<1>3. ASSUME NEW r \in Requests, NEW p \in Purs, NEW end, ReleasePur(r, p, end)
      PROVE  pur' = pur
  BY <1>3 DEF ReleasePur
<1>4. ASSUME NEW r \in Requests, NEW s \in Shipments, CancelShipment(r, s) PROVE pur' = pur
  BY <1>4 DEF CancelShipment
<1>5. ASSUME NEW r \in Requests, SyncPur(r) \/ UpdateRow(r) \/ DeadlockVictim(r) \/ Fail(r)
      PROVE  pur' = pur
  BY <1>5 DEF SyncPur, UpdateRow, DeadlockVictim, Fail, RolledBack
<1> QED BY <1>1, <1>2, <1>3, <1>4, <1>5 DEF Next

\* Shipments are written by commits alone.
LEMMA ShipWriters ==
    ASSUME [Next]_vars
    PROVE  ship' = ship \/ \E r \in Requests : Commit(r)
<1>1. CASE UNCHANGED vars
  BY <1>1 DEF vars
<1>2. ASSUME NEW r \in Requests, NEW p \in Purs, NEW ids \in SUBSET Shipments,
             CreatePur(r, p, ids) \/ AddShipments(r, p, ids) \/ DispatchPur(r, p, ids)
      PROVE  ship' = ship
  BY <1>2 DEF CreatePur, AddShipments, DispatchPur
<1>3. ASSUME NEW r \in Requests, NEW p \in Purs, NEW end, ReleasePur(r, p, end)
      PROVE  ship' = ship
  BY <1>3 DEF ReleasePur
<1>4. ASSUME NEW r \in Requests, NEW s \in Shipments, CancelShipment(r, s) PROVE ship' = ship
  BY <1>4 DEF CancelShipment
<1>5. ASSUME NEW r \in Requests, SyncPur(r) \/ UpdateRow(r) \/ DeadlockVictim(r) \/ Fail(r)
      PROVE  ship' = ship
  BY <1>5 DEF SyncPur, UpdateRow, DeadlockVictim, Fail, RolledBack
<1>6. ASSUME NEW p \in Purs, MarkOutForPickup(p) PROVE ship' = ship
  BY <1>6 DEF MarkOutForPickup
<1> QED BY <1>1, <1>2, <1>3, <1>4, <1>5, <1>6 DEF Next

\* A step changes a pickup request only while it is open or new.
LEMMA EndedStays ==
    ASSUME LockInv, [Next]_vars, NEW p \in Purs, pur[p].st \in Ended
    PROVE  pur'[p] = pur[p]
<1>1. CASE pur' = pur
  BY <1>1
<1>2. ASSUME NEW r \in Requests, Commit(r) PROVE pur'[p] = pur[p]
  <2>1. Found(r) /\ Holds(r) /\ req[r] \in Request
    BY DEF LockInv, Shapes
  <2>2. req[r].pur = p => req[r].end = "NEW"
    BY <2>1 DEF Found, Holds, Request, Ended, Open
  <2> QED BY <1>2, <2>2 DEF Commit
<1>3. ASSUME NEW t \in Purs, MarkOutForPickup(t) PROVE pur'[p] = pur[p]
  BY <1>3 DEF MarkOutForPickup, Ended, LockInv, Shapes
<1> QED BY <1>1, <1>2, <1>3, PurWriters

\* Dispatch, cancel and not-picked act once, however many requests overlap and fail, and also
\* when shipments are linked twice (H-4, J55).
THEOREM EndsOnce == Spec => PurEndsOnce
<1>1. LockInv /\ [Next]_vars => [\A p \in Purs : pur[p].st \in Ended => pur'[p] = pur[p]]_vars
  BY EndedStays
<1> QED BY <1>1, LockInit, LockStep, PTL DEF Spec, PurEndsOnce

(*************************** links, step by step ***************************)

\* A step of one request that commits nothing: what the others read is as true as before.
LEMMA OwnStepLinks ==
    ASSUME PurInv, LockInv', NEW r \in Requests, NEW x, req' = [req EXCEPT ![r] = x],
           ship' = ship, pur' = pur, UNCHANGED ghostVars,
           Collecting(r)', Cancelling(r)', Counting(r)'
    PROVE  PurInv'
<1>1. Shapes /\ relinked' = relinked /\ miscounted' = miscounted
  BY DEF PurInv, LockInv, ghostVars
<1>2. \A t : LinkedTo(t)' = LinkedTo(t)
  BY DEF LinkedTo
<1>3. LinksOK' /\ Named' /\ BoxesMatch'
  BY <1>1, <1>2 DEF PurInv, LinksOK, Named, BoxesMatch
<1>4. ASSUME NEW q \in Requests, q # r
      PROVE  Collecting(q)' /\ Cancelling(q)' /\ Counting(q)'
  <2>1. req'[q] = req[q]
    BY <1>1, <1>4 DEF Shapes
  <2>2. Collecting(q) /\ Cancelling(q) /\ Counting(q)
    BY DEF PurInv
  <2>3. Collecting(q)' /\ Cancelling(q)'
    BY <1>1, <1>2, <2>1, <2>2 DEF Collecting, Cancelling
  <2>4. LinkedAfter(q)' = LinkedAfter(q)
    BY <1>2, <2>1 DEF LinkedAfter
  <2>5. Counting(q)'
    BY <1>1, <2>1, <2>2, <2>4 DEF Counting
  <2> QED BY <2>3, <2>5
<1> QED BY <1>3, <1>4 DEF PurInv

\* Nothing is linked to a pickup request that is not named before it is committed.
LEMMA NewIsEmpty ==
    ASSUME PurInv, NEW p \in Purs \ miscounted, pur[p].st = "NEW"
    PROVE  LinkedTo(p) = {}
<1> SUFFICES ASSUME NEW s \in Shipments, ship[s].pur = p PROVE FALSE
  BY DEF LinkedTo
<1>1. s \notin relinked
  BY NoneAssumption DEF PurInv, Named
<1> QED BY <1>1, NoneAssumption DEF PurInv, LinksOK, Open

\* A link counts what is linked already and what it will link.
LEMMA LinkStart ==
    ASSUME PurInv, LockInv', NEW r \in Requests, NEW p \in Purs, NEW ids \in SUBSET Shipments,
           NEW x \in Request, req' = [req EXCEPT ![r] = x],
           ship' = ship, pur' = pur, UNCHANGED ghostVars,
           x.op \in {"create", "add"}, x.pur = p, x.ids = ids, x.end = "SCHEDULED",
           p \notin miscounted => x.boxes = Cardinality(LinkedTo(p) \cup ids)
    PROVE  PurInv'
<1>1. Shapes /\ miscounted' = miscounted
  BY DEF PurInv, LockInv, ghostVars
<1>2. req'[r] = x
  BY <1>1 DEF Shapes
<1>3. Collecting(r)' /\ Cancelling(r)'
  BY <1>2 DEF Collecting, Cancelling
<1>4. LinkedTo(p)' = LinkedTo(p)
  BY DEF LinkedTo
<1>5. LinkedAfter(r)' = LinkedTo(p) \cup ids
  BY <1>2, <1>4 DEF LinkedAfter
<1>6. Counting(r)'
  BY <1>1, <1>2, <1>5 DEF Counting, Open
<1> QED BY <1>3, <1>6, OwnStepLinks

LEMMA CreateLinks ==
    ASSUME PurInv, LockInv', NEW r \in Requests, NEW p \in Purs, NEW ids \in SUBSET Shipments,
           CreatePur(r, p, ids)
    PROVE  PurInv'
<1> DEFINE x == [op |-> "create", pc |-> "update", pur |-> p, ids |-> ids, picked |-> {},
                 seen |-> Unread, end |-> "SCHEDULED", boxes |-> Cardinality(ids)]
<1>1. x \in Request
  BY SeenType, FiniteShipments DEF PurInv, LockInv, Request, Open
<1>2. p \notin miscounted => LinkedTo(p) \cup ids = ids
  BY NewIsEmpty DEF CreatePur
<1> QED BY <1>1, <1>2, LinkStart DEF CreatePur

LEMMA AddLinks ==
    ASSUME PurInv, LockInv', NEW r \in Requests, NEW p \in Purs, NEW ids \in SUBSET Shipments,
           AddShipments(r, p, ids)
    PROVE  PurInv'
<1> DEFINE x == [op |-> "add", pc |-> "update", pur |-> p, ids |-> ids, picked |-> {},
                 seen |-> Unread, end |-> "SCHEDULED",
                 boxes |-> Cardinality(LinkedTo(p) \cup ids)]
<1>1. LinkedTo(p) \cup ids \in SUBSET Shipments
  BY DEF LinkedTo
<1>2. x \in Request
  BY <1>1, SeenType, FiniteShipments DEF PurInv, LockInv, Request, Open
<1> QED BY <1>2, LinkStart DEF AddShipments

\* A request that ends a pickup request takes all its shipments as it reads them.
LEMMA CollectStart ==
    ASSUME PurInv, LockInv', NEW r \in Requests, NEW p \in Purs, NEW x \in Request,
           req' = [req EXCEPT ![r] = x], ship' = ship, pur' = pur, UNCHANGED ghostVars,
           x.op \in {"release", "dispatch"}, x.pur = p, x.ids = LinkedTo(p),
           x.picked \subseteq LinkedTo(p), x.seen = Seen(LinkedTo(p)),
           x.op = "release" => x.end \in {"CANCELED", "NOT_PICKED"},
           x.op = "dispatch" =>
               x.end = "PICKED" /\ (p \notin miscounted => x.boxes = Cardinality(x.picked))
    PROVE  PurInv'
<1>1. Shapes /\ relinked' = relinked /\ miscounted' = miscounted
  BY DEF PurInv, LockInv, ghostVars
<1>2. req'[r] = x
  BY <1>1 DEF Shapes
<1>3. LinkedTo(p)' = LinkedTo(p) /\ LinkedTo(p) \subseteq Shipments
  BY DEF LinkedTo
<1>4. Cancelling(r)'
  BY <1>2 DEF Cancelling
<1>5. \A s \in LinkedTo(p) : ship'[s].pur = p /\ x.seen[s] = ship'[s].status
  BY <1>3 DEF LinkedTo, Seen
<1>6. Collecting(r)'
  BY <1>2, <1>3, <1>5 DEF Collecting
<1>7. Counting(r)'
  BY <1>1, <1>2 DEF Counting, LinkedAfter, Open
<1> QED BY <1>4, <1>6, <1>7, OwnStepLinks

LEMMA ReleaseLinks ==
    ASSUME PurInv, LockInv', NEW r \in Requests, NEW p \in Purs,
           NEW end \in {"CANCELED", "NOT_PICKED"}, ReleasePur(r, p, end)
    PROVE  PurInv'
<1> DEFINE x == [op |-> "release", pc |-> Updating(LinkedTo(p)), pur |-> p, ids |-> LinkedTo(p),
                 picked |-> {}, seen |-> Seen(LinkedTo(p)), end |-> end, boxes |-> pur[p].boxes]
<1>1. LinkedTo(p) \in SUBSET Shipments /\ pur[p].boxes \in Nat
  BY DEF LinkedTo, PurInv, LockInv, Shapes, PurRow
<1>2. x \in Request
  BY <1>1, SeenType DEF PurInv, LockInv, Request, Ended, Updating
<1> QED BY <1>2, CollectStart DEF ReleasePur

LEMMA DispatchLinks ==
    ASSUME PurInv, LockInv', NEW r \in Requests, NEW p \in Purs, NEW picked \in SUBSET Shipments,
           DispatchPur(r, p, picked)
    PROVE  PurInv'
<1> DEFINE x == [op |-> "dispatch", pc |-> Updating(LinkedTo(p)), pur |-> p,
                 ids |-> LinkedTo(p), picked |-> picked, seen |-> Seen(LinkedTo(p)), end |-> "PICKED",
                 boxes |-> IF picked = LinkedTo(p) THEN pur[p].boxes ELSE Cardinality(picked)]
<1>1. LinkedTo(p) \in SUBSET Shipments /\ pur[p].boxes \in Nat /\ Cardinality(picked) \in Nat
  BY FiniteShipments DEF LinkedTo, PurInv, LockInv, Shapes, PurRow
<1>2. x \in Request
  BY <1>1, SeenType DEF PurInv, LockInv, Request, Ended, Updating
<1>3. p \notin miscounted => pur[p].boxes = Cardinality(LinkedTo(p))
  BY DEF PurInv, BoxesMatch, DispatchPur
<1> QED BY <1>2, <1>3, CollectStart DEF DispatchPur

LEMMA CancelLinks ==
    ASSUME PurInv, LockInv', NEW r \in Requests, NEW s \in Shipments, CancelShipment(r, s)
    PROVE  PurInv'
<1> DEFINE x == [op |-> "cancel", pur |-> ship[s].pur, ids |-> {s},
                 pc |-> IF ship[s].pur = NoPur THEN "commit" ELSE "sync",
                 picked |-> {}, seen |-> Unread, end |-> "NEW", boxes |-> 0]
<1>1. req' = [req EXCEPT ![r] = x] /\ req'[r] = x /\ ship' = ship /\ pur' = pur
      /\ UNCHANGED ghostVars
  BY DEF CancelShipment, PurInv, LockInv, Shapes
<1>2. ship[s].status \in {"OPEN", "ASSIGNED"}
  BY DEF CancelShipment
<1>3. Collecting(r)'
  BY <1>1 DEF Collecting
<1>4. Cancelling(r)'
  BY <1>1, <1>2 DEF Cancelling
<1>5. Counting(r)'
  BY <1>1 DEF Counting
<1> HIDE DEF x
<1> QED BY <1>1, <1>3, <1>4, <1>5, OwnStepLinks

LEMMA SyncLinks ==
    ASSUME PurInv, LockInv', NEW r \in Requests, SyncPur(r)
    PROVE  PurInv'
<1> DEFINE p == req[r].pur
           x == [req[r] EXCEPT !.pc = "commit", !.boxes = Cardinality(Remaining(r)),
                               !.end = SyncedStatus(p, Remaining(r))]
<1>1. req[r] \in Request /\ Holds(r) /\ Shapes /\ req[r].pc = "sync"
  BY DEF PurInv, LockInv, Shapes, SyncPur
<1>2. req[r].op = "cancel" /\ p \in Purs
  BY <1>1 DEF Holds, Request
<1>3. req' = [req EXCEPT ![r] = x] /\ req'[r] = x /\ ship' = ship /\ pur' = pur
      /\ UNCHANGED ghostVars
  BY <1>1 DEF SyncPur, Shapes
<1>4. /\ x.op = "cancel" /\ x.pc = "commit" /\ x.pur = p /\ x.ids = req[r].ids
      /\ x.end = SyncedStatus(p, Remaining(r)) /\ x.boxes = Cardinality(Remaining(r))
  BY <1>1, <1>2 DEF Request
<1> HIDE DEF x
<1>5. Cancelling(r) /\ LinksOK /\ Named
  BY DEF PurInv
<1>6. p \notin miscounted => pur[p].st \in Open
  <2>1. PICK s \in req[r].ids : ship[s].pur = p /\ ship[s].status \in {"OPEN", "ASSIGNED"}
    BY <1>2, <1>5 DEF Cancelling
  <2>2. s \in Shipments
    BY <1>1 DEF Request
  <2> QED BY <1>2, <1>5, <2>1, <2>2, NoneAssumption DEF LinksOK, Named
<1>7. LinkedTo(p)' = LinkedTo(p)
  BY <1>3, <1>4 DEF LinkedTo
<1>8. LinkedAfter(r)' = Remaining(r)
  BY <1>3, <1>4, <1>7 DEF LinkedAfter, Remaining
<1>9. miscounted' = miscounted
  BY <1>3 DEF ghostVars
<1>10. Counting(r)'
  BY <1>3, <1>4, <1>6, <1>8, <1>9 DEF Counting, SyncedStatus, Open
<1>11. Collecting(r)'
  BY <1>3, <1>4 DEF Collecting
<1>12. Cancelling(r)'
  <2>1. x.end = "CANCELED" => Remaining(r) = {}
    BY <1>4 DEF SyncedStatus, Open
  <2>2. x.end = "CANCELED" => LinkedTo(p) \subseteq req[r].ids
    BY <2>1 DEF Remaining
  <2> QED BY <1>2, <1>3, <1>4, <1>5, <1>7, <2>2 DEF Cancelling
<1> QED BY <1>3, <1>10, <1>11, <1>12, OwnStepLinks

LEMMA UpdateLinks ==
    ASSUME PurInv, LockInv', NEW r \in Requests, UpdateRow(r)
    PROVE  PurInv'
<1> DEFINE pc == IF Cardinality(ToUpdate(r)) = 1 THEN "commit" ELSE req[r].pc
           x == [req[r] EXCEPT !.pc = pc]
<1>1. req[r] \in Request /\ Shapes /\ req[r].pc = "update"
  BY DEF PurInv, LockInv, Shapes, UpdateRow
<1>2. req' = [req EXCEPT ![r] = x] /\ req'[r] = x /\ ship' = ship /\ pur' = pur
      /\ UNCHANGED ghostVars
  BY <1>1 DEF UpdateRow, Shapes
<1>3. /\ x.op = req[r].op /\ x.ids = req[r].ids /\ x.pur = req[r].pur /\ x.end = req[r].end
      /\ x.boxes = req[r].boxes /\ x.picked = req[r].picked /\ x.seen = req[r].seen
  BY <1>1 DEF Request
<1> HIDE DEF x
<1>4. Collecting(r) /\ Cancelling(r) /\ Counting(r)
  BY DEF PurInv
<1>5. \A t : LinkedTo(t)' = LinkedTo(t)
  BY <1>2 DEF LinkedTo
<1>6. LinkedAfter(r)' = LinkedAfter(r)
  BY <1>2, <1>3, <1>5 DEF LinkedAfter
<1>7. relinked' = relinked /\ miscounted' = miscounted
  BY <1>2 DEF ghostVars
<1>8. Collecting(r)' /\ Cancelling(r)'
  BY <1>2, <1>3, <1>4, <1>5, <1>7 DEF Collecting, Cancelling
<1>9. Counting(r)'
  BY <1>1, <1>2, <1>3, <1>4, <1>6, <1>7 DEF Counting
<1> QED BY <1>2, <1>8, <1>9, OwnStepLinks

LEMMA IdleReads ==
    ASSUME NEW r \in Requests, req'[r] = Idle
    PROVE  Collecting(r)' /\ Cancelling(r)' /\ Counting(r)'
BY DEF Collecting, Cancelling, Counting, Idle

LEMMA RollbackLinks ==
    ASSUME PurInv, LockInv', NEW r \in Requests, RolledBack(r)
    PROVE  PurInv'
<1>1. req' = [req EXCEPT ![r] = Idle] /\ req'[r] = Idle /\ ship' = ship /\ pur' = pur
      /\ UNCHANGED ghostVars
  BY DEF RolledBack, PurInv, LockInv, Shapes
<1>2. Collecting(r)' /\ Cancelling(r)' /\ Counting(r)'
  BY <1>1, IdleReads
<1> QED BY <1>1, <1>2, OwnStepLinks

LEMMA MarkOutLinks ==
    ASSUME PurInv, LockInv', NEW p \in Purs, MarkOutForPickup(p)
    PROVE  PurInv'
<1>1. /\ pur[p].st = "SCHEDULED" /\ ship' = ship /\ req' = req
      /\ pur' = [pur EXCEPT ![p].st = "OUT_FOR_PICKUP"]
      /\ relinked' = relinked /\ miscounted' = miscounted
  BY DEF MarkOutForPickup, ghostVars
<1>2. Shapes
  BY DEF PurInv, LockInv
<1>3. \A t \in Purs : /\ pur'[t].boxes = pur[t].boxes
                      /\ pur'[t].st \in Open <=> pur[t].st \in Open
                      /\ pur'[t].st = "PICKED" <=> pur[t].st = "PICKED"
  BY <1>1, <1>2 DEF Shapes, PurRow, Open
<1>4. \A t : LinkedTo(t)' = LinkedTo(t)
  BY <1>1 DEF LinkedTo
<1>5. LinksOK' /\ Named' /\ BoxesMatch'
  BY <1>1, <1>3, <1>4 DEF PurInv, LinksOK, Named, BoxesMatch, Open
<1>6. ASSUME NEW q \in Requests
      PROVE  Collecting(q)' /\ Cancelling(q)' /\ Counting(q)'
  <2>1. Collecting(q) /\ Cancelling(q) /\ Counting(q)
    BY DEF PurInv
  <2>2. LinkedAfter(q)' = LinkedAfter(q)
    BY <1>1, <1>4 DEF LinkedAfter
  <2> QED BY <1>1, <1>4, <2>1, <2>2 DEF Collecting, Cancelling, Counting
<1> QED BY <1>5, <1>6 DEF PurInv

(******************************* the commit *******************************)

\* What a commit does to a shipment and to the names.
LEMMA Committed ==
    ASSUME PurInv, NEW r \in Requests, Commit(r), NEW s \in Shipments
    PROVE  /\ ship'[s] = IF s \in req[r].ids THEN RowAfter(r, s) ELSE ship[s]
           /\ relinked \subseteq relinked' /\ miscounted \subseteq miscounted'
           /\ req[r].op \notin {"create", "add"} => relinked' = relinked
           /\ s \in req[r].ids /\ req[r].op \in {"create", "add"} /\ s \notin relinked' =>
                  ship[s].status = "OPEN" /\ ship[s].pur = NoPur
           /\ \A t \in Purs : s \in relinked' /\ t \in {ship[s].pur, ship'[s].pur} => t \in miscounted'
BY DEF Commit, Recorded, Overwrites, ToCollect

\* The rows a commit writes stay where they were, go to its pickup request or to none; unless
\* they are named, they were its own before or to be collected.
LEMMA CommittedRows ==
    ASSUME PurInv, NEW r \in Requests, Commit(r), NEW s \in req[r].ids
    PROVE  /\ s \in Shipments /\ RowAfter(r, s).pur \in {NoPur, req[r].pur, ship[s].pur}
           /\ s \notin relinked' => ship[s].pur \in {NoPur, req[r].pur}
<1>1. req[r] \in Request /\ Holds(r) /\ Collecting(r) /\ Cancelling(r)
  BY DEF PurInv, LockInv, Shapes
<1>2. s \in Shipments /\ ship[s] \in ShipmentRow
  BY <1>1 DEF Request, PurInv, LockInv, Shapes
<1>3. CASE req[r].op \in {"create", "add"}
  BY <1>2, <1>3, Committed DEF RowAfter
<1>4. CASE req[r].op \in {"release", "dispatch"}
  <2>1. s \notin relinked' => ship[s].pur = req[r].pur
    BY <1>1, <1>2, <1>4, Committed DEF Collecting
  <2> QED BY <1>2, <1>4, <2>1 DEF RowAfter, ReleasedRow, ShipmentRow
<1>5. CASE req[r].op = "cancel"
  BY <1>1, <1>2, <1>5 DEF Cancelling, RowAfter
<1> QED BY <1>1, <1>2, <1>3, <1>4, <1>5 DEF Holds, Request

\* A commit adds to its own pickup request alone, and takes from others only what is named.
LEMMA OthersLinks ==
    ASSUME PurInv, NEW r \in Requests, Commit(r), NEW t \in Purs, t # req[r].pur
    PROVE  LinkedTo(t)' \subseteq LinkedTo(t) /\ (t \notin miscounted' => LinkedTo(t)' = LinkedTo(t))
<1>1. ASSUME NEW s \in Shipments, ship'[s].pur = t PROVE ship[s].pur = t
  BY <1>1, Committed, CommittedRows, NoneAssumption
<1>2. ASSUME NEW s \in Shipments, ship[s].pur = t, t \notin miscounted' PROVE ship'[s].pur = t
  <2>1. s \notin relinked'
    BY <1>2, Committed
  <2> QED BY <1>2, <2>1, Committed, CommittedRows, NoneAssumption
<1> QED BY <1>1, <1>2 DEF LinkedTo

\* A commit leaves linked to its pickup request what it counted.
LEMMA CommittedLinks ==
    ASSUME PurInv, NEW r \in Requests, Commit(r), NEW p \in Purs \ miscounted', p = req[r].pur
    PROVE  LinkedTo(p)' = LinkedAfter(r)
<1>1. req[r] \in Request /\ Holds(r) /\ Collecting(r) /\ Cancelling(r)
  BY DEF PurInv, LockInv, Shapes
<1>2. /\ \A s \in Shipments : ship'[s] = IF s \in req[r].ids THEN RowAfter(r, s) ELSE ship[s]
      /\ p \notin miscounted
  BY DEF Commit, Recorded
<1>3. req[r].ids \subseteq Shipments /\ req[r].picked \subseteq Shipments
  BY <1>1 DEF Request
<1>4. LinkedTo(p)' = {s \in Shipments : ship'[s].pur = p}
  BY DEF LinkedTo
<1>5. CASE req[r].op \in {"create", "add"}
  <2>1. \A s \in req[r].ids : RowAfter(r, s).pur = p
    BY <1>5 DEF RowAfter
  <2>2. LinkedAfter(r) = LinkedTo(p) \cup req[r].ids
    BY <1>5 DEF LinkedAfter
  <2> QED BY <1>2, <1>3, <1>4, <2>1, <2>2 DEF LinkedTo
<1>6. CASE req[r].op = "release"
  <2>1. \A s \in req[r].ids : RowAfter(r, s).pur = NoPur
    BY <1>6 DEF RowAfter, ReleasedRow
  <2>2. LinkedAfter(r) = {} /\ req[r].ids = LinkedTo(p)
    BY <1>1, <1>2, <1>6 DEF LinkedAfter, Collecting
  <2> QED BY <1>2, <1>4, <2>1, <2>2, NoneAssumption DEF LinkedTo
<1>7. CASE req[r].op = "dispatch"
  <2>1. req[r].ids = LinkedTo(p) /\ req[r].picked \subseteq req[r].ids
    BY <1>1, <1>2, <1>7 DEF Collecting
  <2>2. \A s \in req[r].ids : ship[s] \in ShipmentRow /\ ship[s].pur = p
    BY <1>3, <2>1 DEF PurInv, LockInv, Shapes, LinkedTo
  <2>3. \A s \in req[r].ids : RowAfter(r, s).pur = IF s \in req[r].picked THEN p ELSE NoPur
    BY <1>7, <2>2 DEF RowAfter, ShipmentRow
  <2> QED BY <1>2, <1>4, <1>7, <2>1, <2>3, NoneAssumption DEF LinkedAfter, LinkedTo
<1>8. CASE req[r].op = "cancel"
  BY <1>2, <1>4, <1>8, NoneAssumption DEF RowAfter, LinkedAfter, LinkedTo
<1> QED BY <1>1, <1>5, <1>6, <1>7, <1>8 DEF Holds, Request, Commit

\* What a commit writes to a shipment fits what it writes to its pickup request.
LEMMA CommittedFit ==
    ASSUME PurInv, NEW r \in Requests, Commit(r)
    PROVE  LinksOK'
<1>1. /\ req[r] \in Request /\ Holds(r) /\ Found(r)
      /\ Collecting(r) /\ Cancelling(r) /\ Counting(r) /\ LinksOK
  BY DEF PurInv, LockInv, Shapes
<1> SUFFICES ASSUME NEW s \in Shipments \ relinked'
             PROVE  \/ ship'[s].pur = NoPur /\ ship'[s].status \in {"OPEN", "CANCELLED"}
                    \/ /\ ship'[s].pur \in Purs /\ ship'[s].status = "ASSIGNED"
                       /\ pur'[ship'[s].pur].st \in Open
                    \/ /\ ship'[s].pur \in Purs /\ ship'[s].status = "IN_TRANSIT"
                       /\ pur'[ship'[s].pur].st = "PICKED"
  BY DEF LinksOK
<1> DEFINE p == req[r].pur
<1>2. /\ ship'[s] = IF s \in req[r].ids THEN RowAfter(r, s) ELSE ship[s]
      /\ \A t \in Purs : pur'[t] = IF t = p /\ req[r].end # "NEW"
                                   THEN [st |-> req[r].end, boxes |-> req[r].boxes] ELSE pur[t]
      /\ s \notin relinked
  BY DEF Commit, Recorded
<1>3. ship[s] \in ShipmentRow
  BY DEF PurInv, LockInv, Shapes
<1>4. CASE s \in req[r].ids /\ req[r].op \in {"create", "add"}
  <2>1. p \in Purs /\ req[r].end = "SCHEDULED" /\ RowAfter(r, s) = [status |-> "ASSIGNED", pur |-> p]
    BY <1>1, <1>4 DEF Holds, Found, RowAfter
  <2> QED BY <1>2, <1>4, <2>1 DEF Open
<1>5. CASE s \in req[r].ids /\ req[r].op \in {"release", "dispatch"}
  <2>1. p \in Purs /\ pur[p].st \in Open /\ ship[s].pur = p /\ req[r].seen[s] = ship[s].status
    BY <1>1, <1>2, <1>5 DEF Holds, Found, Collecting
  <2>2. ship[s].status = "ASSIGNED"
    BY <1>1, <1>2, <2>1, NoneAssumption DEF LinksOK, Open
  <2>3. CASE req[r].op = "release"
    <3>1. RowAfter(r, s) = [status |-> "OPEN", pur |-> NoPur]
      BY <2>1, <2>2, <2>3 DEF RowAfter, ReleasedRow
    <3> QED BY <1>2, <1>5, <3>1
  <2>4. CASE req[r].op = "dispatch" /\ s \in req[r].picked
    <3>1. RowAfter(r, s).status = "IN_TRANSIT" /\ RowAfter(r, s).pur = p
      BY <1>3, <2>1, <2>2, <2>4 DEF RowAfter, ShipmentRow
    <3>2. req[r].end = "PICKED"
      BY <1>1, <2>4 DEF Found
    <3> QED BY <1>2, <1>5, <2>1, <3>1, <3>2
  <2>5. CASE req[r].op = "dispatch" /\ s \notin req[r].picked
    <3>1. RowAfter(r, s) = [status |-> "OPEN", pur |-> NoPur]
      BY <2>5 DEF RowAfter
    <3> QED BY <1>2, <1>5, <3>1
  <2> QED BY <1>5, <2>3, <2>4, <2>5
<1>6. CASE s \in req[r].ids /\ req[r].op = "cancel"
  <2>1. RowAfter(r, s) = [status |-> "CANCELLED", pur |-> NoPur]
    BY <1>6 DEF RowAfter
  <2> QED BY <1>2, <1>6, <2>1
<1>7. CASE s \notin req[r].ids /\ ship[s].pur = p /\ p \in Purs
  <2>1. s \in LinkedTo(p)
    BY <1>7 DEF LinkedTo
  <2>2. req[r].op \in {"create", "add", "cancel"}
    BY <1>1, <1>7, <2>1 DEF Holds, Request, Collecting, Commit
  <2>3. req[r].end \in {"NEW"} \cup Open /\ (req[r].end # "NEW" => pur[p].st # "PICKED")
    BY <1>1, <1>7, <2>1, <2>2 DEF Found, Cancelling, Open
  <2>4. req[r].end # "NEW" => ship[s].status = "ASSIGNED"
    BY <1>1, <1>2, <1>7, <2>3, NoneAssumption DEF LinksOK
  <2>5. CASE req[r].end = "NEW"
    BY <1>1, <1>2, <1>7, <2>5 DEF LinksOK
  <2>6. CASE req[r].end # "NEW"
    BY <1>2, <1>7, <2>3, <2>4, <2>6
  <2> QED BY <2>5, <2>6
<1>8. CASE s \notin req[r].ids /\ ~(ship[s].pur = p /\ p \in Purs)
  BY <1>1, <1>2, <1>8 DEF LinksOK
<1> QED BY <1>1, <1>4, <1>5, <1>6, <1>7, <1>8 DEF Holds, Request, Commit

LEMMA CommittedBoxes ==
    ASSUME PurInv, NEW r \in Requests, Commit(r)
    PROVE  BoxesMatch'
<1> SUFFICES ASSUME NEW t \in Purs \ miscounted', pur'[t].st \in Open \cup {"PICKED"}
             PROVE  pur'[t].boxes = Cardinality(LinkedTo(t)')
  BY DEF BoxesMatch
<1>1. /\ t \notin miscounted
      /\ pur'[t] = IF t = req[r].pur /\ req[r].end # "NEW"
                   THEN [st |-> req[r].end, boxes |-> req[r].boxes] ELSE pur[t]
  BY DEF Commit, Recorded
<1>2. CASE t = req[r].pur
  <2>1. LinkedTo(t)' = LinkedAfter(r)
    BY <1>2, CommittedLinks
  <2>2. Counting(r) /\ req[r].pc = "commit" /\ req[r].pur # NoPur
    BY <1>2, NoneAssumption DEF PurInv, Commit
  <2> QED BY <1>1, <1>2, <2>1, <2>2 DEF Counting
<1>3. CASE t # req[r].pur
  <2>1. LinkedTo(t)' = LinkedTo(t)
    BY <1>3, OthersLinks
  <2> QED BY <1>1, <1>3, <2>1 DEF PurInv, BoxesMatch
<1> QED BY <1>2, <1>3

LEMMA CommittedNames ==
    ASSUME PurInv, LockInv', NEW r \in Requests, Commit(r)
    PROVE  Named'
<1> SUFFICES ASSUME NEW s \in relinked' PROVE ship'[s].pur \in miscounted' \cup {NoPur}
  BY DEF Named
<1>1. s \in Shipments /\ ship'[s].pur \in Purs \cup {NoPur}
  BY DEF LockInv, Shapes, ShipmentRow
<1> QED BY <1>1, Committed

\* What another request read of its shipments and of its pickup request is still true, but for
\* those named: it holds the pickup request, or its shipment.
LEMMA CommittedOthers ==
    ASSUME PurInv, NEW r \in Requests, Commit(r), NEW q \in Requests, q # r
    PROVE  Collecting(q)' /\ Cancelling(q)' /\ Counting(q)'
<1>1. req[q] \in Request /\ Holds(q) /\ Collecting(q) /\ Cancelling(q) /\ Counting(q)
  BY DEF PurInv, LockInv, Shapes
<1>2. req'[q] = req[q] /\ relinked \subseteq relinked' /\ miscounted \subseteq miscounted'
  BY DEF Commit, Recorded, PurInv, LockInv, Shapes
<1>3. req[q].ids \subseteq Shipments /\ \A s \in Shipments \ req[r].ids : ship'[s] = ship[s]
  BY <1>1 DEF Request, Commit
<1>4. \A s \in req[r].ids : shipLock[s] = r
  BY DEF PurInv, LockInv, Holds, Commit
<1>5. req[r].pur \in Purs => purLock[req[r].pur] = r
  BY NoneAssumption DEF PurInv, LockInv, Shapes, Holds, Request, Commit
<1>6. \A t \in Purs : purLock[t] = q =>
          /\ t # req[r].pur /\ LinkedTo(t)' \subseteq LinkedTo(t)
          /\ t \notin miscounted' => LinkedTo(t)' = LinkedTo(t)
  BY <1>5, OthersLinks
<1>7. Collecting(q)'
  <2> SUFFICES ASSUME req[q].op \in {"release", "dispatch"} PROVE Collecting(q)'
    BY <1>2 DEF Collecting
  <2>1. PICK u \in Purs : u = req[q].pur /\ purLock[u] = q
    BY <1>1 DEF Holds
  <2>2. /\ req[q].picked \subseteq req[q].ids /\ LinkedTo(u)' \subseteq req[q].ids
        /\ u \notin miscounted' => req[q].ids = LinkedTo(u)'
    BY <1>1, <1>2, <1>6, <2>1 DEF Collecting
  <2>3. ASSUME NEW s \in req[q].ids \ relinked'
        PROVE  ship'[s].pur = u /\ req[q].seen[s] = ship'[s].status
    <3>1. ship[s].pur = u /\ req[q].seen[s] = ship[s].status
      BY <1>1, <1>2, <2>1 DEF Collecting
    <3>2. s \notin req[r].ids
      BY <1>6, <2>1, <3>1, CommittedRows, NoneAssumption
    <3> QED BY <1>3, <3>1, <3>2
  <2> HIDE DEF Collecting
  <2>4. (LinkedTo(req[q].pur))' = LinkedTo(u)'
    BY <1>2, <2>1 DEF LinkedTo
  <2> QED BY <1>2, <2>1, <2>2, <2>3, <2>4 DEF Collecting
<1>8. Cancelling(q)'
  <2> SUFFICES ASSUME req[q].op = "cancel" PROVE Cancelling(q)'
    BY <1>2 DEF Cancelling
  <2>1. ASSUME NEW s \in req[q].ids PROVE ship'[s] = ship[s]
    BY <1>1, <1>3, <1>4 DEF Holds
  <2>2. ASSUME req[q].end = "CANCELED" PROVE (LinkedTo(req[q].pur))' \subseteq req[q].ids
    <3>1. PICK u \in Purs : u = req[q].pur /\ purLock[u] = q
      BY <1>1, <2>2 DEF Holds, Request
    <3>2. LinkedTo(u)' \subseteq req[q].ids
      BY <1>1, <1>6, <2>2, <3>1 DEF Cancelling
    <3> QED BY <1>2, <3>1, <3>2 DEF LinkedTo
  <2> QED BY <1>1, <1>2, <2>1, <2>2 DEF Cancelling
<1>9. Counting(q)'
  <2> SUFFICES ASSUME req[q].pc \in {"update", "commit"}, req[q].pur \notin miscounted' \cup {NoPur}
               PROVE  Counting(q)'
    BY <1>2 DEF Counting
  <2>1. PICK u \in Purs : u = req[q].pur /\ purLock[u] = q
    BY <1>1 DEF Holds, Request
  <2>2. LinkedTo(u)' = LinkedTo(u)
    BY <1>6, <2>1
  <2>3. LinkedAfter(q)' = LinkedAfter(q)
    BY <1>2, <2>1, <2>2 DEF LinkedAfter
  <2> QED BY <1>1, <1>2, <2>3 DEF Counting
<1> QED BY <1>7, <1>8, <1>9

LEMMA CommitLinks ==
    ASSUME PurInv, LockInv', NEW r \in Requests, Commit(r)
    PROVE  PurInv'
<1>1. req'[r] = Idle
  BY DEF Commit, PurInv, LockInv, Shapes
<1>2. Collecting(r)' /\ Cancelling(r)' /\ Counting(r)'
  BY <1>1, IdleReads
<1> QED BY <1>2, CommittedFit, CommittedNames, CommittedBoxes, CommittedOthers DEF PurInv

LEMMA PurInit == Init => PurInv
<1> SUFFICES ASSUME Init PROVE PurInv
  OBVIOUS
<1>1. LockInv
  BY LockInit
<1>2. LinksOK /\ Named /\ BoxesMatch
  BY NoneAssumption DEF Init, LinksOK, Named, BoxesMatch, Open
<1>3. \A r \in Requests : Collecting(r) /\ Cancelling(r) /\ Counting(r)
  BY DEF Init, Collecting, Cancelling, Counting, Idle
<1> QED BY <1>1, <1>2, <1>3 DEF PurInv

LEMMA PurStep == PurInv /\ [Next]_vars => PurInv'
<1> SUFFICES ASSUME PurInv, [Next]_vars PROVE PurInv'
  OBVIOUS
<1>1. LockInv'
  BY LockStep DEF PurInv
<1>2. CASE UNCHANGED vars
  <2>1. LinksOK' /\ Named' /\ BoxesMatch'
    BY <1>2 DEF vars, PurInv, LinksOK, Named, BoxesMatch, LinkedTo
  <2>2. ASSUME NEW r \in Requests
        PROVE  Collecting(r)' /\ Cancelling(r)' /\ Counting(r)'
    <3>1. LinkedAfter(r)' = LinkedAfter(r)
      BY <1>2 DEF vars, LinkedAfter, LinkedTo
    <3> QED BY <1>2, <3>1 DEF vars, PurInv, Collecting, Cancelling, Counting, LinkedTo
  <2> QED BY <1>1, <2>1, <2>2 DEF PurInv
<1>3. CASE Next
  BY <1>1, <1>3, CreateLinks, AddLinks, DispatchLinks, ReleaseLinks, CancelLinks, SyncLinks,
     UpdateLinks, CommitLinks, RollbackLinks, MarkOutLinks DEF Next, DeadlockVictim, Fail
<1> QED BY <1>2, <1>3

(******************************** theorems ********************************)

\* Rows, locks and requests are well formed, a request at its commit holds what it writes, and
\* a shipment has a pickup request exactly when it is Ready for Pickup or was dispatched, unless
\* a link was written over what others did to it.
THEOREM TypeCorrect == Spec => []TypeOK
<1>1. PurInv => TypeOK
  BY NoneAssumption DEF PurInv, LockInv, Shapes, Holds, LinksOK, TypeOK
<1> QED BY <1>1, PurInit, PurStep, PTL DEF Spec

\* total_boxes of a pickup request that is open or picked is the boxes linked to it, whatever
\* cancels, adds, releases or dispatches at the same time, and whatever fails (D-11); the pickup
\* requests of a shipment that a link was written over are the only exception.
THEOREM BoxesCounted == Spec => []BoxesMatch
<1>1. PurInv => BoxesMatch
  BY DEF PurInv
<1> QED BY <1>1, PurInit, PurStep, PTL DEF Spec

\* An ASSIGNED shipment that no link was written over sits on an active pickup request
\* (MANIFEST_STATE of the integrity audit).
THEOREM AssignedIsOpen == Spec => []AssignedOnOpenPur
<1>1. PurInv => AssignedOnOpenPur
  BY DEF PurInv, LinksOK, AssignedOnOpenPur
<1> QED BY <1>1, PurInit, PurStep, PTL DEF Spec

\* A commit leaves a cancelled shipment cancelled, or its link is written over the cancel.
LEMMA CancelledKept ==
    ASSUME PurInv, [Next]_vars, NEW s \in Shipments, ship[s].status = "CANCELLED"
    PROVE  ship'[s].status = "CANCELLED" \/ s \in relinked'
<1>1. ASSUME NEW r \in Requests, Commit(r), s \in req[r].ids, s \notin relinked'
      PROVE  ship'[s].status = "CANCELLED"
  <2>1. req[r] \in Request /\ Holds(r) /\ Collecting(r) /\ LinksOK /\ s \notin relinked
    BY <1>1, Committed DEF PurInv, LockInv, Shapes
  <2>2. ship[s].pur = NoPur
    BY <2>1 DEF LinksOK
  <2>3. req[r].op \notin {"create", "add"}
    BY <1>1, Committed
  <2>4. req[r].op \notin {"release", "dispatch"}
    BY <1>1, <2>1, <2>2, NoneAssumption DEF Collecting, Holds
  <2>5. RowAfter(r, s).status = "CANCELLED"
    BY <2>3, <2>4 DEF RowAfter
  <2> QED BY <1>1, <2>5 DEF Commit
<1>2. ASSUME NEW r \in Requests, Commit(r), s \notin req[r].ids
      PROVE  ship'[s].status = "CANCELLED"
  BY <1>2 DEF Commit
<1>3. CASE ship' = ship
  BY <1>3
<1> QED BY <1>1, <1>2, <1>3, ShipWriters

\* A cancelled and refunded shipment is never put on a truck or back up for collection (H-6),
\* but by a link validated before the cancel and written after it.
THEOREM CancelledForGood == Spec => CancelledStays
<1>1. PurInv /\ [Next]_vars =>
          [\A s \in Shipments : ship[s].status = "CANCELLED" =>
                ship'[s].status = "CANCELLED" \/ s \in relinked']_vars
  BY CancelledKept
<1> QED BY <1>1, PurInit, PurStep, PTL DEF Spec, CancelledStays

-----------------------------------------------------------------------------
(* Asking for a pickup: no parcel of another place is asked for, and what was   *)
(* listed of the parcels the form was opened with is asked for unless unticked.  *)

CONSTANTS None, Flow, Places, Parcels, At, Openings, Warm, Expires, Fields, Loads, MaxPresses, MaxOthers
VARIABLES ready, made, others, cached, saved, known, fetching, opening, place, eligible, loadedFor, selected,
    preselect, loads, hand, blind, boxes, slotPassed, flight, presses
PF == INSTANCE PickupForm

PfRows == (SUBSET Parcels) \cup {None}
PfLoads == [place : Places \cup {None}, rows : PfRows, live : BOOLEAN, cold : BOOLEAN]
PfConstants ==
    /\ \A o \in Openings : o.place \in Places \cup {None} /\ o.ids \in SUBSET Parcels
    /\ None \notin Places /\ None \notin SUBSET Parcels /\ MaxPresses \in Nat /\ MaxOthers \in Nat

PfOf(R, l) == \A p \in R : At[p] = l

PfServer == ready \subseteq Parcels /\ saved \subseteq Places /\ others \in 0..MaxOthers
PfPage ==
    /\ known = None \/ known \subseteq Places
    /\ opening = [place |-> opening.place, ids |-> opening.ids, warm |-> opening.warm, over |-> opening.over]
    /\ opening.place \in Places \cup {None} /\ opening.ids \subseteq Parcels /\ opening.warm \in BOOLEAN /\ opening.over \in BOOLEAN
    /\ place \in Places \cup {None} /\ cached \in [Places -> PfRows]
    /\ \A l \in Places : cached[l] # None => PfOf(cached[l], l)
PfList ==
    /\ eligible \subseteq Parcels /\ selected \subseteq Parcels /\ preselect \in {opening.ids, {}}
    /\ loadedFor \in Places \cup {None} /\ PfOf(selected, loadedFor) /\ PfOf(eligible, loadedFor)
    /\ hand # {} => loadedFor = place
    /\ ~opening.warm /\ place = opening.place /\ place # None /\ loadedFor = place => (opening.ids \cap eligible) \ hand \subseteq selected

\* A read that counts is of the place; the list it replaces is shown only when it came from the cache, or over an earlier one.
PfLoad(m) ==
    /\ loads[m].rows # None => PfOf(loads[m].rows, loads[m].place)
    /\ loads[m].live => /\ loads[m].place = place /\ place # None
                        /\ ~loads[m].cold => loadedFor = place
                        /\ ~opening.warm /\ place = opening.place => loads[m].cold
                        /\ loads[m].cold /\ ~opening.over => loadedFor # place
PfReads ==
    /\ loads \in [Loads -> PfLoads] /\ \A m \in Loads : PfLoad(m)
    /\ \A m, n \in Loads : loads[m].live /\ loads[n].live => m = n
PfSent ==
    /\ presses \in 0..MaxPresses
    /\ flight # None => /\ flight = [body |-> flight.body, at |-> flight.at, done |-> flight.done]
                        /\ flight.body.loadedFor = flight.body.place /\ PfOf(flight.body.ids, flight.body.place)
                        /\ flight.body.wanted \subseteq flight.body.ids
PfInv == PfServer /\ PfPage /\ PfList /\ PfReads /\ PfSent

LEMMA PfCounts == \A S : PF!Cardinality(S) = Cardinality(S)
BY DEF PF!Cardinality, Cardinality

LEMMA PfOnlyPlace == ASSUME NEW S \in SUBSET Places, PF!OnlyPlace(S) # None PROVE PF!OnlyPlace(S) \in Places
<1>1. S # {}
  <2>1. CASE S = {}
    <3>1. PF!Cardinality(S) = 0
      BY <2>1, PfCounts, FS_EmptySet
    <3> QED BY <3>1 DEF PF!OnlyPlace
  <2> QED BY <2>1
<1> QED BY <1>1 DEF PF!OnlyPlace

LEMMA PfIdle == PF!Idle \in PfLoads /\ PF!Idle.place = None /\ PF!Idle.rows = None /\ PF!Idle.live = FALSE
BY DEF PF!Idle, PfLoads, PfRows

LEMMA PfReading ==
    ASSUME NEW l \in Places
    PROVE  PF!Reading(l) \in PfLoads /\ PF!Reading(l).place = l /\ PF!Reading(l).rows = None /\ PF!Reading(l).live
           /\ (PF!Reading(l).cold <=> cached[l] = None)
<1> DEFINE cold == cached[l] = None
<1>1. cold \in BOOLEAN
  OBVIOUS
<1>2. PF!Reading(l) = [place |-> l, rows |-> None, live |-> TRUE, cold |-> cold]
  BY DEF PF!Reading
<1> HIDE DEF cold
<1>3. PF!Reading(l) \in PfLoads /\ PF!Reading(l).place = l /\ PF!Reading(l).rows = None /\ PF!Reading(l).live /\ PF!Reading(l).cold = cold
  BY <1>1, <1>2 DEF PfLoads, PfRows
<1> QED BY <1>3 DEF cold

LEMMA PfTicked ==
    ASSUME NEW R \in SUBSET Parcels, NEW ids \in SUBSET Parcels, NEW l, PfOf(R, l)
    PROVE  PF!Ticked(R, ids) \in SUBSET Parcels /\ PfOf(PF!Ticked(R, ids), l)
           /\ R \cap ids \subseteq PF!Ticked(R, ids) /\ (ids = {} => PF!Ticked(R, ids) = R)
BY DEF PF!Ticked, PfOf

LEMMA PfInit == PfConstants /\ PF!Init => PfInv
<1> SUFFICES ASSUME PfConstants, PF!Init PROVE PfInv
  OBVIOUS
<1>1. PfServer /\ PfSent
  BY DEF PF!Init, PfConstants, PfServer, PfSent
<1>2. cached \in [Places -> PfRows] /\ \A l \in Places : cached[l] # None => PfOf(cached[l], l)
  BY DEF PF!Init, PfRows, PfOf
<1>3. PICK o \in Openings : opening = [place |-> o.place, ids |-> o.ids, warm |-> o.place # None /\ cached[o.place] # None, over |-> FALSE]
  BY DEF PF!Init
<1>4. o.place \in Places \cup {None} /\ o.ids \in SUBSET Parcels
  BY DEF PfConstants
<1> DEFINE warm == o.place # None /\ cached[o.place] # None
<1>5. warm \in BOOLEAN /\ opening = [place |-> o.place, ids |-> o.ids, warm |-> warm, over |-> FALSE]
  BY <1>3
<1> HIDE DEF warm
<1>6. /\ opening = [place |-> opening.place, ids |-> opening.ids, warm |-> opening.warm, over |-> opening.over]
      /\ opening.place \in Places \cup {None} /\ opening.ids \in SUBSET Parcels /\ opening.warm \in BOOLEAN /\ opening.over = FALSE
      /\ opening.warm = warm /\ opening.place = o.place
  BY <1>4, <1>5
<1>7. known = None \/ known \subseteq Places
  BY DEF PF!Init
<1>8. PICK l \in Places \cup {None} : PF!OpenWith(l) /\ (opening.place # None => l = opening.place)
  <2>1. CASE opening.place # None
    BY <1>6, <2>1 DEF PF!Init
  <2>2. CASE opening.place = None /\ known = None
    BY <2>2 DEF PF!Init
  <2>3. CASE opening.place = None /\ known # None
    BY <1>7, <2>3, PfOnlyPlace DEF PF!Init
  <2> QED BY <2>1, <2>2, <2>3
<1>9. place = l /\ hand = {}
  BY <1>8 DEF PF!Init, PF!OpenWith
<1>10. CASE l # None /\ cached[l] # None
  <2>1. eligible = cached[l] /\ loadedFor = l /\ selected = PF!Ticked(cached[l], opening.ids) /\ preselect = {} /\ l \in Places
    BY <1>8, <1>10 DEF PF!OpenWith
  <2>2. cached[l] \in SUBSET Parcels /\ PfOf(cached[l], l)
    BY <1>2, <1>10, <2>1 DEF PfRows
  <2>3. PfList
    BY <1>6, <1>9, <2>1, <2>2, PfTicked DEF PfList
  <2>4. PICK nth \in Loads : loads = [m \in Loads |-> IF m = nth THEN PF!Reading(l) ELSE PF!Idle]
    BY <1>8, <1>10 DEF PF!OpenWith
  <2>5. \A m \in Loads : loads[m] = PF!Idle \/ (m = nth /\ loads[m] = PF!Reading(l))
    BY <2>4
  <2>6. loads \in [Loads -> PfLoads]
    BY <2>1, <2>4, PfIdle, PfReading
  <2>7. PF!Reading(l) \in PfLoads /\ PF!Reading(l).place = l /\ PF!Reading(l).rows = None /\ PF!Reading(l).live /\ ~PF!Reading(l).cold
    BY <1>10, <2>1, PfReading
  <2>8. ~opening.warm => opening.place # l
    BY <1>6, <1>10 DEF warm
  <2>9. \A m \in Loads : PfLoad(m)
    BY <1>9, <1>10, <2>1, <2>5, <2>7, <2>8, PfIdle DEF PfLoad
  <2>10. PfReads
    BY <2>5, <2>6, <2>9, PfIdle DEF PfReads
  <2> QED BY <1>1, <1>2, <1>6, <1>7, <1>9, <2>3, <2>10 DEF PfInv, PfPage
<1>11. CASE l = None \/ cached[l] = None
  <2>1. eligible = {} /\ loadedFor = None /\ selected = {} /\ preselect = opening.ids
    BY <1>8, <1>11 DEF PF!OpenWith
  <2>2. PfList
    BY <1>6, <1>9, <2>1 DEF PfList, PfOf
  <2>3. PICK nth \in Loads : loads = [m \in Loads |-> IF m = nth /\ l # None THEN PF!Reading(l) ELSE PF!Idle]
    BY <1>8 DEF PF!OpenWith
  <2>4. \A m \in Loads : loads[m] = PF!Idle \/ (m = nth /\ l \in Places /\ loads[m] = PF!Reading(l))
    BY <2>3
  <2>5. loads \in [Loads -> PfLoads]
    BY <2>3, PfIdle, PfReading
  <2>6. l \in Places => PF!Reading(l) \in PfLoads /\ PF!Reading(l).place = l /\ PF!Reading(l).rows = None /\ PF!Reading(l).live
                        /\ PF!Reading(l).cold /\ l # None
    BY <1>11, PfReading DEF PfConstants
  <2>7. \A m \in Loads : PfLoad(m)
    BY <1>9, <2>1, <2>4, <2>6, PfIdle DEF PfLoad
  <2>8. PfReads
    BY <2>4, <2>5, <2>7, PfIdle DEF PfReads
  <2> QED BY <1>1, <1>2, <1>6, <1>7, <1>9, <2>2, <2>8 DEF PfInv, PfPage
<1> QED BY <1>10, <1>11

\* A place that is chosen: the reads before it count no more.
LEMMA PfChosen ==
    ASSUME PfConstants, PfInv, NEW l \in Places, l # place, PF!Chosen(l), UNCHANGED <<ready, saved, others, flight, presses>>,
           known' = None \/ known' \subseteq Places
    PROVE  PfInv'
<1>1. place' = l /\ hand' = {} /\ opening' = PF!Reopened(l) /\ UNCHANGED cached
  BY DEF PF!Chosen
<1>2. PICK nth \in Loads : loads' = [m \in Loads |-> IF m = nth THEN PF!Reading(l) ELSE [loads[m] EXCEPT !.live = FALSE]]
  BY DEF PF!Chosen
<1> DEFINE warm == opening.warm \/ cached[l] # None \/ loadedFor = l
           over == cached[l] = None /\ loadedFor = l
<1>3. warm \in BOOLEAN /\ over \in BOOLEAN /\ opening' = [opening EXCEPT !.warm = warm, !.over = over]
  BY <1>1 DEF PF!Reopened, PfInv, PfPage
<1> HIDE DEF warm, over
<1>4. /\ opening' = [place |-> opening'.place, ids |-> opening'.ids, warm |-> opening'.warm, over |-> opening'.over]
      /\ opening'.place = opening.place /\ opening'.ids = opening.ids /\ opening'.warm = warm /\ opening'.over = over
  BY <1>3 DEF PfInv, PfPage
<1>5. PfServer' /\ PfSent' /\ PfPage'
  BY <1>1, <1>3, <1>4 DEF PfInv, PfServer, PfSent, PfPage
<1>6. /\ eligible' \subseteq Parcels /\ selected' \subseteq Parcels /\ preselect' \in {opening.ids, {}} /\ loadedFor' \in Places \cup {None}
      /\ PfOf(selected', loadedFor') /\ PfOf(eligible', loadedFor')
      /\ cached[l] # None => loadedFor' = l
      /\ cached[l] = None => loadedFor' = loadedFor
  <2>1. CASE cached[l] # None
    <3>1. cached[l] \in SUBSET Parcels /\ PfOf(cached[l], l) /\ preselect \in SUBSET Parcels
      BY <2>1 DEF PfInv, PfPage, PfList, PfRows
    <3>2. eligible' = cached[l] /\ loadedFor' = l /\ selected' = PF!Ticked(cached[l], preselect) /\ preselect' = {}
      BY <2>1 DEF PF!Chosen
    <3> QED BY <2>1, <3>1, <3>2, PfTicked
  <2>2. CASE cached[l] = None
    <3>1. UNCHANGED <<eligible, loadedFor, selected, preselect>>
      BY <2>2 DEF PF!Chosen
    <3> QED BY <2>2, <3>1 DEF PfInv, PfList
  <2> QED BY <2>1, <2>2
<1>7. PfList'
  <2>1. ~opening'.warm => loadedFor' # place'
    BY <1>1, <1>4, <1>6 DEF warm
  <2> QED BY <1>1, <1>4, <1>6, <2>1 DEF PfList
<1>8. PfReads'
  <2>1. /\ PF!Reading(l) \in PfLoads /\ PF!Reading(l).place = l /\ PF!Reading(l).rows = None /\ PF!Reading(l).live
        /\ (PF!Reading(l).cold <=> cached[l] = None)
    BY PfReading
  <2>2. \A x \in PfLoads : /\ [x EXCEPT !.live = FALSE] \in PfLoads
                           /\ [x EXCEPT !.live = FALSE].place = x.place /\ [x EXCEPT !.live = FALSE].rows = x.rows
                           /\ [x EXCEPT !.live = FALSE].live = FALSE
    BY DEF PfLoads
  <2>3. loads' \in [Loads -> PfLoads]
    BY <1>2, <2>1, <2>2 DEF PfInv, PfReads
  <2>4. PfLoad(nth)'
    <3>1. loads'[nth] = PF!Reading(l)
      BY <1>2
    <3>2. l # None
      BY DEF PfConstants
    <3> QED BY <1>1, <1>4, <1>6, <2>1, <3>1, <3>2 DEF PfLoad, warm, over
  <2>5. \A m \in Loads : m # nth => loads'[m].live = FALSE /\ PfLoad(m)'
    <3> SUFFICES ASSUME NEW m \in Loads, m # nth PROVE loads'[m].live = FALSE /\ PfLoad(m)'
      OBVIOUS
    <3>1. loads'[m] = [loads[m] EXCEPT !.live = FALSE]
      BY <1>2
    <3>2. PfLoad(m) /\ loads[m] \in PfLoads
      BY DEF PfInv, PfReads
    <3>3. loads'[m].live = FALSE /\ loads'[m].place = loads[m].place /\ loads'[m].rows = loads[m].rows
      BY <2>2, <3>1, <3>2
    <3> QED BY <3>2, <3>3 DEF PfLoad
  <2> QED BY <2>3, <2>4, <2>5 DEF PfReads
<1> QED BY <1>5, <1>7, <1>8 DEF PfInv

\* The place and the addresses it is chosen from.
LEMMA PfPlaces ==
    ASSUME PfConstants, PfInv, (\E l \in Places : PF!ChoosePlace(l)) \/ PF!AddressesAnswered \/ PF!AddressesFail
    PROVE  PfInv'
<1>1. CASE \E l \in Places : PF!ChoosePlace(l)
  <2>1. PICK l \in Places : PF!ChoosePlace(l)
    BY <1>1
  <2>2. l # place /\ PF!Chosen(l) /\ UNCHANGED <<ready, saved, others, known, flight, presses>>
    BY <2>1 DEF PF!ChoosePlace, PF!serverVars, PF!addressVars, PF!flightVars
  <2>3. known' = None \/ known' \subseteq Places
    BY <2>2 DEF PfInv, PfPage
  <2> QED BY <2>2, <2>3, PfChosen
<1>2. CASE PF!AddressesAnswered /\ opening.place = None /\ place = None /\ PF!OnlyPlace(saved) # None
  <2> DEFINE l == PF!OnlyPlace(saved)
  <2>1. PF!Chosen(l) /\ UNCHANGED <<ready, saved, others, flight, presses>> /\ known' = saved
    BY <1>2 DEF PF!AddressesAnswered, PF!serverVars, PF!flightVars
  <2>2. l \in Places /\ l # place /\ known' \subseteq Places
    BY <1>2, <2>1, PfOnlyPlace DEF PfInv, PfServer
  <2> HIDE DEF l
  <2> QED BY <2>1, <2>2, PfChosen
<1>3. CASE PF!AddressesFail \/ (PF!AddressesAnswered /\ ~(opening.place = None /\ place = None /\ PF!OnlyPlace(saved) # None))
  <2>1. UNCHANGED <<ready, saved, others, opening, cached, place, eligible, loadedFor, selected, preselect, loads, hand, flight, presses>>
    BY <1>3 DEF PF!AddressesFail, PF!AddressesAnswered, PF!serverVars, PF!listVars, PF!flightVars
  <2>2. known' = known \/ known' = saved
    BY <1>3 DEF PF!AddressesFail, PF!AddressesAnswered
  <2>3. known' = None \/ known' \subseteq Places
    BY <2>2 DEF PfInv, PfPage, PfServer
  <2>4. PfServer' /\ PfSent' /\ PfPage' /\ PfList'
    BY <2>1, <2>3 DEF PfInv, PfServer, PfSent, PfPage, PfList
  <2>5. PfReads'
    BY <2>1 DEF PfInv, PfReads, PfLoad
  <2> QED BY <2>4, <2>5 DEF PfInv
<1> QED BY <1>1, <1>2, <1>3

\* A list is read on the server, answered or lost.
LEMMA PfLists ==
    ASSUME PfConstants, PfInv, NEW m \in Loads, PF!ReadList(m) \/ PF!ListAnswered(m) \/ PF!ListFails(m)
    PROVE  PfInv'
<1>1. /\ loads[m] \in PfLoads /\ PfLoad(m) /\ loads \in [Loads -> PfLoads]
      /\ \A n \in Loads : PfLoad(n) /\ (n # m => ~(loads[m].live /\ loads[n].live))
  BY DEF PfInv, PfReads
<1>2. /\ UNCHANGED <<ready, saved, others, known, opening, place, hand, flight, presses>>
  BY DEF PF!ReadList, PF!ListAnswered, PF!ListFails, PF!serverVars, PF!addressVars, PF!flightVars
<1>3. PfServer' /\ PfSent'
  BY <1>2 DEF PfInv, PfServer, PfSent
<1>4. PF!Idle \in PfLoads /\ PF!Idle.rows = None /\ PF!Idle.live = FALSE
  BY PfIdle
<1>5. CASE PF!ReadList(m)
  <2>1. /\ loads' = [loads EXCEPT ![m].rows = PF!ReadyAt(loads[m].place)]
        /\ UNCHANGED <<cached, eligible, loadedFor, selected, preselect>>
    BY <1>5 DEF PF!ReadList
  <2>2. PF!ReadyAt(loads[m].place) \in SUBSET Parcels /\ PfOf(PF!ReadyAt(loads[m].place), loads[m].place)
    BY DEF PF!ReadyAt, PfInv, PfServer, PfOf
  <2> DEFINE R == PF!ReadyAt(loads[m].place)
  <2> HIDE DEF R
  <2>3. \A x \in PfLoads : \A r \in PfRows : /\ [x EXCEPT !.rows = r] \in PfLoads
                                             /\ [x EXCEPT !.rows = r].rows = r /\ [x EXCEPT !.rows = r].place = x.place
                                             /\ [x EXCEPT !.rows = r].live = x.live /\ [x EXCEPT !.rows = r].cold = x.cold
    BY DEF PfLoads
  <2>4. /\ loads' \in [Loads -> PfLoads] /\ loads'[m].rows = R /\ loads'[m].place = loads[m].place
        /\ loads'[m].live = loads[m].live /\ loads'[m].cold = loads[m].cold
        /\ \A n \in Loads : n # m => loads'[n] = loads[n]
    <3>1. R \in PfRows
      BY <2>2 DEF PfRows, R
    <3>2. [loads[m] EXCEPT !.rows = R] \in PfLoads
      BY <1>1, <2>3, <3>1
    <3>3. loads' = [loads EXCEPT ![m] = [loads[m] EXCEPT !.rows = R]]
      BY <2>1 DEF R
    <3> QED BY <1>1, <2>3, <3>1, <3>2, <3>3
  <2>5. PfLoad(m)'
    BY <1>1, <1>2, <2>1, <2>2, <2>4 DEF PfLoad, R
  <2>6. \A n \in Loads : n # m => PfLoad(n)'
    BY <1>1, <1>2, <2>1, <2>4 DEF PfLoad
  <2>7. PfReads'
    BY <1>1, <2>4, <2>5, <2>6 DEF PfInv, PfReads
  <2>8. PfPage' /\ PfList'
    BY <1>2, <2>1 DEF PfInv, PfPage, PfList
  <2> QED BY <1>3, <2>7, <2>8 DEF PfInv
<1>6. CASE PF!ListAnswered(m)
  <2>1. /\ loads[m].rows # None /\ cached' = [cached EXCEPT ![loads[m].place] = loads[m].rows]
        /\ loads' = [loads EXCEPT ![m] = PF!Idle]
    BY <1>6 DEF PF!ListAnswered
  <2>2. loads[m].rows \in SUBSET Parcels /\ PfOf(loads[m].rows, loads[m].place)
    BY <1>1, <2>1 DEF PfLoad, PfLoads, PfRows
  <2>3. PfPage'
    BY <1>2, <2>1, <2>2 DEF PfInv, PfPage, PfRows
  <2>4. /\ loads' \in [Loads -> PfLoads] /\ loads'[m].rows = None /\ loads'[m].live = FALSE
        /\ \A n \in Loads : n # m => loads'[n] = loads[n]
    BY <1>1, <1>4, <2>1
  <2>5. CASE loads[m].live
    <3>1. eligible' = loads[m].rows /\ loadedFor' = place /\ loads[m].place = place /\ place \in Places /\ place # None
      BY <1>1, <1>6, <2>5 DEF PF!ListAnswered, PfLoad, PfInv, PfPage
    <3>2. CASE loads[m].cold
      <4>1. selected' = PF!Ticked(loads[m].rows, preselect) /\ preselect' = {} /\ preselect \in SUBSET Parcels
        BY <1>6, <2>5, <3>2 DEF PF!ListAnswered, PfInv, PfList, PfPage
      <4>2. /\ selected' \subseteq Parcels /\ PfOf(selected', place) /\ loads[m].rows \cap preselect \subseteq selected'
            /\ (preselect = {} => selected' = loads[m].rows)
        BY <2>2, <3>1, <4>1, PfTicked
      <4>3. opening.ids \cap loads[m].rows \subseteq selected'
        BY <4>2 DEF PfInv, PfList
      <4>4. PfList'
        BY <1>2, <2>2, <3>1, <4>1, <4>2, <4>3 DEF PfInv, PfList
      <4>5. PfReads'
        BY <1>1, <1>2, <2>4, <2>5, <3>1 DEF PfReads, PfLoad
      <4> QED BY <1>3, <2>3, <4>4, <4>5 DEF PfInv
    <3>3. CASE ~loads[m].cold
      <4>1. selected' = selected /\ preselect' = preselect /\ loadedFor = place /\ ~(~opening.warm /\ place = opening.place)
        BY <1>1, <1>6, <2>5, <3>3 DEF PF!ListAnswered, PfLoad
      <4>2. PfList'
        BY <1>2, <2>2, <3>1, <4>1 DEF PfInv, PfList
      <4>3. PfReads'
        BY <1>1, <1>2, <2>4, <2>5, <3>1, <4>1 DEF PfReads, PfLoad
      <4> QED BY <1>3, <2>3, <4>2, <4>3 DEF PfInv
    <3> QED BY <3>2, <3>3
  <2>6. CASE ~loads[m].live
    <3>1. UNCHANGED <<eligible, loadedFor, selected, preselect>>
      BY <1>6, <2>6 DEF PF!ListAnswered
    <3>2. PfList'
      BY <1>2, <3>1 DEF PfInv, PfList
    <3>3. PfReads'
      BY <1>1, <1>2, <2>4, <3>1 DEF PfInv, PfReads, PfLoad
    <3> QED BY <1>3, <2>3, <3>2, <3>3 DEF PfInv
  <2> QED BY <2>5, <2>6
<1>7. CASE PF!ListFails(m)
  <2>1. loads' = [loads EXCEPT ![m] = PF!Idle] /\ UNCHANGED <<cached, preselect>>
    BY <1>7 DEF PF!ListFails
  <2>2. PfPage'
    BY <1>2, <2>1 DEF PfInv, PfPage
  <2>3. /\ loads' \in [Loads -> PfLoads] /\ loads'[m].rows = None /\ loads'[m].live = FALSE
        /\ \A n \in Loads : n # m => loads'[n] = loads[n]
    BY <1>1, <1>4, <2>1
  <2>4. CASE loads[m].live
    <3>1. loadedFor' = place /\ place \in Places /\ place # None
      BY <1>1, <1>7, <2>4 DEF PF!ListFails, PfLoad, PfInv, PfPage
    <3>2. CASE loads[m].cold
      <4>1. eligible' = {} /\ selected' = {}
        BY <1>7, <2>4, <3>2 DEF PF!ListFails
      <4>2. PfList'
        BY <1>2, <2>1, <3>1, <4>1 DEF PfInv, PfList, PfOf
      <4>3. PfReads'
        BY <1>1, <1>2, <2>3, <2>4 DEF PfReads, PfLoad
      <4> QED BY <1>3, <2>2, <4>2, <4>3 DEF PfInv
    <3>3. CASE ~loads[m].cold
      <4>1. eligible' = eligible /\ selected' = selected /\ loadedFor = place
        BY <1>1, <1>7, <2>4, <3>3 DEF PF!ListFails, PfLoad
      <4>2. PfList'
        BY <1>2, <2>1, <3>1, <4>1 DEF PfInv, PfList
      <4>3. PfReads'
        BY <1>1, <1>2, <2>3, <2>4 DEF PfReads, PfLoad
      <4> QED BY <1>3, <2>2, <4>2, <4>3 DEF PfInv
    <3> QED BY <3>2, <3>3
  <2>5. CASE ~loads[m].live
    <3>1. UNCHANGED <<eligible, loadedFor, selected>>
      BY <1>7, <2>5 DEF PF!ListFails
    <3>2. PfList'
      BY <1>2, <2>1, <3>1 DEF PfInv, PfList
    <3>3. PfReads'
      BY <1>1, <1>2, <2>3, <3>1 DEF PfInv, PfReads, PfLoad
    <3> QED BY <1>3, <2>2, <3>2, <3>3 DEF PfInv
  <2> QED BY <2>4, <2>5
<1> QED BY <1>5, <1>6, <1>7

\* What is ticked, unticked and filled in by hand, and a cached list that expires.
LEMMA PfEntered ==
    ASSUME PfConstants, PfInv,
           \/ \E p \in Parcels : PF!ToggleShipment(p)
           \/ \E checked \in BOOLEAN : PF!ToggleAll(checked)
           \/ PF!Field
           \/ \E l \in Places : PF!CacheDropped(l)
    PROVE  PfInv'
<1>1. /\ UNCHANGED <<ready, saved, others, known, opening, place, eligible, loadedFor, preselect, loads, flight, presses>>
      /\ cached' \in [Places -> PfRows] /\ \A l \in Places : cached'[l] # None => cached'[l] = cached[l]
  <2>1. UNCHANGED <<ready, saved, others, known, opening, place, eligible, loadedFor, preselect, loads, flight, presses>>
    BY DEF PF!ToggleShipment, PF!ToggleAll, PF!Field, PF!CacheDropped, PF!serverVars, PF!addressVars, PF!listVars, PF!flightVars
  <2>2. cached' = cached \/ \E l \in Places : cached' = [cached EXCEPT ![l] = None]
    BY DEF PF!ToggleShipment, PF!ToggleAll, PF!Field, PF!CacheDropped, PF!listVars
  <2> QED BY <2>1, <2>2 DEF PfInv, PfPage, PfRows
<1>2. PfServer' /\ PfSent' /\ PfPage'
  BY <1>1 DEF PfInv, PfServer, PfSent, PfPage
<1>3. PfReads'
  BY <1>1 DEF PfInv, PfReads, PfLoad
<1>4. /\ selected' \subseteq Parcels /\ PfOf(selected', loadedFor) /\ (hand' # {} => loadedFor = place)
      /\ ~opening.warm /\ place = opening.place /\ place # None /\ loadedFor = place => (opening.ids \cap eligible) \ hand' \subseteq selected'
  <2>1. CASE \E p \in Parcels : PF!ToggleShipment(p)
    <3>1. PICK p \in Parcels : PF!ToggleShipment(p)
      BY <2>1
    <3>2. p \in eligible /\ hand' = hand \cup {p} /\ loadedFor = place /\ (selected' = selected \ {p} \/ selected' = selected \cup {p})
      BY <3>1 DEF PF!ToggleShipment, PF!ListShown, PF!LoadingEligible
    <3> QED BY <3>2 DEF PfInv, PfList, PfOf
  <2>2. CASE \E checked \in BOOLEAN : PF!ToggleAll(checked)
    <3>1. hand' = eligible /\ loadedFor = place /\ (selected' = eligible \/ selected' = {})
      BY <2>2 DEF PF!ToggleAll, PF!ListShown, PF!LoadingEligible
    <3> QED BY <3>1 DEF PfInv, PfList, PfOf
  <2>3. CASE PF!Field \/ \E l \in Places : PF!CacheDropped(l)
    <3>1. hand' = hand /\ selected' = selected
      BY <2>3 DEF PF!Field, PF!CacheDropped, PF!listVars
    <3> QED BY <3>1 DEF PfInv, PfList
  <2> QED BY <2>1, <2>2, <2>3
<1>5. PfList'
  BY <1>1, <1>4 DEF PfInv, PfList
<1> QED BY <1>2, <1>3, <1>5 DEF PfInv

\* What is sent, and what the server and other people make of it.
LEMMA PfOut ==
    ASSUME PfConstants, PfInv,
           \/ PF!Press
           \/ \E reaches, ok \in BOOLEAN : PF!Serve(reaches, ok)
           \/ PF!Created
           \/ PF!Refused
           \/ \E p \in Parcels : PF!Others(p)
    PROVE  PfInv'
<1>1. /\ UNCHANGED <<saved, known, opening, place, eligible, loadedFor, selected, preselect, loads, hand>>
      /\ cached' = cached \/ cached' = [l \in Places |-> None]
  BY DEF PF!Press, PF!Serve, PF!Created, PF!Refused, PF!Others, PF!serverVars, PF!addressVars, PF!listVars
<1>2. PfPage' /\ PfList'
  BY <1>1 DEF PfInv, PfPage, PfList, PfRows
<1>3. PfReads'
  BY <1>1 DEF PfInv, PfReads, PfLoad
<1>4. ready' \subseteq Parcels /\ others' \in 0..MaxOthers
  <2>1. CASE \E p \in Parcels : PF!Others(p)
    <3>1. PICK p \in Parcels : PF!Others(p)
      BY <2>1
    <3>2. ready' \subseteq ready \cup {p} /\ others < MaxOthers /\ others' = others + 1
      BY <3>1 DEF PF!Others
    <3> QED BY <3>2 DEF PfInv, PfServer, PfConstants
  <2>2. CASE ~\E p \in Parcels : PF!Others(p)
    <3>1. ready' \subseteq ready /\ others' = others
      BY <2>2 DEF PF!Press, PF!Serve, PF!Create, PF!Created, PF!Refused, PF!serverVars
    <3> QED BY <3>1 DEF PfInv, PfServer
  <2> QED BY <2>1, <2>2
<1>5. PfSent'
  <2>1. CASE PF!Press
    <3>1. presses < MaxPresses /\ presses' = presses + 1 /\ flight' = [body |-> PF!Body, at |-> "going", done |-> FALSE]
          /\ place # None /\ loadedFor = place
      BY <2>1 DEF PF!Press, PF!Valid, PF!LoadingEligible
    <3> DEFINE want == IF place = opening.place /\ ~opening.warm THEN (opening.ids \cap eligible) \ hand ELSE {}
    <3>2. PF!Body.place = place /\ PF!Body.loadedFor = loadedFor /\ PF!Body.ids = selected /\ PF!Body.wanted = want
      BY DEF PF!Body
    <3>3. want \subseteq selected /\ PfOf(selected, place)
      BY <3>1 DEF PfInv, PfList
    <3> QED BY <3>1, <3>2, <3>3 DEF PfInv, PfSent, PfConstants
  <2>2. CASE \E reaches, ok \in BOOLEAN : PF!Serve(reaches, ok)
    <3>1. flight # None /\ presses' = presses
          /\ (flight' = [flight EXCEPT !.at = "ok", !.done = TRUE] \/ flight' = [flight EXCEPT !.at = "failed", !.done = TRUE]
              \/ flight' = [flight EXCEPT !.at = "failed"])
      BY <2>2 DEF PF!Serve
    <3> QED BY <3>1 DEF PfInv, PfSent
  <2>3. CASE PF!Created
    <3>1. flight # None /\ flight' = [flight EXCEPT !.at = "left"] /\ presses' = presses
      BY <2>3 DEF PF!Created
    <3> QED BY <3>1 DEF PfInv, PfSent
  <2>4. CASE PF!Refused \/ \E p \in Parcels : PF!Others(p)
    <3>1. (flight' = None \/ flight' = flight) /\ presses' = presses
      BY <2>4 DEF PF!Refused, PF!Others, PF!flightVars
    <3> QED BY <3>1 DEF PfInv, PfSent
  <2> QED BY <2>1, <2>2, <2>3, <2>4
<1>6. PfServer'
  BY <1>1, <1>4 DEF PfInv, PfServer
<1> QED BY <1>2, <1>3, <1>5, <1>6 DEF PfInv

LEMMA PfStep == PfConstants /\ PfInv /\ [PF!Next]_(PF!vars) => PfInv'
<1> SUFFICES ASSUME PfConstants, PfInv, [PF!Next]_(PF!vars) PROVE PfInv'
  OBVIOUS
<1>1. CASE UNCHANGED PF!vars
  <2>1. PfServer' /\ PfPage' /\ PfList' /\ PfSent'
    BY <1>1 DEF PF!vars, PfInv, PfServer, PfPage, PfList, PfSent
  <2>2. PfReads'
    BY <1>1 DEF PF!vars, PfInv, PfReads, PfLoad
  <2> QED BY <2>1, <2>2 DEF PfInv
<1>2. CASE PF!OnPage
  BY <1>2, PfPlaces, PfLists, PfEntered, PfOut DEF PF!OnPage
<1> QED BY <1>1, <1>2 DEF PF!Next

\* A request for a pickup names the parcels of its place only, of a list that was shown, and with them those
\* the form was opened with that were listed and not unticked, unless a list was shown before it was read
\* (create-pickup-request-form.tsx:264-292).
THEOREM RequestedAsListed ==
    ASSUME PfConstants
    PROVE  PF!Spec => [](PF!TypeOK /\ PF!ActedAsShown)
<1>1. PF!Init => PfInv
  BY PfInit
<1>2. PfInv /\ [PF!Next]_(PF!vars) => PfInv'
  BY PfStep
<1>3. PfInv => PF!TypeOK /\ PF!ActedAsShown
  <2> SUFFICES ASSUME PfInv PROVE PF!TypeOK /\ PF!ActedAsShown
    OBVIOUS
  <2>1. PF!Cardinality({m \in Loads : loads[m].live}) <= 1
    <3> DEFINE L == {m \in Loads : loads[m].live}
    <3>1. CASE L = {}
      <4>1. Cardinality(L) = 0
        BY <3>1, FS_EmptySet
      <4> QED BY <4>1, PfCounts
    <3>2. CASE L # {}
      <4>1. PICK m \in Loads : loads[m].live
        BY <3>2
      <4>2. L = {m}
        BY <4>1 DEF PfInv, PfReads
      <4>3. Cardinality(L) = 1
        BY <4>2, FS_Singleton
      <4> QED BY <4>3, PfCounts
    <3> QED BY <3>1, <3>2
  <2>2. PF!TypeOK
    BY <2>1 DEF PF!TypeOK, PfInv, PfServer, PfPage, PfList, PfSent, PfRows
  <2>3. PF!ActedAsShown
    BY DEF PF!ActedAsShown, PfInv, PfSent, PfOf
  <2> QED BY <2>2, <2>3
<1> QED BY <1>1, <1>2, <1>3, PTL DEF PF!Spec

\* A list that is answered or fails leaves alone what the person ticked and unticked in it, but for a place that was
\* come back to while its list was still shown and no longer cached.
THEOREM RequestTypingKept ==
    ASSUME PfConstants
    PROVE  PF!Spec => [][PF!KeepsTyping]_(PF!vars)
<1>1. PF!Init => PfInv
  BY PfInit
<1>2. PfInv /\ [PF!Next]_(PF!vars) => PfInv'
  BY PfStep
<1>3. PfInv /\ [PF!Next]_(PF!vars) => [PF!KeepsTyping]_(PF!vars)
  <2> SUFFICES ASSUME PfInv, PF!OnPage, place' = place, loads' # loads, ~opening.over PROVE selected' \cap hand = selected \cap hand
    BY DEF PF!Next, PF!KeepsTyping
  <2>1. ~\E l \in Places : PF!ChoosePlace(l)
    BY DEF PF!ChoosePlace, PF!Chosen
  <2>2. CASE PF!AddressesAnswered
    <3>1. CASE opening.place = None /\ place = None /\ PF!OnlyPlace(saved) # None
      BY <2>2, <3>1 DEF PF!AddressesAnswered, PF!Chosen
    <3>2. CASE ~(opening.place = None /\ place = None /\ PF!OnlyPlace(saved) # None)
      BY <2>2, <3>2 DEF PF!AddressesAnswered, PF!listVars
    <3> QED BY <3>1, <3>2
  <2>3. ASSUME NEW m \in Loads, PF!ReadList(m) PROVE selected' = selected
    BY <2>3 DEF PF!ReadList
  <2>4. ASSUME NEW m \in Loads, PF!ListAnswered(m) \/ PF!ListFails(m) PROVE selected' = selected \/ hand = {}
    <3>1. CASE loads[m].live /\ loads[m].cold
      <4>1. loadedFor # place
        BY <3>1 DEF PfInv, PfReads, PfLoad
      <4> QED BY <4>1 DEF PfInv, PfList
    <3>2. CASE ~(loads[m].live /\ loads[m].cold)
      BY <2>4, <3>2 DEF PF!ListAnswered, PF!ListFails
    <3> QED BY <3>1, <3>2
  <2>5. CASE PF!AddressesFail \/ PF!Field \/ PF!Press \/ PF!Refused
    BY <2>5 DEF PF!AddressesFail, PF!Field, PF!Press, PF!Refused, PF!listVars
  <2>6. ~(\E l \in Places : PF!CacheDropped(l)) /\ ~PF!Created
    BY DEF PF!CacheDropped, PF!Created
  <2>7. ~(\E p \in Parcels : PF!ToggleShipment(p)) /\ ~(\E checked \in BOOLEAN : PF!ToggleAll(checked))
    BY DEF PF!ToggleShipment, PF!ToggleAll
  <2>8. CASE (\E p \in Parcels : PF!Others(p)) \/ (\E reaches, ok \in BOOLEAN : PF!Serve(reaches, ok))
    BY <2>8 DEF PF!Others, PF!Serve, PF!listVars
  <2> QED BY <2>1, <2>2, <2>3, <2>4, <2>5, <2>6, <2>7, <2>8 DEF PF!OnPage
<1> QED BY <1>1, <1>2, <1>3, PTL DEF PF!Spec

-----------------------------------------------------------------------------
(* The rider's cards: the cash asked for is the cash due, a rider is told of a   *)
(* delivery or a return that is, and one refusal at the door counts once.        *)

CONSTANTS Starts, Jobs, MaxMoves, MaxDialogs
VARIABLES parcel, shown, otp, receiver, dialog, flights, told, delivered, counted, opened, moves, left,
    limited
DS == INSTANCE Doorstep

DsCash == {0, 1}
DsFinal == {"COMPLETED", "RTO_DELIVERED"}
DsTargets == {"COMPLETED", "OUT_FOR_DELIVERY"} \cup DS!RtoStatuses
DsParcels ==
    [type : DS!ShipmentTypes, status : DS!Statuses, attempts : Nat, held : DS!Statuses \cup {DS!NoStatus},
     reason : DS!AllReasons \cup {DS!NoReason}, cod : DsCash]
DsRows == [status : DS!ActiveList \cup DS!DoneList, cod : DsCash]
DsLoads == [left : SUBSET DS!Lists, rows : SUBSET DsRows]
DsDialogs == [kind : {"ndr", "qc"}, row : DsRows, remark : BOOLEAN, intent : DS!Dialogs]
DsFlights ==
    [target : DsTargets \cup {"EXCEPTION", "QC_FAILED"}, intent : DS!Dialogs \cup {None},
     at : {"sent", "ok", "failed", "asking", "loading"}, done : BOOLEAN, load : Loads \cup {None},
     otp : {None, "right", "wrong"}, cod : DsCash \cup {None}]
DsConstants ==
    /\ MaxDialogs \in Nat /\ None \notin Loads /\ None \notin DsLoads /\ None \notin DsDialogs /\ None \notin DsFlights
    /\ None \notin {"right", "wrong", "typed"} /\ None \notin DsFinal
    /\ \A s \in Starts : s.type \in DS!ShipmentTypes /\ s.status \in DS!Statuses \ {"EXCEPTION"} /\ s.attempts \in Nat

DsParcel == parcel \in DsParcels /\ (parcel.status = "EXCEPTION" <=> parcel.reason # DS!NoReason)
DsList == shown \in SUBSET DsRows /\ loads \in [Loads -> DsLoads \cup {None}]
DsCard ==
    /\ otp \in {None, "right", "wrong"} /\ receiver \in {None, "typed"} /\ opened \in 0 .. MaxDialogs
    /\ dialog \in DsDialogs \cup {None} /\ (dialog # None => dialog.row.status \in DS!ActiveList)
\* What a request on its way asks for, and that what it did still stands where that is final.
DsFlight(f, b) ==
    /\ b \in DsFlights
    /\ f = "ops" => b.target \in DsTargets
    /\ f = "ndr" => b.target = "EXCEPTION" /\ b.intent \in DS!Dialogs
    /\ f = "qc" => b.target = "QC_FAILED"
    /\ b.at = "ok" => b.done
    /\ b.done /\ b.target \in DsFinal => parcel.status = b.target
    /\ b.load # None => loads[b.load] # None
DsSent == DOMAIN flights = DS!Flights /\ \A f \in DS!Flights : flights[f] # None => DsFlight(f, flights[f])
\* An attempt that was counted has put the parcel on hold, until it leaves the hold.
DsCount ==
    /\ counted \in [DS!Dialogs -> Nat] /\ left \in BOOLEAN /\ limited \in BOOLEAN
    /\ (~left /\ ~limited) => \A d \in DS!Dialogs :
            counted[d] <= 1 /\ (counted[d] # 0 => parcel.status = "EXCEPTION" /\ parcel.reason = DS!RiderReason)
DsServer == DsParcel /\ DsCount /\ DS!CollectsAsShown
DsInv == DsServer /\ DsList /\ DsCard /\ DsSent /\ DS!ToldWhatIs

-----------------------------------------------------------------------------
(* The rules of a parcel.                                                       *)

LEMMA DsTable ==
    /\ \A s \in DS!Statuses : DS!Allowed[s] \in SUBSET DS!Statuses
    /\ \A s \in DsFinal : DS!Allowed[s] = {}
    /\ "EXCEPTION" \notin DS!Allowed["EXCEPTION"]
    /\ \A s \in DS!Statuses : "EXCEPTION" \in DS!Allowed[s] \/ "QC_FAILED" \in DS!Allowed[s] => s \in DS!ActiveList
BY DEF DS!Allowed, DS!Statuses, DS!PrePickup, DS!OnTheWay, DS!RtoStatuses, DS!RtoLeg, DS!Terminal, DsFinal, DS!ActiveList

LEMMA DsKinds ==
    /\ DsFinal \subseteq DS!Terminal /\ DsFinal \subseteq DS!Statuses /\ DsTargets \subseteq DS!Statuses \ {"EXCEPTION"}
    /\ {"EXCEPTION", "QC_FAILED", "CANCELLED", "RTO_INITIATED"} \subseteq DS!Statuses
    /\ DS!ActiveList \cup DS!DoneList \subseteq DS!Statuses
    /\ "EXCEPTION" \notin DsFinal /\ "QC_FAILED" \notin DsFinal
BY DEF DsFinal, DsTargets, DS!Statuses, DS!PrePickup, DS!OnTheWay, DS!RtoStatuses, DS!RtoLeg, DS!Terminal, DS!ActiveList, DS!DoneList

LEMMA DsMoved ==
    ASSUME DsParcel, NEW s \in DS!Statuses, s # "EXCEPTION"
    PROVE  DS!Moved(s) \in DsParcels /\ DS!Moved(s).status = s /\ DS!Moved(s).reason = DS!NoReason
BY DEF DsParcel, DsParcels, DS!Moved

\* An attempt holds the parcel for the rider's reason, or the limit ends the hold at once.
LEMMA DsRaised ==
    ASSUME DsParcel
    PROVE  /\ DS!Raised \in DsParcels
           /\ \/ DS!Raised.status = "EXCEPTION" /\ DS!Raised.reason = DS!RiderReason
              \/ DS!Raised.status \in {"CANCELLED", "RTO_INITIATED"} /\ DS!Raised.reason = DS!NoReason
<1> DEFINE hold == [parcel EXCEPT !.status = "EXCEPTION", !.held = parcel.status, !.reason = DS!RiderReason, !.attempts = parcel.attempts + 1]
           forced == DS!AttemptLimitOutcome(DS!RiderReason, hold.type, hold.attempts, hold.held)
           ended == [hold EXCEPT !.status = forced, !.held = DS!NoStatus, !.reason = DS!NoReason]
<1>1. DS!Raised = IF forced = DS!NoStatus THEN hold ELSE ended
  BY DEF DS!Raised
<1>2. DS!RiderReason \in DS!AllReasons
  BY DEF DS!RiderReason, DS!AllReasons, DS!AttemptCountingReasons, DS!DeliveryAttemptReasons
<1>3. hold \in DsParcels /\ hold.status = "EXCEPTION" /\ hold.reason = DS!RiderReason
  <2>1. parcel \in DsParcels /\ parcel.status \in DS!Statuses /\ parcel.attempts \in Nat /\ "EXCEPTION" \in DS!Statuses
    BY DsKinds DEF DsParcel, DsParcels
  <2> DEFINE e == "EXCEPTION"
             r == DS!RiderReason
             n == parcel.attempts + 1
             h == parcel.status
  <2>2. e \in DS!Statuses /\ r \in DS!AllReasons /\ n \in Nat /\ h \in DS!Statuses
    BY <1>2, <2>1
  <2>3. hold = [parcel EXCEPT !.status = e, !.held = h, !.reason = r, !.attempts = n]
    OBVIOUS
  <2> HIDE DEF hold, e, r, n, h
  <2>4. hold \in DsParcels /\ hold.status = e /\ hold.reason = r
    BY <2>1, <2>2, <2>3 DEF DsParcels
  <2> QED BY <2>4 DEF e, r
<1>4. forced \in {DS!NoStatus, "CANCELLED", "RTO_INITIATED"}
  <2> HIDE DEF hold
  <2>1. \A r, t, n, h : DS!CountsAsAttempt(r) =>
            DS!AttemptLimitOutcome(r, t, n, h) \in {DS!NoStatus, "CANCELLED", "RTO_INITIATED"}
            \/ ~(n < 3 \/ n >= 3)
    BY DEF DS!AttemptLimitOutcome, DS!MaxNdrAttempts
  <2>2. DS!CountsAsAttempt(DS!RiderReason)
    BY DEF DS!CountsAsAttempt, DS!Canonical, DS!RiderReason, DS!AttemptCountingReasons, DS!DeliveryAttemptReasons
  <2>3. hold.attempts \in Nat
    BY <1>3 DEF DsParcels
  <2> QED BY <2>1, <2>2, <2>3
<1> HIDE DEF hold, forced
<1>5. forced # DS!NoStatus => ended \in DsParcels /\ ended.status = forced /\ ended.reason = DS!NoReason
  BY <1>3, <1>4, DsKinds DEF DsParcels
<1> QED BY <1>1, <1>3, <1>4, <1>5

\* What a request that is accepted does.
LEMMA DsUpdates ==
    ASSUME DsConstants, DsServer, NEW f \in DS!Flights, NEW b, DsFlight(f, b), DS!Accepted(b), DS!UpdateShipment(b)
    PROVE  /\ DsServer' /\ (parcel.status \in DsFinal => parcel'.status = parcel.status)
           /\ (b.target \in DsFinal => parcel'.status = b.target) /\ opened' = opened
<1>1. b.target \in DS!Statuses /\ parcel.status \in DS!Statuses
  BY DsKinds DEF DsFlight, DsFlights, DsServer, DsParcel, DsParcels
<1>2. DS!ValidTransition(parcel.status, b.target) /\ (parcel.status = "EXCEPTION" /\ b.target = "EXCEPTION" => parcel.reason = DS!RiderReason)
      /\ (b.target = "COMPLETED" => b.cod = parcel.cod)
  BY DEF DS!Accepted, DS!CodAgrees
<1>3. parcel.status \in DsFinal => parcel.status = b.target
  BY <1>2, DsKinds DEF DS!ValidTransition
<1>4. CASE DS!Replayed(b)
  <2>1. UNCHANGED <<parcel, delivered, counted, opened, left, limited>>
    BY <1>4 DEF DS!UpdateShipment, DS!serverVars
  <2>2. b.target \notin DsFinal
    BY <1>4, DsKinds DEF DS!Replayed
  <2> QED BY <2>1, <2>2 DEF DsServer, DsParcel, DsCount, DS!CollectsAsShown
<1>5. CASE ~DS!Replayed(b) /\ b.target = "EXCEPTION"
  <2>1. parcel' = DS!Raised /\ counted' = [counted EXCEPT ![b.intent] = @ + 1] /\ limited' = (limited \/ DS!Raised.status # "EXCEPTION")
        /\ UNCHANGED <<delivered, opened, left>>
    BY <1>5 DEF DS!UpdateShipment
  <2>2. parcel.status # "EXCEPTION"
    BY <1>2, <1>5 DEF DS!Replayed
  <2>3. b.intent \in DS!Dialogs
    BY <1>5, DsKinds DEF DsFlight, DS!Flights
  <2>4. DsParcel'
    BY <2>1, DsRaised DEF DsServer, DsParcel, DS!NoReason, DS!RiderReason
  <2>5. DsCount'
    <3>1. counted' \in [DS!Dialogs -> Nat] /\ \A d \in DS!Dialogs : counted'[d] = IF d = b.intent THEN counted[d] + 1 ELSE counted[d]
      BY <2>1, <2>3 DEF DsServer, DsCount
    <3>2. left' \in BOOLEAN /\ limited' \in BOOLEAN
      BY <2>1 DEF DsServer, DsCount
    <3>3. ASSUME ~left', ~limited' PROVE parcel'.status = "EXCEPTION" /\ parcel'.reason = DS!RiderReason /\ \A d \in DS!Dialogs : counted[d] = 0
      BY <2>1, <2>2, <3>3, DsRaised DEF DsServer, DsCount
    <3> QED BY <3>1, <3>2, <3>3 DEF DsCount
  <2>6. DS!CollectsAsShown'
    BY <2>1 DEF DsServer, DS!CollectsAsShown
  <2>7. parcel.status \notin DsFinal /\ b.target \notin DsFinal
    BY <1>3, <1>5, DsKinds
  <2> QED BY <2>1, <2>4, <2>5, <2>6, <2>7 DEF DsServer
<1>6. CASE ~DS!Replayed(b) /\ b.target # "EXCEPTION"
  <2>1. /\ parcel' = DS!Moved(b.target) /\ left' = (left \/ parcel.status = "EXCEPTION")
        /\ delivered' = IF b.target = "COMPLETED" /\ parcel.status # "COMPLETED" THEN [asked |-> b.cod, due |-> parcel.cod] ELSE delivered
        /\ UNCHANGED <<counted, opened, limited>>
    BY <1>6 DEF DS!UpdateShipment
  <2>2. parcel' \in DsParcels /\ parcel'.status = b.target /\ parcel'.reason = DS!NoReason
    BY <1>1, <1>6, <2>1, DsMoved DEF DsServer
  <2>3. DsParcel'
    BY <1>6, <2>2 DEF DsParcel
  <2>4. DsCount'
    BY <2>1 DEF DsServer, DsCount
  <2>5. DS!CollectsAsShown'
    BY <1>2, <2>1 DEF DsServer, DS!CollectsAsShown
  <2> QED BY <1>3, <2>1, <2>2, <2>3, <2>4, <2>5 DEF DsServer
<1> QED BY <1>4, <1>5, <1>6

-----------------------------------------------------------------------------
(* The steps.                                                                   *)

LEMMA DsInit == DsConstants /\ DS!Init => DsInv
<1> SUFFICES ASSUME DsConstants, DS!Init PROVE DsInv
  OBVIOUS
<1>1. DsParcel
  BY DEF DS!Init, DsConstants, DsParcel, DsParcels, DS!Cash, DsCash
<1>2. DsCount
  <2>1. counted \in [DS!Dialogs -> Nat] /\ \A d \in DS!Dialogs : counted[d] = 0
    BY DEF DS!Init
  <2>2. left = FALSE /\ limited = FALSE
    BY DEF DS!Init
  <2>3. \A d \in DS!Dialogs : counted[d] <= 1 /\ ~(counted[d] # 0)
    BY <2>1
  <2>4. left \in BOOLEAN /\ limited \in BOOLEAN
    BY <2>2
  <2> QED BY <2>1, <2>3, <2>4 DEF DsCount
<1>5. DS!CollectsAsShown
  BY DEF DS!Init, DS!CollectsAsShown
<1>3. DsList /\ DsCard
  BY DEF DS!Init, DsList, DsCard, DsConstants
<1>4. DsSent /\ DS!ToldWhatIs
  BY DEF DS!Init, DsSent, DS!ToldWhatIs, DsConstants, DsFinal
<1> QED BY <1>1, <1>2, <1>3, <1>4, <1>5 DEF DsInv, DsServer

\* Requests stay what they are while the parcel keeps a status that is final and no load they wait for goes.
LEMMA DsStay ==
    ASSUME DsSent, UNCHANGED flights, parcel.status \in DsFinal => parcel'.status = parcel.status,
           \A f \in DS!Flights : flights[f] # None /\ flights[f].load # None => loads'[flights[f].load] # None
    PROVE  DsSent'
<1>1. \A f \in DS!Flights : flights[f] # None => DsFlight(f, flights[f])
  BY DEF DsSent
<1>2. \A f \in DS!Flights : \A b : DsFlight(f, b) /\ (b.load # None => loads'[b.load] # None) => DsFlight(f, b)'
  BY DEF DsFlight
<1>3. \A f \in DS!Flights : flights'[f] # None => DsFlight(f, flights[f])'
  BY <1>1, <1>2
<1> QED BY <1>3 DEF DsSent, DsFlight

\* The server's part stays when none of it changes.
LEMMA DsServerStays ==
    ASSUME DsServer, UNCHANGED <<parcel, delivered, counted, left, limited>>
    PROVE  DsServer'
BY DEF DsServer, DsParcel, DsCount, DS!CollectsAsShown

\* Of an empty load and one that is answered.
LEMMA DsLoaded ==
    ASSUME DsConstants, DsList, NEW l \in Loads, loads' = DS!Loading(l)
    PROVE  loads' \in [Loads -> DsLoads \cup {None}] /\ \A m \in Loads : loads'[m] # None <=> (m = l \/ loads[m] # None)
<1> DEFINE new == [left |-> DS!Lists, rows |-> {}]
<1>1. new \in DsLoads
  BY DEF DsLoads
<1>2. loads' = [loads EXCEPT ![l] = new]
  BY DEF DS!Loading
<1> HIDE DEF new
<1>3. new # None
  BY <1>1 DEF DsConstants
<1> QED BY <1>1, <1>2, <1>3 DEF DsList

\* A load ends, and with it what waited for it.
LEMMA DsReleased ==
    ASSUME DsConstants, DsList, DsSent, NEW l \in Loads, loads' = [loads EXCEPT ![l] = None], flights' = DS!Released(l), UNCHANGED parcel
    PROVE  DsSent' /\ loads' \in [Loads -> DsLoads \cup {None}]
<1>1. loads' \in [Loads -> DsLoads \cup {None}] /\ \A m \in Loads : loads'[m] = IF m = l THEN None ELSE loads[m]
  BY DEF DsList
<1>2. \A f \in DS!Flights : flights'[f] = IF flights[f] # None /\ flights[f].load = l THEN None ELSE flights[f]
  BY DEF DS!Released
<1>3. ASSUME NEW f \in DS!Flights, flights'[f] # None PROVE flights'[f] = flights[f] /\ DsFlight(f, flights[f])'
  <2>1. flights'[f] = flights[f] /\ flights[f] # None /\ flights[f].load # l
    BY <1>2, <1>3
  <2>2. DsFlight(f, flights[f])
    BY <2>1 DEF DsSent
  <2>3. flights[f].load \in Loads \cup {None}
    BY <2>2 DEF DsFlight, DsFlights
  <2>4. \A b : DsFlight(f, b) /\ (b.load # None => loads'[b.load] # None) => DsFlight(f, b)'
    BY DEF DsFlight
  <2>5. \A b : b = flights[f] => DsFlight(f, b)'
    BY <1>1, <2>1, <2>2, <2>3, <2>4 DEF DsFlight
  <2> QED BY <2>1, <2>5
<1> QED BY <1>1, <1>3 DEF DsSent, DS!Released

\* One request changes, and the others stay.
LEMMA DsSentOne ==
    ASSUME DsSent, NEW f \in DS!Flights, NEW b, flights' = [flights EXCEPT ![f] = b], b # None => DsFlight(f, b)',
           parcel.status \in DsFinal => parcel'.status = parcel.status,
           \A g \in DS!Flights : flights[g] # None /\ flights[g].load # None => loads'[flights[g].load] # None
    PROVE  DsSent'
<1>1. \A g \in DS!Flights : \A c : DsFlight(g, c) /\ (c.load # None => loads'[c.load] # None) => DsFlight(g, c)'
  BY DEF DsFlight
<1>2. DOMAIN flights' = DS!Flights /\ \A g \in DS!Flights : flights'[g] = IF g = f THEN b ELSE flights[g]
  BY DEF DsSent
<1>3. \A g \in DS!Flights : flights'[g] # None => \A c : c = flights'[g] => DsFlight(g, c)'
  BY <1>1, <1>2 DEF DsSent
<1> QED BY <1>2, <1>3 DEF DsSent

LEMMA DsKept == ASSUME DsSent PROVE \A g \in DS!Flights : flights[g] # None /\ flights[g].load # None => loads[flights[g].load] # None
BY DEF DsSent, DsFlight

LEMMA DsLists ==
    ASSUME DsConstants, DsInv, NEW l \in Loads,
           \/ DS!LoadOpsData(l) \/ DS!LoadAnswered(l) \/ DS!LoadFails(l)
           \/ \E list \in DS!Lists : DS!ReadList(l, list)
    PROVE  DsInv'
<1>1. UNCHANGED DS!serverVars /\ UNCHANGED DS!pageVars
  BY DEF DS!LoadOpsData, DS!LoadAnswered, DS!LoadFails, DS!ReadList
<1>2. DsServer' /\ DsCard' /\ DS!ToldWhatIs'
  <2>1. DsServer'
    BY <1>1, DsServerStays DEF DsInv, DS!serverVars
  <2>2. DsCard' /\ DS!ToldWhatIs'
    BY <1>1 DEF DsInv, DsCard, DS!ToldWhatIs, DS!serverVars, DS!pageVars
  <2> QED BY <2>1, <2>2
<1>3. CASE DS!LoadOpsData(l)
  <2>1. loads' = DS!Loading(l) /\ UNCHANGED <<shown, flights, parcel>>
    BY <1>1, <1>3 DEF DS!LoadOpsData, DS!serverVars
  <2>2. loads' \in [Loads -> DsLoads \cup {None}] /\ \A m \in Loads : loads'[m] # None <=> (m = l \/ loads[m] # None)
    BY <2>1, DsLoaded DEF DsInv
  <2>3. \A g \in DS!Flights : flights[g] # None /\ flights[g].load # None => loads'[flights[g].load] # None
    BY <2>2, DsKept DEF DsInv, DsSent, DsFlight, DsFlights
  <2>4. DsSent' /\ DsList'
    BY <2>1, <2>2, <2>3, DsStay DEF DsInv, DsList
  <2> QED BY <1>2, <2>4 DEF DsInv
<1>4. CASE DS!LoadAnswered(l) \/ DS!LoadFails(l)
  <2>1. loads[l] # None /\ loads' = [loads EXCEPT ![l] = None] /\ flights' = DS!Released(l) /\ (shown' = shown \/ shown' = loads[l].rows)
    BY <1>4 DEF DS!LoadAnswered, DS!LoadFails
  <2>2. shown' \in SUBSET DsRows
    BY <2>1 DEF DsInv, DsList, DsLoads
  <2>3. DsSent' /\ loads' \in [Loads -> DsLoads \cup {None}]
    BY <1>1, <2>1, DsReleased DEF DsInv, DS!serverVars
  <2> QED BY <1>2, <2>2, <2>3 DEF DsInv, DsList
<1>5. CASE \E list \in DS!Lists : DS!ReadList(l, list)
  <2>1. PICK list \in DS!Lists : DS!ReadList(l, list)
    BY <1>5
  <2> DEFINE rs == IF parcel.status \in list THEN loads[l].rows \cup {DS!Row} ELSE loads[l].rows
             new == [loads[l] EXCEPT !.left = loads[l].left \ {list}, !.rows = rs]
  <2>2. loads[l] \in DsLoads /\ UNCHANGED <<shown, flights, parcel>>
    BY <1>1, <2>1 DEF DS!ReadList, DS!serverVars, DsInv, DsList
  <2>3. parcel.status \in list => DS!Row \in DsRows
    BY <2>1 DEF DS!Row, DsRows, DS!Lists, DsInv, DsServer, DsParcel, DsParcels
  <2>4. new \in DsLoads
    BY <2>2, <2>3 DEF DsLoads
  <2>5. loads' = [loads EXCEPT ![l] = new]
    <3>1. loads' = [loads EXCEPT ![l].left = loads[l].left \ {list}, ![l].rows = rs]
      BY <2>1 DEF DS!ReadList
    <3> QED BY <3>1 DEF DsInv, DsList
  <2> HIDE DEF new
  <2>6. new # None
    BY <2>4 DEF DsConstants
  <2>7. loads' \in [Loads -> DsLoads \cup {None}] /\ \A m \in Loads : loads[m] # None => loads'[m] # None
    BY <2>4, <2>5, <2>6 DEF DsInv, DsList
  <2>8. \A g \in DS!Flights : flights[g] # None /\ flights[g].load # None => loads'[flights[g].load] # None
    BY <2>7, DsKept DEF DsInv, DsSent, DsFlight, DsFlights
  <2>9. DsSent' /\ DsList'
    BY <2>2, <2>7, <2>8, DsStay DEF DsInv, DsList
  <2> QED BY <1>2, <2>9 DEF DsInv
<1> QED BY <1>3, <1>4, <1>5

\* Typing and the dialogs change the card only.
LEMMA DsTypes ==
    ASSUME DsConstants, DsInv,
           \/ (\E typed \in {"right", "wrong"} : DS!TypeOtp(typed)) \/ DS!TypeReceiver \/ DS!EnterRemark \/ DS!CloseDialog
           \/ \E row \in shown : DS!OpenNdrDialog(row) \/ DS!OpenQcFailDialog(row)
    PROVE  DsInv'
<1>1. UNCHANGED <<parcel, delivered, counted, left, limited, shown, loads, flights, told>>
  BY DEF DS!TypeOtp, DS!TypeReceiver, DS!EnterRemark, DS!CloseDialog, DS!OpenNdrDialog, DS!OpenQcFailDialog, DS!OpenDialog, DS!serverVars
<1>2. DsServer' /\ DsList' /\ DsSent' /\ DS!ToldWhatIs'
  <2>1. DsServer'
    BY <1>1, DsServerStays DEF DsInv
  <2>2. DsSent'
    BY <1>1, DsStay, DsKept DEF DsInv
  <2> QED BY <1>1, <2>1, <2>2 DEF DsInv, DsList, DS!ToldWhatIs
<1>3. DsCard'
  <2>1. CASE (\E typed \in {"right", "wrong"} : DS!TypeOtp(typed)) \/ DS!TypeReceiver \/ DS!CloseDialog
    BY <2>1 DEF DsInv, DsCard, DS!TypeOtp, DS!TypeReceiver, DS!CloseDialog, DS!serverVars
  <2>2. CASE DS!EnterRemark
    <3>1. dialog # None /\ dialog' = [dialog EXCEPT !.remark = TRUE] /\ UNCHANGED <<otp, receiver, opened>>
      BY <2>2 DEF DS!EnterRemark, DS!serverVars
    <3>2. dialog' \in DsDialogs /\ dialog'.row = dialog.row
      BY <3>1 DEF DsInv, DsCard, DsDialogs
    <3> QED BY <3>1, <3>2 DEF DsInv, DsCard
  <2>3. CASE \E row \in shown : DS!OpenNdrDialog(row) \/ DS!OpenQcFailDialog(row)
    <3>1. PICK r \in shown : DS!OpenNdrDialog(r) \/ DS!OpenQcFailDialog(r)
      BY <2>3
    <3>2. PICK k \in {"ndr", "qc"} : DS!OpenDialog(k, r)
      BY <3>1 DEF DS!OpenNdrDialog, DS!OpenQcFailDialog
    <3>3. r \in DsRows /\ r.status \in DS!Statuses
      BY DsKinds DEF DsInv, DsList, DsRows
    <3>4. r.status \in DS!ActiveList
      BY <3>1, <3>3, DsTable DEF DS!OpenNdrDialog, DS!OpenQcFailDialog, DS!OffersNdr, DS!OffersQcFail, DS!CanMoveTo
    <3>5. opened < MaxDialogs /\ opened' = opened + 1 /\ UNCHANGED <<otp, receiver>>
          /\ dialog' = [kind |-> k, row |-> r, remark |-> FALSE, intent |-> opened + 1]
      BY <3>2 DEF DS!OpenDialog
    <3>6. opened + 1 \in DS!Dialogs /\ opened' \in 0 .. MaxDialogs
      BY <3>5 DEF DsInv, DsCard, DS!Dialogs, DsConstants
    <3>7. dialog' \in DsDialogs /\ dialog'.row = r
      BY <3>3, <3>5, <3>6 DEF DsDialogs
    <3> QED BY <3>4, <3>5, <3>6, <3>7 DEF DsInv, DsCard
  <2> QED BY <2>1, <2>2, <2>3
<1> QED BY <1>2, <1>3 DEF DsInv

LEMMA DsPresses ==
    ASSUME DsConstants, DsInv,
           \/ DS!SubmitNdrException \/ DS!SubmitQcFail
           \/ \E row \in shown : DS!VerifyPodAndDeliver(row) \/ DS!MarkOutForDelivery(row) \/ \E target \in DS!RtoStatuses : DS!RtoMove(row, target)
    PROVE  DsInv'
<1>1. UNCHANGED DS!serverVars /\ UNCHANGED DS!pageVars /\ UNCHANGED <<shown, loads>>
  BY DEF DS!SubmitNdrException, DS!SubmitQcFail, DS!SubmitDialog, DS!VerifyPodAndDeliver, DS!MarkOutForDelivery, DS!RtoMove, DS!Press
<1>2. \E f \in DS!Flights : \E g, r, i :
        /\ DS!Send(f, g, r, i) /\ r \in DsRows /\ i \in DS!Dialogs \cup {None}
        /\ f = "ops" => g \in DsTargets
        /\ f = "ndr" => g = "EXCEPTION" /\ i \in DS!Dialogs
        /\ f = "qc" => g = "QC_FAILED"
  <2>1. CASE DS!SubmitNdrException \/ DS!SubmitQcFail
    <3>1. dialog \in DsDialogs
      BY <2>1 DEF DS!SubmitNdrException, DS!SubmitQcFail, DsInv, DsCard
    <3>2. dialog.row \in DsRows /\ dialog.intent \in DS!Dialogs /\ dialog.kind \in {"ndr", "qc"}
      BY <3>1 DEF DsDialogs
    <3>3. \/ dialog.kind = "ndr" /\ DS!Send("ndr", "EXCEPTION", dialog.row, dialog.intent)
          \/ dialog.kind = "qc" /\ DS!Send("qc", "QC_FAILED", dialog.row, dialog.intent)
      BY <2>1 DEF DS!SubmitNdrException, DS!SubmitQcFail, DS!SubmitDialog
    <3> QED BY <3>2, <3>3 DEF DS!Flights
  <2>2. CASE \E row \in shown : DS!VerifyPodAndDeliver(row) \/ DS!MarkOutForDelivery(row) \/ \E target \in DS!RtoStatuses : DS!RtoMove(row, target)
    <3>1. PICK r \in shown, g \in DsTargets : DS!Press(g, r)
      BY <2>2 DEF DS!VerifyPodAndDeliver, DS!MarkOutForDelivery, DS!RtoMove, DsTargets
    <3>2. r \in DsRows /\ DS!Send("ops", g, r, None)
      BY <3>1 DEF DsInv, DsList, DS!Press
    <3> QED BY <3>2 DEF DS!Flights
  <2> QED BY <2>1, <2>2
<1>9. PICK f \in DS!Flights : \E g, r, i :
        /\ DS!Send(f, g, r, i) /\ r \in DsRows /\ i \in DS!Dialogs \cup {None}
        /\ f = "ops" => g \in DsTargets
        /\ f = "ndr" => g = "EXCEPTION" /\ i \in DS!Dialogs
        /\ f = "qc" => g = "QC_FAILED"
  BY <1>2
<1>10. PICK g, r, i :
        /\ DS!Send(f, g, r, i) /\ r \in DsRows /\ i \in DS!Dialogs \cup {None}
        /\ f = "ops" => g \in DsTargets
        /\ f = "ndr" => g = "EXCEPTION" /\ i \in DS!Dialogs
        /\ f = "qc" => g = "QC_FAILED"
  BY <1>9
<1> DEFINE b == [target |-> g, intent |-> i, at |-> "sent", done |-> FALSE, load |-> None,
                 otp |-> IF g = "COMPLETED" THEN otp ELSE None, cod |-> IF g = "COMPLETED" THEN r.cod ELSE None]
<1>3. flights' = [flights EXCEPT ![f] = b]
  BY <1>10 DEF DS!Send
<1>4. b \in DsFlights
  <2>1. g \in DsTargets \cup {"EXCEPTION", "QC_FAILED"}
    BY <1>10 DEF DS!Flights
  <2>2. (IF g = "COMPLETED" THEN otp ELSE None) \in {None, "right", "wrong"} /\ (IF g = "COMPLETED" THEN r.cod ELSE None) \in DsCash \cup {None}
    BY <1>10 DEF DsInv, DsCard, DsRows
  <2> QED BY <1>10, <2>1, <2>2 DEF DsFlights
<1>5. b.target = g /\ b.intent = i /\ b.at = "sent" /\ ~b.done /\ b.load = None
  OBVIOUS
<1> HIDE DEF b
<1>6. \A c : c = b => DsFlight(f, c)'
  BY <1>10, <1>4, <1>5 DEF DsFlight
<1>7. DsSent'
  BY <1>1, <1>3, <1>6, DsSentOne, DsKept DEF DsInv, DS!serverVars
<1>8. DsServer'
  BY <1>1, DsServerStays DEF DsInv, DS!serverVars
<1> QED BY <1>1, <1>7, <1>8 DEF DsInv, DsList, DsCard, DS!ToldWhatIs, DS!serverVars, DS!pageVars

LEMMA DsServes ==
    ASSUME DsConstants, DsInv, NEW f \in DS!Flights, NEW a \in BOOLEAN, NEW c \in BOOLEAN, DS!Serve(f, a, c)
    PROVE  DsInv'
<1> DEFINE b == flights[f]
           ok == a /\ DS!Accepted(b)
           at1 == IF ok /\ c THEN "ok" ELSE "failed"
           new == [b EXCEPT !.at = at1, !.done = ok]
<1>1. b # None /\ UNCHANGED DS!pageVars /\ UNCHANGED <<shown, loads>> /\ (IF ok THEN DS!UpdateShipment(b) ELSE UNCHANGED DS!serverVars)
      /\ flights' = [flights EXCEPT ![f].at = at1, ![f].done = ok]
  BY DEF DS!Serve
<1>2. DsFlight(f, b) /\ b \in DsFlights
  BY <1>1 DEF DsInv, DsSent, DsFlight
<1>3. flights' = [flights EXCEPT ![f] = new]
  BY <1>1 DEF DsInv, DsSent
<1>4. ok \in BOOLEAN /\ at1 \in {"ok", "failed"} /\ (at1 = "ok" => ok)
  OBVIOUS
<1>5. DsServer' /\ opened' = opened /\ (parcel.status \in DsFinal => parcel'.status = parcel.status) /\ (ok /\ b.target \in DsFinal => parcel'.status = b.target)
  <2>1. CASE ok
    BY <1>1, <1>2, <2>1, DsUpdates DEF DsInv
  <2>2. CASE ~ok
    BY <1>1, <2>2, DsServerStays DEF DsInv, DS!serverVars
  <2> QED BY <2>1, <2>2
<1> HIDE DEF ok, at1, b
<1>6. new \in DsFlights /\ new.target = b.target /\ new.intent = b.intent /\ new.at = at1 /\ new.done = ok /\ new.load = b.load
  BY <1>2, <1>4 DEF DsFlights
<1> HIDE DEF new
<1>7. \A d : d = new => DsFlight(f, d)'
  BY <1>1, <1>2, <1>4, <1>5, <1>6 DEF DsFlight
<1>8. DsSent'
  BY <1>1, <1>3, <1>5, <1>7, DsSentOne, DsKept DEF DsInv
<1>9. DS!ToldWhatIs'
  BY <1>1, <1>5 DEF DsInv, DS!ToldWhatIs, DS!pageVars, DsFinal
<1> QED BY <1>1, <1>5, <1>8, <1>9 DEF DsInv, DsList, DsCard, DS!pageVars

\* What others do to the parcel leaves what is final, and counts no attempt.
LEMMA DsOthers ==
    ASSUME DsConstants, DsInv, (\E s \in DS!Statuses : DS!OthersMove(s)) \/ DS!EditCod
    PROVE  DsInv'
<1>1. UNCHANGED <<delivered, counted, opened, limited, shown, loads, flights>> /\ UNCHANGED DS!pageVars
  BY DEF DS!OthersMove, DS!EditCod
<1>2. DsParcel' /\ (parcel.status \in DsFinal => parcel'.status = parcel.status) /\ DsCount'
  <2>1. CASE DS!EditCod
    <3>1. parcel' = [parcel EXCEPT !.cod = 1 - parcel.cod] /\ UNCHANGED left
      BY <2>1 DEF DS!EditCod
    <3>2. parcel.cod \in DsCash /\ 1 - parcel.cod \in DsCash
      BY DEF DsInv, DsServer, DsParcel, DsParcels, DsCash
    <3>3. parcel' \in DsParcels /\ parcel'.status = parcel.status /\ parcel'.reason = parcel.reason
      BY <3>1, <3>2 DEF DsInv, DsServer, DsParcel, DsParcels
    <3> QED BY <1>1, <3>1, <3>3 DEF DsInv, DsServer, DsParcel, DsCount
  <2>2. CASE \E s \in DS!Statuses : DS!OthersMove(s)
    <3>1. PICK s \in DS!Statuses : DS!OthersMove(s)
      BY <2>2
    <3>2. /\ s \in DS!Allowed[parcel.status] /\ left' = (left \/ parcel.status = "EXCEPTION")
          /\ parcel' = IF s = "EXCEPTION" THEN [parcel EXCEPT !.status = s, !.held = parcel.status, !.reason = "EWAY_BILL_MISSING"] ELSE DS!Moved(s)
      BY <3>1 DEF DS!OthersMove
    <3>3. parcel \in DsParcels /\ parcel.status \in DS!Statuses
      BY DEF DsInv, DsServer, DsParcel, DsParcels
    <3>4. parcel.status \notin DsFinal
      BY <3>2, DsTable
    <3>5. DsParcel'
      <4>1. CASE s = "EXCEPTION"
        <5>1. "EWAY_BILL_MISSING" \in DS!AllReasons /\ "EWAY_BILL_MISSING" # DS!NoReason
          BY DEF DS!AllReasons, DS!NoReason
        <5>2. parcel' \in DsParcels /\ parcel'.status = "EXCEPTION" /\ parcel'.reason = "EWAY_BILL_MISSING"
          BY <3>2, <3>3, <4>1, <5>1 DEF DsParcels
        <5> QED BY <5>1, <5>2 DEF DsParcel
      <4>2. CASE s # "EXCEPTION"
        BY <3>2, <4>2, DsMoved DEF DsInv, DsServer, DsParcel
      <4> QED BY <4>1, <4>2
    <3>6. DsCount'
      <4>1. left' \in BOOLEAN /\ (~left' => ~left /\ parcel.status # "EXCEPTION")
        BY <3>2 DEF DsInv, DsServer, DsCount
      <4> QED BY <1>1, <4>1 DEF DsInv, DsServer, DsCount
    <3> QED BY <3>4, <3>5, <3>6
  <2> QED BY <2>1, <2>2
<1>3. DsSent'
  BY <1>1, <1>2, DsStay, DsKept DEF DsInv
<1>4. DS!ToldWhatIs'
  BY <1>1, <1>2 DEF DsInv, DS!ToldWhatIs, DS!pageVars, DsFinal
<1>5. DS!CollectsAsShown'
  BY <1>1 DEF DsInv, DsServer, DS!CollectsAsShown
<1> QED BY <1>1, <1>2, <1>3, <1>4, <1>5 DEF DsInv, DsServer, DsList, DsCard, DS!pageVars

\* A move or a dialog is done, and the list is loaded again.
LEMMA DsDone ==
    ASSUME DsConstants, DsInv, NEW l \in Loads, DS!MoveDone(l) \/ DS!AlreadyDone(l) \/ \E f \in DS!Flights : DS!DialogDone(f, l)
    PROVE  DsInv'
<1>1. PICK f \in DS!Flights : DS!Reload(f, l) /\ flights[f] # None /\ told' = flights[f].target
                              /\ (f = "ops" => DS!MoveDone(l) \/ DS!AlreadyDone(l)) /\ (f # "ops" => DS!DialogDone(f, l))
  BY DEF DS!MoveDone, DS!AlreadyDone, DS!DialogDone, DS!Flights
<1>2. UNCHANGED DS!serverVars /\ UNCHANGED shown /\ (dialog' = dialog \/ dialog' = None) /\ (otp' = otp \/ otp' = None) /\ (receiver' = receiver \/ receiver' = None)
  BY <1>1 DEF DS!MoveDone, DS!AlreadyDone, DS!DialogDone, DS!ClearDoorstepInputs
<1> DEFINE b == flights[f]
           new == [b EXCEPT !.at = "loading", !.load = l]
<1>3. loads' = DS!Loading(l) /\ flights' = [flights EXCEPT ![f].at = "loading", ![f].load = l]
  BY <1>1 DEF DS!Reload
<1>4. loads' \in [Loads -> DsLoads \cup {None}] /\ \A m \in Loads : loads'[m] # None <=> (m = l \/ loads[m] # None)
  BY <1>3, DsLoaded DEF DsInv
<1>5. DsFlight(f, b) /\ b \in DsFlights
  BY <1>1 DEF DsInv, DsSent, DsFlight
<1>6. flights' = [flights EXCEPT ![f] = new]
  BY <1>3 DEF DsInv, DsSent
<1>7. b.target \in DsFinal => parcel.status = b.target
  <2>1. CASE f = "ops"
    <3>1. (b.at = "ok") \/ parcel.status = b.target
      BY <1>1, <2>1 DEF DS!MoveDone, DS!AlreadyDone, DS!AlreadyInStatus
    <3> QED BY <1>5, <3>1 DEF DsFlight
  <2>2. CASE f # "ops"
    BY <1>5, <2>2, DsKinds DEF DsFlight, DS!Flights
  <2> QED BY <2>1, <2>2
<1> HIDE DEF b
<1>8. new \in DsFlights /\ new.target = b.target /\ new.intent = b.intent /\ new.at = "loading" /\ new.done = b.done /\ new.load = l
  BY <1>5 DEF DsFlights
<1> HIDE DEF new
<1>9. \A d : d = new => DsFlight(f, d)'
  <2>1. parcel' = parcel
    BY <1>2 DEF DS!serverVars
  <2> QED BY <1>4, <1>5, <1>8, <2>1 DEF DsFlight
<1>10. \A g \in DS!Flights : flights[g] # None /\ flights[g].load # None => loads'[flights[g].load] # None
  BY <1>4, DsKept DEF DsInv, DsSent, DsFlight, DsFlights
<1>11. DsSent'
  BY <1>2, <1>6, <1>9, <1>10, DsSentOne DEF DsInv, DS!serverVars
<1>12. DsServer' /\ DS!ToldWhatIs'
  <2>1. DsServer'
    BY <1>2, DsServerStays DEF DsInv, DS!serverVars
  <2> QED BY <1>1, <1>2, <1>7, <2>1 DEF DS!ToldWhatIs, DsFinal, b, DS!serverVars
<1>13. DsCard' /\ DsList'
  BY <1>2, <1>4 DEF DsInv, DsCard, DsList, DS!serverVars
<1> QED BY <1>11, <1>12, <1>13 DEF DsInv

LEMMA DsFails ==
    ASSUME DsConstants, DsInv, DS!MoveFailed \/ DS!NotDone \/ \E f \in DS!Flights : DS!DialogFailed(f)
    PROVE  DsInv'
<1>1. UNCHANGED DS!serverVars /\ UNCHANGED DS!pageVars /\ UNCHANGED <<shown, loads>>
  BY DEF DS!MoveFailed, DS!NotDone, DS!DialogFailed
<1>2. \E f \in DS!Flights : \E b : flights' = [flights EXCEPT ![f] = b] /\ (b # None => DsFlight(f, b)')
  <2>1. CASE DS!NotDone
    BY <2>1 DEF DS!NotDone, DS!Flights
  <2>2. CASE \E f \in DS!Flights : DS!DialogFailed(f)
    BY <2>2 DEF DS!DialogFailed
  <2>3. CASE DS!MoveFailed
    <3> DEFINE o == flights["ops"]
               new == [o EXCEPT !.at = "asking"]
    <3>1. o # None /\ (flights' = [flights EXCEPT !["ops"] = new] \/ flights' = [flights EXCEPT !["ops"] = None])
      BY <2>3 DEF DS!MoveFailed
    <3>2. "ops" \in DS!Flights
      BY DEF DS!Flights
    <3>3. DsFlight("ops", o) /\ o \in DsFlights
      BY <3>1, <3>2 DEF DsInv, DsSent, DsFlight
    <3> HIDE DEF o
    <3>4. new \in DsFlights /\ new.target = o.target /\ new.intent = o.intent /\ new.at = "asking" /\ new.done = o.done /\ new.load = o.load
      BY <3>3 DEF DsFlights
    <3> HIDE DEF new
    <3>5. \A d : d = new => DsFlight("ops", d)'
      <4>1. parcel' = parcel /\ loads' = loads
        BY <1>1 DEF DS!serverVars
      <4> QED BY <3>3, <3>4, <4>1 DEF DsFlight
    <3> QED BY <3>1, <3>2, <3>5
  <2> QED BY <2>1, <2>2, <2>3
<1>3. DsSent'
  <2>1. PICK f \in DS!Flights : \E b : flights' = [flights EXCEPT ![f] = b] /\ (b # None => DsFlight(f, b)')
    BY <1>2
  <2>2. PICK b : flights' = [flights EXCEPT ![f] = b] /\ (b # None => DsFlight(f, b)')
    BY <2>1
  <2>3. parcel' = parcel /\ loads' = loads
    BY <1>1 DEF DS!serverVars
  <2> QED BY <2>2, <2>3, DsSentOne, DsKept DEF DsInv
<1>4. DsServer'
  BY <1>1, DsServerStays DEF DsInv, DS!serverVars
<1> QED BY <1>1, <1>3, <1>4 DEF DsInv, DsList, DsCard, DS!ToldWhatIs, DS!serverVars, DS!pageVars

LEMMA DsReloads == ASSUME DsConstants, DsInv, DS!ReloadPage PROVE DsInv'
<1>1. UNCHANGED DS!serverVars /\ UNCHANGED <<otp, receiver>> /\ shown' = {} /\ loads' = [l \in Loads |-> None]
      /\ flights' = [f \in DS!Flights |-> None] /\ dialog' = None /\ told' = None
  BY DEF DS!ReloadPage
<1>2. DsServer'
  BY <1>1, DsServerStays DEF DsInv, DS!serverVars
<1>3. DsList' /\ DsCard'
  BY <1>1 DEF DsInv, DsList, DsCard, DS!serverVars
<1>4. DsSent' /\ DS!ToldWhatIs'
  BY <1>1 DEF DsSent, DS!ToldWhatIs, DsConstants, DsFinal
<1> QED BY <1>2, <1>3, <1>4 DEF DsInv

LEMMA DsStep == DsConstants /\ DsInv /\ [DS!Next]_(DS!vars) => DsInv'
<1> SUFFICES ASSUME DsConstants, DsInv, [DS!Next]_(DS!vars) PROVE DsInv'
  OBVIOUS
<1>1. CASE DS!Next
  <2>1. CASE \/ \E l \in Loads : DS!LoadOpsData(l) \/ DS!LoadAnswered(l) \/ DS!LoadFails(l)
             \/ \E l \in Loads, list \in DS!Lists : DS!ReadList(l, list)
    BY <2>1, DsLists
  <2>2. CASE \/ (\E typed \in {"right", "wrong"} : DS!TypeOtp(typed)) \/ DS!TypeReceiver \/ DS!EnterRemark \/ DS!CloseDialog
             \/ \E row \in shown : DS!OpenNdrDialog(row) \/ DS!OpenQcFailDialog(row)
    BY <2>2, DsTypes, Zenon
  <2>3. CASE \/ DS!SubmitNdrException \/ DS!SubmitQcFail
             \/ \E row \in shown : DS!VerifyPodAndDeliver(row) \/ DS!MarkOutForDelivery(row) \/ \E target \in DS!RtoStatuses : DS!RtoMove(row, target)
    BY <2>3, DsPresses, Zenon
  <2>4. CASE \E f \in DS!Flights, reaches, answers \in BOOLEAN : DS!Serve(f, reaches, answers)
    BY <2>4, DsServes, Zenon
  <2>5. CASE (\E s \in DS!Statuses : DS!OthersMove(s)) \/ DS!EditCod
    BY <2>5, DsOthers, Zenon
  <2>6. CASE \/ \E l \in Loads : DS!MoveDone(l) \/ DS!AlreadyDone(l)
             \/ \E l \in Loads : \E f \in DS!Flights : DS!DialogDone(f, l)
    BY <2>6, DsDone
  <2>7. CASE DS!MoveFailed \/ DS!NotDone \/ \E f \in DS!Flights : DS!DialogFailed(f)
    BY <2>7, DsFails, Zenon
  <2> QED BY <1>1, <2>1, <2>2, <2>3, <2>4, <2>5, <2>6, <2>7, DsReloads DEF DS!Next
<1>2. CASE UNCHANGED DS!vars
  <2>1. DsServer'
    BY <1>2, DsServerStays DEF DsInv, DS!vars
  <2>2. DsSent'
    BY <1>2, DsStay, DsKept DEF DsInv, DS!vars
  <2> QED BY <1>2, <2>1, <2>2 DEF DsInv, DsList, DsCard, DS!ToldWhatIs, DS!vars
<1> QED BY <1>1, <1>2

\* However old the rider's list is and whichever answers are lost: the cash the card shows is the cash due, a rider is
\* told of a delivery or a return only when the parcel is there, and a refusal at the door is one attempt for as long
\* as the parcel stays on hold.
THEOREM DoorstepKept ==
    ASSUME DsConstants
    PROVE  DS!Spec => [](DS!TypeOK /\ DS!OncePerIntent /\ DS!ActedAsShown)
<1>1. DS!Init => DsInv
  BY DsInit
<1>2. DsInv /\ [DS!Next]_(DS!vars) => DsInv'
  BY DsStep
<1>3. DsInv => DS!TypeOK /\ DS!OncePerIntent /\ DS!ActedAsShown
  <2> SUFFICES ASSUME DsInv PROVE DS!TypeOK /\ DS!OncePerIntent /\ DS!ActedAsShown
    OBVIOUS
  <2>1. DS!TypeOK
    <3>1. parcel.status \in DS!Statuses /\ parcel.cod \in DS!Cash /\ (parcel.status = "EXCEPTION" <=> parcel.reason # DS!NoReason)
      BY DEF DsInv, DsServer, DsParcel, DsParcels, DsCash, DS!Cash
    <3>2. \A r \in shown : r.status \in DS!ActiveList \cup DS!DoneList /\ r.cod \in DS!Cash
      BY DEF DsInv, DsList, DsRows, DsCash, DS!Cash
    <3> QED BY <3>1, <3>2, DsKept DEF DsInv, DsCard, DS!TypeOK
  <2>2. DS!OncePerIntent
    BY DEF DsInv, DsServer, DsCount, DS!OncePerIntent, DS!NdrCountedOnce
  <2> QED BY <2>1, <2>2 DEF DsInv, DsServer, DS!ActedAsShown
<1> QED BY <1>1, <1>2, <1>3, PTL DEF DS!Spec

\* The OTP and the receiver's name go only when the parcel has made the move they were typed for.
THEOREM DoorstepTypingKept ==
    ASSUME DsConstants
    PROVE  DS!Spec => [][DS!KeepsTyping]_(DS!vars)
<1>1. DS!Init => DsInv
  BY DsInit
<1>2. DsInv /\ [DS!Next]_(DS!vars) => DsInv'
  BY DsStep
<1>3. DsInv /\ [DS!Next]_(DS!vars) => [DS!KeepsTyping]_(DS!vars)
  <2> SUFFICES ASSUME DsConstants, DsInv, DS!Next, (otp # None /\ otp' = None) \/ (receiver # None /\ receiver' = None)
               PROVE  flights["ops"] # None /\ (flights["ops"].done \/ parcel.status = flights["ops"].target)
    BY DEF DS!KeepsTyping
  <2>1. \E l \in Loads : DS!MoveDone(l) \/ DS!AlreadyDone(l)
    <3>1. otp' # otp \/ receiver' # receiver
      OBVIOUS
    <3>2. ~DS!TypeReceiver /\ \A typed \in {"right", "wrong"} : ~DS!TypeOtp(typed)
      BY DEF DS!TypeReceiver, DS!TypeOtp, DsConstants
    <3> QED BY <3>1, <3>2 DEF DS!Next, DS!LoadOpsData, DS!LoadAnswered, DS!LoadFails, DS!ReadList, DS!EnterRemark, DS!CloseDialog,
          DS!SubmitNdrException, DS!SubmitQcFail, DS!SubmitDialog, DS!VerifyPodAndDeliver, DS!MarkOutForDelivery, DS!RtoMove, DS!Press,
          DS!OpenNdrDialog, DS!OpenQcFailDialog, DS!OpenDialog, DS!Serve, DS!OthersMove, DS!EditCod, DS!MoveFailed, DS!NotDone,
          DS!ReloadPage, DS!DialogFailed, DS!DialogDone, DS!pageVars
  <2>2. flights["ops"] # None /\ (flights["ops"].at = "ok" \/ parcel.status = flights["ops"].target)
    BY <2>1 DEF DS!MoveDone, DS!AlreadyDone, DS!AlreadyInStatus
  <2>3. DsFlight("ops", flights["ops"])
    BY <2>2 DEF DsInv, DsSent, DS!Flights
  <2> QED BY <2>2, <2>3 DEF DsFlight
<1> QED BY <1>1, <1>2, <1>3, PTL DEF DS!Spec

-----------------------------------------------------------------------------
(* Closing a pickup: it is handed over once, with the parcels that were listed *)
(* and ticked, and the pieces of those.                                        *)

CONSTANTS Page, Kinds, Returns
VARIABLES row, typed, measuring, collected, asked
PR == INSTANCE PickupRun

PrEnds == {"PICKED", "NOT_PICKED", "CANCELED"}
PrRows == [status : PR!Open \cup PrEnds, linked : SUBSET Parcels]
PrPieces == [Parcels -> {0, 2}]
PrBodies == [listed : SUBSET Parcels, ticked : SUBSET Parcels, pieces : PrPieces]
PrKinds == {"card", "checklist", "notPicked", "cancel", "out"}
PrDialogs == [kind : PrKinds, id : Nat, row : PrRows, ticked : SUBSET Parcels, pieces : PrPieces, otp : BOOLEAN, checked : BOOLEAN]
PrLoads == [row : PrRows \cup {None}, known : (SUBSET Parcels) \cup {None}, live : BOOLEAN]
PrFlights == [kind : PrKinds, body : PrBodies, at : {"measuring", "sent", "ok", "failed", "loading"}, done : BOOLEAN,
              load : Loads \cup {None}]

PrConstants == Page \in {"ops", "list"} /\ Kinds \subseteq PrKinds /\ None \notin PrLoads

\* What is sent names a parcel, unless the list was empty.
PrNames(body) == body.listed # {} => body.ticked # {}

PrServer ==
    /\ pur \in PrRows
    /\ collected # None => /\ pur.status = "PICKED" /\ collected.times = 1
                           /\ collected.listed # {} => collected.went \subseteq collected.ticked
                           /\ \A p \in Parcels : collected.pieces[p] # 0 => p \in collected.went
PrList ==
    /\ loads \in [Loads -> PrLoads \cup {None}] /\ (row # None => row \in PrRows) /\ typed \in PrPieces
PrDialog ==
    /\ asked \in Nat
    /\ dialog # None => /\ dialog \in PrDialogs /\ dialog.id \in 1..asked
                        /\ dialog.row.status \in PR!Open /\ dialog.ticked \subseteq dialog.row.linked
    /\ \A m \in measuring : m.id \in 1..asked /\ m.body \in PrBodies /\ PrNames(m.body)
PrFlight ==
    /\ DOMAIN flights = PR!Flights /\ flights = [f \in PR!Flights |-> flights[f]]
    /\ \A f \in PR!Flights : flights[f] # None =>
           /\ flights[f] \in PrFlights /\ PrNames(flights[f].body)
           /\ flights[f].at = "ok" => flights[f].done
           /\ flights[f].load # None => loads[flights[f].load] # None
PrInv == PrServer /\ PrList /\ PrDialog /\ PrFlight

LEMMA PrInit == PrConstants /\ PR!Init => PrInv
<1> SUFFICES ASSUME PrConstants, PR!Init PROVE PrInv
  OBVIOUS
<1>1. PrServer
  BY DEF PR!Init, PrServer, PrRows, PR!Open
<1>2. PrList
  BY DEF PR!Init, PrList, PR!Nothing, PrPieces
<1>3. PrDialog /\ PrFlight
  BY DEF PR!Init, PrDialog, PrFlight
<1> QED BY <1>1, <1>2, <1>3 DEF PrInv

\* A list that is asked for makes those under way count for less, and ends none of them.
LEMMA PrStarted ==
    ASSUME PrConstants, PrList, NEW l \in Loads, loads[l] = None, loads' = PR!Started(l)
    PROVE  /\ loads' \in [Loads -> PrLoads \cup {None}] /\ loads'[l] # None
           /\ \A m \in Loads : loads[m] # None => loads'[m] # None
<1> DEFINE first == [row |-> None, known |-> None, live |-> TRUE]
<1>1. first \in PrLoads
  BY DEF PrLoads
<1> HIDE DEF first
<1> DEFINE later == [m \in Loads |-> [loads[m] EXCEPT !.live = FALSE]]
<1>2. \A m \in Loads : loads[m] # None => later[m] \in PrLoads
  <2>1. \A m \in Loads : loads[m] # None => loads[m] \in PrLoads
    BY DEF PrList
  <2>2. \A r \in PrLoads : [r EXCEPT !.live = FALSE] \in PrLoads
    BY DEF PrLoads
  <2> QED BY <2>1, <2>2
<1>3. loads' = [m \in Loads |-> IF m = l THEN first ELSE IF Page = "list" /\ loads[m] # None THEN later[m] ELSE loads[m]]
  BY DEF PR!Started, first
<1> HIDE DEF later
<1>4. \A m \in Loads : \/ m = l /\ loads'[m] = first
                       \/ m # l /\ loads[m] # None /\ loads'[m] = later[m]
                       \/ m # l /\ loads'[m] = loads[m]
  BY <1>3
<1>5. \A m \in Loads : loads'[m] \in PrLoads \/ loads'[m] = loads[m]
  BY <1>1, <1>2, <1>4
<1>6. loads' \in [Loads -> PrLoads \cup {None}]
  BY <1>3, <1>5 DEF PrList
<1>7. None \notin PrLoads
  BY DEF PrConstants
<1> QED BY <1>1, <1>2, <1>4, <1>6, <1>7

LEMMA PrLists ==
    ASSUME PrConstants, PrInv, NEW l \in Loads,
           PR!Load(l) \/ PR!ReadRow(l) \/ PR!ReadShipments(l) \/ PR!LoadAnswered(l) \/ PR!LoadFails(l)
    PROVE  PrInv'
<1>1. UNCHANGED <<pur, collected, typed, dialog, measuring, asked>>
  BY DEF PR!Load, PR!ReadRow, PR!ReadShipments, PR!LoadAnswered, PR!LoadFails, PR!serverVars, PR!pageVars
<1>2. PrServer' /\ PrDialog'
  BY <1>1 DEF PrInv, PrServer, PrDialog
<1>3. CASE PR!Load(l)
  <2>1. loads[l] = None /\ loads' = PR!Started(l) /\ UNCHANGED <<row, flights>>
    BY <1>3 DEF PR!Load, PR!pageVars
  <2>2. loads' \in [Loads -> PrLoads \cup {None}] /\ \A m \in Loads : loads[m] # None => loads'[m] # None
    BY <2>1, PrStarted DEF PrInv
  <2> QED BY <1>1, <1>2, <2>1, <2>2 DEF PrInv, PrList, PrFlight, PrFlights
<1>4. CASE PR!ReadRow(l) \/ PR!ReadShipments(l)
  <2>1. /\ loads[l] # None /\ UNCHANGED <<row, flights>>
        /\ loads' = [loads EXCEPT ![l].row = pur] \/ loads' = [loads EXCEPT ![l].known = Returns \cap pur.linked]
    BY <1>4 DEF PR!ReadRow, PR!ReadShipments, PR!pageVars
  <2>2. loads[l] \in PrLoads /\ pur \in PrRows /\ Returns \cap pur.linked \in SUBSET Parcels
    BY <2>1 DEF PrInv, PrList, PrServer, PrRows
  <2>3. [loads[l] EXCEPT !.row = pur] \in PrLoads /\ [loads[l] EXCEPT !.known = Returns \cap pur.linked] \in PrLoads
    BY <2>2 DEF PrLoads
  <2>4. /\ loads' \in [Loads -> PrLoads \cup {None}] /\ loads'[l] \in PrLoads
        /\ \A m \in Loads : m # l => loads'[m] = loads[m]
    BY <2>1, <2>3 DEF PrInv, PrList
  <2>5. \A m \in Loads : loads[m] # None => loads'[m] # None
    BY <2>4 DEF PrConstants
  <2> QED BY <1>1, <1>2, <2>1, <2>4, <2>5 DEF PrInv, PrList, PrFlight, PrFlights
<1>5. CASE PR!LoadAnswered(l) \/ PR!LoadFails(l)
  <2>1. /\ loads[l] # None /\ loads' = [loads EXCEPT ![l] = None] /\ flights' = PR!Released(l)
        /\ row' = row \/ (row' = loads[l].row /\ row' # None)
    BY <1>5 DEF PR!LoadAnswered, PR!LoadFails, PR!pageVars
  <2>2. /\ loads' \in [Loads -> PrLoads \cup {None}] /\ \A m \in Loads : m # l => loads'[m] = loads[m]
        /\ row' # None => row' \in PrRows
    BY <2>1 DEF PrInv, PrList, PrLoads
  <2>3. /\ DOMAIN flights' = PR!Flights /\ flights' = [f \in PR!Flights |-> flights'[f]]
        /\ \A f \in PR!Flights : flights'[f] = None \/ (flights'[f] = flights[f] /\ (flights[f] # None => flights[f].load # l))
    BY <2>1 DEF PR!Released
  <2>4. \A f \in PR!Flights : flights[f] # None => flights[f].load \in Loads \cup {None}
    BY DEF PrInv, PrFlight, PrFlights
  <2>5. PrFlight'
    BY <2>2, <2>3, <2>4 DEF PrInv, PrFlight
  <2> QED BY <1>1, <1>2, <2>2, <2>5 DEF PrInv, PrList
<1> QED BY <1>3, <1>4, <1>5

\* What is done in a dialog or on its card keeps its ticks among the parcels it lists.
LEMMA PrTyped ==
    ASSUME PrConstants, PrInv,
           \/ \E p \in Parcels : PR!TypePieces(p) \/ PR!Tick(p) \/ PR!EnterPieces(p)
           \/ \E kind \in Kinds : PR!OpenDialog(kind)
           \/ PR!EnterOtp \/ PR!ConfirmQc \/ PR!CloseDialog
    PROVE  PrInv'
<1>1. UNCHANGED <<pur, collected, row, loads, measuring, flights>>
  BY DEF PR!TypePieces, PR!Tick, PR!EnterPieces, PR!OpenDialog, PR!EnterOtp, PR!ConfirmQc, PR!CloseDialog, PR!InDialog,
     PR!serverVars, PR!pageVars
<1>2. PrServer' /\ PrFlight'
  BY <1>1 DEF PrInv, PrServer, PrFlight
<1>3. \A f \in PrPieces, p \in Parcels : [f EXCEPT ![p] = 2 - f[p]] \in PrPieces /\ [f EXCEPT ![p] = 0] \in PrPieces
  BY DEF PrPieces
<1>4. PrList'
  <2>1. typed' = typed \/ \E p \in Parcels : typed' = [typed EXCEPT ![p] = 2 - typed[p]]
    BY DEF PR!TypePieces, PR!Tick, PR!EnterPieces, PR!OpenDialog, PR!EnterOtp, PR!ConfirmQc, PR!CloseDialog, PR!InDialog, PR!pageVars
  <2> QED BY <1>1, <1>3, <2>1 DEF PrInv, PrList
<1>5. PrDialog'
  <2>1. ASSUME NEW p \in Parcels, PR!TypePieces(p) PROVE PrDialog'
    BY <2>1 DEF PR!TypePieces, PrInv, PrDialog
  <2>2. ASSUME NEW p \in Parcels, PR!Tick(p) PROVE PrDialog'
    <3>1. /\ dialog \in PrDialogs /\ p \in dialog.row.linked /\ UNCHANGED <<measuring, asked>>
          /\ \/ dialog' = [dialog EXCEPT !.ticked = dialog.ticked \ {p}, !.pieces[p] = 0]
             \/ dialog' = [dialog EXCEPT !.ticked = dialog.ticked \cup {p}]
      BY <2>2 DEF PR!Tick, PR!InDialog, PrInv, PrDialog
    <3>2. \/ dialog' = [dialog EXCEPT !.ticked = dialog.ticked \ {p}, !.pieces = [dialog.pieces EXCEPT ![p] = 0]]
          \/ dialog' = [dialog EXCEPT !.ticked = dialog.ticked \cup {p}]
      BY <3>1 DEF PrDialogs
    <3>3. [dialog.pieces EXCEPT ![p] = 0] \in PrPieces
      BY <1>3, <3>1 DEF PrDialogs
    <3>4. /\ dialog' \in PrDialogs /\ dialog'.id = dialog.id /\ dialog'.row = dialog.row
          /\ dialog'.ticked \subseteq dialog.ticked \cup {p}
      BY <3>1, <3>2, <3>3 DEF PrDialogs
    <3> QED BY <2>2, <3>1, <3>4 DEF PR!Tick, PR!InDialog, PrInv, PrDialog
  <2>3. ASSUME NEW p \in Parcels, PR!EnterPieces(p) PROVE PrDialog'
    <3>1. dialog # None /\ dialog \in PrDialogs /\ UNCHANGED <<measuring, asked>>
          /\ dialog' = [dialog EXCEPT !.pieces = [dialog.pieces EXCEPT ![p] = 2 - dialog.pieces[p]]]
      BY <2>3 DEF PR!EnterPieces, PR!InDialog, PrInv, PrDialog, PrDialogs
    <3>2. [dialog.pieces EXCEPT ![p] = 2 - dialog.pieces[p]] \in PrPieces
      BY <1>3, <3>1 DEF PrDialogs
    <3>3. dialog' \in PrDialogs /\ dialog'.id = dialog.id /\ dialog'.row = dialog.row /\ dialog'.ticked = dialog.ticked
      BY <3>1, <3>2 DEF PrDialogs
    <3> QED BY <3>1, <3>3 DEF PrInv, PrDialog
  <2>4. ASSUME NEW kind \in Kinds, PR!OpenDialog(kind) PROVE PrDialog'
    <3> DEFINE unfolded == [kind |-> kind, id |-> asked + 1, row |-> row, ticked |-> row.linked, pieces |-> PR!Nothing,
                          otp |-> FALSE, checked |-> FALSE]
    <3>1. asked' = asked + 1 /\ dialog' = unfolded /\ row \in PrRows /\ row.status \in PR!Open /\ measuring' = measuring
      BY <2>4 DEF PR!OpenDialog, PR!Shown, PrInv, PrList
    <3>2. PR!Nothing \in PrPieces
      BY DEF PR!Nothing, PrPieces
    <3>3. unfolded \in PrDialogs /\ unfolded.id = asked + 1 /\ unfolded.row = row /\ unfolded.ticked = row.linked
      BY <3>1, <3>2 DEF PrDialogs, PrRows, PrConstants, PrInv, PrDialog
    <3> HIDE DEF unfolded
    <3> QED BY <3>1, <3>3 DEF PrInv, PrDialog
  <2>5. ASSUME PR!EnterOtp \/ PR!ConfirmQc PROVE PrDialog'
    <3>1. dialog # None /\ dialog \in PrDialogs /\ UNCHANGED <<measuring, asked>>
          /\ (dialog' = [dialog EXCEPT !.otp = TRUE] \/ dialog' = [dialog EXCEPT !.checked = ~dialog.checked])
      BY <2>5 DEF PR!EnterOtp, PR!ConfirmQc, PR!InDialog, PrInv, PrDialog
    <3>2. (~dialog.checked) \in BOOLEAN
      OBVIOUS
    <3>3. dialog' \in PrDialogs /\ dialog'.id = dialog.id /\ dialog'.row = dialog.row /\ dialog'.ticked = dialog.ticked
      BY <3>1, <3>2 DEF PrDialogs
    <3> QED BY <3>1, <3>3 DEF PrInv, PrDialog
  <2>6. CASE PR!CloseDialog
    BY <2>6 DEF PR!CloseDialog, PR!InDialog, PrInv, PrDialog
  <2> QED BY <2>1, <2>2, <2>3, <2>4, <2>5, <2>6
<1> QED BY <1>2, <1>4, <1>5 DEF PrInv

\* A request that is sent is the one flight of its kind, and names a parcel.
LEMMA PrSent ==
    ASSUME PrConstants, PrFlight, NEW kind \in PrKinds, NEW body \in PrBodies, PrNames(body), NEW at \in {"measuring", "sent"},
           PR!Sent(kind, body, at), UNCHANGED loads
    PROVE  PrFlight'
<1> DEFINE f == PR!FlightOf(kind)
           sent == [kind |-> kind, body |-> body, at |-> at, done |-> FALSE, load |-> None]
<1>1. f \in PR!Flights
  <2>1. CASE Page = "list"
    <3>1. f = "dialog"
      BY <2>1 DEF PR!FlightOf
    <3> QED BY <2>1, <3>1 DEF PR!Flights
  <2>2. CASE Page = "ops"
    <3>1. PR!FlightOf(kind) \in {"ops", "dispatch", "notPicked"}
      BY <2>2 DEF PR!FlightOf, PrKinds
    <3> QED BY <2>2, <3>1 DEF PR!Flights
  <2> QED BY <2>1, <2>2 DEF PrConstants
<1>2. sent \in PrFlights /\ sent.body = body /\ sent.at # "ok" /\ sent.load = None
  BY DEF PrFlights
<1>3. flights' = [flights EXCEPT ![f] = sent]
  BY DEF PR!Sent
<1> HIDE DEF f, sent
<1>4. /\ DOMAIN flights' = PR!Flights /\ flights' = [g \in PR!Flights |-> flights'[g]]
      /\ \A g \in PR!Flights : flights'[g] = IF g = f THEN sent ELSE flights[g]
  BY <1>1, <1>3 DEF PrFlight
<1> QED BY <1>2, <1>4 DEF PrFlight

LEMMA PrSubmits ==
    ASSUME PrConstants, PrInv,
           \/ PR!MarkOutForPickup \/ PR!SubmitPickupConfirm \/ PR!SubmitChecklist \/ PR!SubmitOther \/ PR!CardMeasured
           \/ \E m \in measuring : PR!ChecklistMeasured(m)
    PROVE  PrInv'
<1>1. UNCHANGED <<pur, collected, row, typed, loads, dialog, asked>>
  BY DEF PR!MarkOutForPickup, PR!SubmitPickupConfirm, PR!SubmitChecklist, PR!SubmitOther, PR!CardMeasured, PR!ChecklistMeasured,
     PR!serverVars, PR!pageVars
<1>2. PrServer' /\ PrList'
  BY <1>1 DEF PrInv, PrServer, PrList
<1>3. PR!Body({}, {}, PR!Nothing) \in PrBodies /\ PrNames(PR!Body({}, {}, PR!Nothing))
  BY DEF PR!Body, PR!Nothing, PrBodies, PrNames, PrPieces
<1>4. PrDialog'
  <2>1. CASE PR!SubmitChecklist
    <3> DEFINE body == PR!Body(dialog.row.linked, dialog.ticked, dialog.pieces)
    <3>1. /\ dialog # None /\ dialog \in PrDialogs /\ dialog.id \in 1..asked
          /\ measuring' = measuring \cup {[id |-> dialog.id, body |-> body]}
          /\ dialog.row.linked # {} => dialog.ticked # {}
      BY <2>1 DEF PR!SubmitChecklist, PrInv, PrDialog
    <3>2. body \in PrBodies /\ PrNames(body)
      BY <3>1 DEF PR!Body, PrDialogs, PrRows, PrBodies, PrNames
    <3> HIDE DEF body
    <3> QED BY <1>1, <3>1, <3>2 DEF PrInv, PrDialog
  <2>2. CASE measuring' \subseteq measuring
    BY <1>1, <2>2 DEF PrInv, PrDialog
  <2> QED BY <2>1, <2>2 DEF PR!MarkOutForPickup, PR!SubmitPickupConfirm, PR!SubmitOther, PR!CardMeasured, PR!ChecklistMeasured
<1>5. PrFlight'
  <2>1. CASE flights' = flights
    BY <1>1, <2>1 DEF PrInv, PrFlight
  <2>2. CASE PR!MarkOutForPickup
    <3>1. PR!Sent("out", PR!Body({}, {}, PR!Nothing), "sent") /\ "out" \in PrKinds
      BY <2>2 DEF PR!MarkOutForPickup, PrKinds
    <3> QED BY <1>1, <1>3, <3>1, PrSent DEF PrInv
  <2>3. CASE PR!SubmitPickupConfirm
    <3> DEFINE tally == [p \in Parcels |-> IF p \in dialog.row.linked THEN typed[p] ELSE 0]
               body == PR!Body(dialog.row.linked, dialog.row.linked, tally)
    <3>1. dialog \in PrDialogs /\ PR!Sent("card", body, "measuring") /\ "card" \in PrKinds
      BY <2>3 DEF PR!SubmitPickupConfirm, PrInv, PrDialog, PrKinds
    <3>2. tally \in PrPieces
      BY DEF PrInv, PrList, PrPieces
    <3> HIDE DEF tally
    <3>3. body \in PrBodies /\ PrNames(body)
      BY <3>1, <3>2 DEF PR!Body, PrDialogs, PrRows, PrBodies, PrNames
    <3> QED BY <1>1, <3>1, <3>3, PrSent DEF PrInv
  <2>4. CASE PR!SubmitOther
    <3>1. PR!Sent(dialog.kind, PR!Body({}, {}, PR!Nothing), "sent") /\ dialog.kind \in PrKinds
      BY <2>4 DEF PR!SubmitOther, PrKinds
    <3> QED BY <1>1, <1>3, <3>1, PrSent DEF PrInv
  <2>5. ASSUME NEW m \in measuring, PR!ChecklistMeasured(m), flights' # flights PROVE PrFlight'
    <3>1. PR!Sent("checklist", m.body, "sent") /\ "checklist" \in PrKinds /\ m.body \in PrBodies /\ PrNames(m.body)
      BY <2>5 DEF PR!ChecklistMeasured, PrKinds, PrInv, PrDialog
    <3> QED BY <1>1, <3>1, PrSent DEF PrInv
  <2>6. CASE PR!CardMeasured
    <3>1. PICK at \in {"sent", "failed"} : flights' = [flights EXCEPT !["ops"].at = at]
      BY <2>6 DEF PR!CardMeasured
    <3>2. "ops" \in PR!Flights /\ flights["ops"] # None
      BY <2>6 DEF PR!CardMeasured, PR!Flights
    <3>3. flights["ops"] \in PrFlights
      BY <3>2 DEF PrInv, PrFlight
    <3>4. /\ [flights["ops"] EXCEPT !.at = at] \in PrFlights
          /\ [flights["ops"] EXCEPT !.at = at].at = at /\ [flights["ops"] EXCEPT !.at = at].body = flights["ops"].body
          /\ [flights["ops"] EXCEPT !.at = at].load = flights["ops"].load
      BY <3>3 DEF PrFlights
    <3>5. /\ DOMAIN flights' = PR!Flights /\ flights' = [g \in PR!Flights |-> flights'[g]]
          /\ flights'["ops"] = [flights["ops"] EXCEPT !.at = at]
          /\ \A g \in PR!Flights : g # "ops" => flights'[g] = flights[g]
      BY <3>1, <3>2 DEF PrInv, PrFlight
    <3>6. /\ PrNames(flights["ops"].body) /\ at # "ok"
          /\ (flights["ops"].load # None => loads'[flights["ops"].load] # None)
      BY <1>1, <3>2 DEF PrInv, PrFlight
    <3>7. \A g \in PR!Flights : g # "ops" /\ flights[g] # None =>
             /\ flights[g] \in PrFlights /\ PrNames(flights[g].body) /\ (flights[g].at = "ok" => flights[g].done)
             /\ (flights[g].load # None => loads'[flights[g].load] # None)
      BY <1>1 DEF PrInv, PrFlight
    <3>8. /\ flights'["ops"] \in PrFlights /\ flights'["ops"].at = at /\ flights'["ops"].body = flights["ops"].body
          /\ flights'["ops"].load = flights["ops"].load
      BY <3>4, <3>5
    <3> QED BY <3>5, <3>6, <3>7, <3>8 DEF PrFlight
  <2> QED BY <2>1, <2>2, <2>3, <2>4, <2>5, <2>6 DEF PR!SubmitChecklist
<1> QED BY <1>2, <1>4, <1>5 DEF PrInv

\* The server hands a pickup over while it is open, and so only once.
LEMMA PrServe ==
    ASSUME PrConstants, PrInv, NEW f \in PR!Flights, NEW a \in BOOLEAN, NEW b \in BOOLEAN, PR!Serve(f, a, b)
    PROVE  PrInv'
<1>1. UNCHANGED <<row, typed, loads, dialog, measuring, asked>>
  BY DEF PR!Serve, PR!pageVars
<1>2. flights[f] # None /\ flights[f].at = "sent" /\ flights[f] \in PrFlights /\ PrNames(flights[f].body)
  BY DEF PR!Serve, PrInv, PrFlight
<1> DEFINE kind == flights[f].kind
           body == flights[f].body
           done == a /\ PR!Accepted(kind, body)
           served == [flights[f] EXCEPT !.at = IF done /\ b THEN "ok" ELSE "failed", !.done = done]
<1>3. body \in PrBodies /\ kind \in PrKinds /\ done \in BOOLEAN
  <2>1. done \in BOOLEAN
    OBVIOUS
  <2> HIDE DEF done
  <2> QED BY <1>2, <2>1 DEF PrFlights
<1>4. /\ flights' = [flights EXCEPT ![f].at = IF done /\ b THEN "ok" ELSE "failed", ![f].done = done]
      /\ CASE done /\ kind \in {"card", "checklist"} -> PR!Dispatch(body)
           [] done /\ kind \in {"notPicked", "cancel"} ->
                 pur' = [status |-> PR!Outcome[kind], linked |-> {}] /\ UNCHANGED collected
           [] done /\ kind = "out" -> pur' = [pur EXCEPT !.status = PR!Outcome[kind]] /\ UNCHANGED collected
           [] OTHER -> UNCHANGED <<pur, collected>>
  BY DEF PR!Serve
<1>5. PrServer'
  <2>1. \/ UNCHANGED <<pur, collected>>
        \/ done /\ kind \in {"card", "checklist"} /\ PR!Dispatch(body)
        \/ done /\ kind \in {"notPicked", "cancel", "out"} /\ UNCHANGED collected
           /\ (pur' = [status |-> PR!Outcome[kind], linked |-> {}] \/ pur' = [pur EXCEPT !.status = PR!Outcome[kind]])
    <3> HIDE DEF done, kind, body
    <3> QED BY <1>4
  <2>2. CASE UNCHANGED <<pur, collected>>
    BY <2>2 DEF PrInv, PrServer
  <2>3. CASE done /\ kind \in {"card", "checklist"} /\ PR!Dispatch(body)
    <3>1. pur.status \in PR!Open /\ \A p \in Parcels : body.pieces[p] # 0 => p \in PR!Went(body)
      BY <2>3 DEF PR!Accepted
    <3>2. collected = None
      BY <3>1 DEF PrInv, PrServer, PR!Open
    <3>3. /\ pur' = [status |-> "PICKED", linked |-> PR!Went(body)]
          /\ collected' = [listed |-> body.listed, ticked |-> body.ticked, pieces |-> body.pieces, went |-> PR!Went(body), times |-> 1]
      BY <2>3, <3>2 DEF PR!Dispatch
    <3>4. PR!Went(body) \subseteq Parcels /\ (body.ticked # {} => PR!Went(body) \subseteq body.ticked)
      BY <1>3 DEF PR!Went, PrBodies, PrInv, PrServer, PrRows
    <3>5. /\ collected'.times = 1 /\ collected'.listed = body.listed /\ collected'.ticked = body.ticked
          /\ collected'.pieces = body.pieces /\ collected'.went = PR!Went(body)
      BY <3>3
    <3>6. pur' \in PrRows /\ pur'.status = "PICKED"
      BY <3>3, <3>4 DEF PrRows, PrEnds
    <3>7. body.listed # {} => body.ticked # {}
      BY <1>2 DEF PrNames
    <3> HIDE DEF body
    <3> QED BY <3>1, <3>4, <3>5, <3>6, <3>7 DEF PrServer
  <2>4. CASE /\ done /\ kind \in {"notPicked", "cancel", "out"} /\ UNCHANGED collected
             /\ (pur' = [status |-> PR!Outcome[kind], linked |-> {}] \/ pur' = [pur EXCEPT !.status = PR!Outcome[kind]])
    <3>1. pur.status \in PR!Open
      BY <2>4 DEF PR!Accepted, PR!Open
    <3>2. collected = None
      BY <3>1 DEF PrInv, PrServer, PR!Open
    <3>3. PR!Outcome[kind] \in PR!Open \cup PrEnds
      BY <2>4 DEF PR!Outcome, PR!Open, PrEnds
    <3>4. pur' \in PrRows
      BY <2>4, <3>3 DEF PrInv, PrServer, PrRows
    <3> QED BY <2>4, <3>2, <3>4 DEF PrServer
  <2> QED BY <2>1, <2>2, <2>3, <2>4
<1>6. /\ served \in PrFlights /\ served.body = body /\ served.load = flights[f].load
      /\ served.at = "ok" => served.done
  <2> HIDE DEF done
  <2> QED BY <1>2, <1>3 DEF PrFlights
<1>7. flights' = [flights EXCEPT ![f] = served]
  <2> HIDE DEF done
  <2>1. flights' = [flights EXCEPT ![f].at = IF done /\ b THEN "ok" ELSE "failed", ![f].done = done]
    BY <1>4
  <2> QED BY <1>2, <2>1 DEF PrInv, PrFlight, PrFlights
<1>8. PrFlight'
  <2> HIDE DEF served, body, kind
  <2>1. /\ DOMAIN flights' = PR!Flights /\ flights' = [g \in PR!Flights |-> flights'[g]]
        /\ \A g \in PR!Flights : flights'[g] = IF g = f THEN served ELSE flights[g]
    BY <1>7 DEF PrInv, PrFlight
  <2>2. PrNames(body)
    BY <1>2 DEF body
  <2> QED BY <1>1, <1>2, <1>6, <2>1, <2>2 DEF PrInv, PrFlight, PrNames
<1> QED BY <1>1, <1>5, <1>8 DEF PrInv, PrList, PrDialog

\* The answers: the page is read again, or the dialog stays.
LEMMA PrAnswers ==
    ASSUME PrConstants, PrInv, NEW f \in PR!Flights, PR!Failed(f) \/ \E l \in Loads : PR!Done(f, l)
    PROVE  PrInv'
<1>1. UNCHANGED <<pur, collected, row, typed, measuring, asked>> /\ flights[f] # None /\ flights[f] \in PrFlights
  BY DEF PR!Failed, PR!Done, PR!serverVars, PR!pageVars, PrInv, PrFlight
<1>2. PrServer' /\ PrDialog'
  <2>1. dialog' = dialog \/ dialog' = None
    BY DEF PR!Failed, PR!Done, PR!AfterFailure, PR!ClosedBy
  <2> QED BY <1>1, <2>1 DEF PrInv, PrServer, PrDialog
<1>3. CASE PR!Failed(f)
  <2>1. flights' = [flights EXCEPT ![f] = None] /\ loads' = loads
    BY <1>3 DEF PR!Failed
  <2>2. /\ DOMAIN flights' = PR!Flights /\ flights' = [g \in PR!Flights |-> flights'[g]]
        /\ \A g \in PR!Flights : flights'[g] = IF g = f THEN None ELSE flights[g]
    BY <2>1 DEF PrInv, PrFlight
  <2> QED BY <1>1, <1>2, <2>1, <2>2 DEF PrInv, PrList, PrFlight
<1>4. ASSUME NEW l \in Loads, PR!Done(f, l) PROVE PrInv'
  <2>1. loads[l] = None /\ loads' = PR!Started(l)
        /\ flights' = [flights EXCEPT ![f] = IF Page = "ops" THEN [flights[f] EXCEPT !.at = "loading", !.load = l] ELSE None]
    BY <1>4 DEF PR!Done
  <2>2. /\ loads' \in [Loads -> PrLoads \cup {None}] /\ loads'[l] # None
        /\ \A m \in Loads : loads[m] # None => loads'[m] # None
    BY <2>1, PrStarted DEF PrInv
  <2> DEFINE waits == [flights[f] EXCEPT !.at = "loading", !.load = l]
  <2>3. waits \in PrFlights /\ waits.at = "loading" /\ waits.load = l /\ waits.body = flights[f].body
    BY <1>1 DEF PrFlights
  <2> HIDE DEF waits
  <2>4. flights' = [flights EXCEPT ![f] = IF Page = "ops" THEN waits ELSE None]
    BY <2>1 DEF waits
  <2>5. /\ DOMAIN flights' = PR!Flights /\ flights' = [g \in PR!Flights |-> flights'[g]]
        /\ \A g \in PR!Flights : \/ g = f /\ (flights'[g] = waits \/ flights'[g] = None)
                                 \/ g # f /\ flights'[g] = flights[g]
    BY <2>4 DEF PrInv, PrFlight
  <2>6. \A g \in PR!Flights : flights[g] # None /\ flights[g].load # None => loads'[flights[g].load] # None
    <3>1. \A g \in PR!Flights : flights[g] # None => flights[g].load \in Loads \cup {None}
      BY DEF PrInv, PrFlight, PrFlights
    <3> QED BY <2>2, <3>1 DEF PrInv, PrFlight
  <2>7. PrFlight'
    BY <1>1, <2>2, <2>3, <2>5, <2>6 DEF PrInv, PrFlight, PrNames
  <2> QED BY <1>1, <1>2, <2>2, <2>7 DEF PrInv, PrList
<1> QED BY <1>3, <1>4

\* The seller and other staff act on a pickup that is not over.
LEMMA PrOthers ==
    ASSUME PrConstants, PrInv,
           (\E p \in Parcels : PR!SellerAdds(p) \/ PR!SellerTakesBack(p)) \/ PR!SellerCancels \/ PR!SentOut
    PROVE  PrInv'
<1>1. UNCHANGED <<collected, row, typed, loads, dialog, measuring, flights, asked>>
  BY DEF PR!SellerAdds, PR!SellerTakesBack, PR!SellerCancels, PR!SentOut, PR!Others, PR!pageVars
<1>2. pur.status \in PR!Open
  BY DEF PR!SellerAdds, PR!SellerTakesBack, PR!SellerCancels, PR!SentOut, PR!Open
<1>3. pur' \in PrRows
  <2>1. ASSUME NEW p \in Parcels, PR!SellerAdds(p) PROVE pur' \in PrRows
    BY <2>1 DEF PR!SellerAdds, PR!Others, PrInv, PrServer, PrRows
  <2>2. ASSUME NEW p \in Parcels, PR!SellerTakesBack(p) PROVE pur' \in PrRows
    BY <2>2 DEF PR!SellerTakesBack, PR!Others, PrInv, PrServer, PrRows, PR!Open, PrEnds
  <2>3. CASE PR!SellerCancels
    BY <2>3 DEF PR!SellerCancels, PR!Others, PrRows, PrEnds
  <2>4. CASE PR!SentOut
    BY <2>4 DEF PR!SentOut, PR!Others, PrInv, PrServer, PrRows, PR!Open
  <2> QED BY <2>1, <2>2, <2>3, <2>4
<1>4. collected = None
  BY <1>2 DEF PrInv, PrServer, PR!Open
<1> QED BY <1>1, <1>3, <1>4 DEF PrInv, PrServer, PrList, PrDialog, PrFlight

LEMMA PrStep == PrConstants /\ PrInv /\ [PR!Next]_(PR!vars) => PrInv'
<1> SUFFICES ASSUME PrConstants, PrInv, [PR!Next]_(PR!vars) PROVE PrInv'
  OBVIOUS
<1>1. CASE UNCHANGED PR!vars
  BY <1>1 DEF PR!vars, PrInv, PrServer, PrList, PrDialog, PrFlight
<1>2. CASE PR!Next
  BY <1>2, PrLists, PrTyped, PrSubmits, PrServe, PrAnswers, PrOthers DEF PR!Next
<1> QED BY <1>1, <1>2

\* At every moment, on either page and whatever the seller adds, takes back or cancels meanwhile, a
\* pickup was handed over at most once although lost answers make its button be pressed again, the
\* parcels that went are among those listed and ticked unless the list was empty, and pieces are
\* billed of parcels that went.
THEOREM PickedUpOnce ==
    ASSUME PrConstants
    PROVE  PR!Spec => [](PR!TypeOK /\ PR!OncePerIntent /\ PR!ActedAsShown)
<1>1. PrInv => PR!TypeOK
  BY DEF PrInv, PrServer, PrList, PrDialog, PrFlight, PrRows, PrEnds, PR!TypeOK
<1>2. PrInv => PR!OncePerIntent /\ PR!ActedAsShown
  BY DEF PrInv, PrServer, PR!OncePerIntent, PR!HandedOverOnce, PR!ActedAsShown, PR!TickedWent, PR!PiecesOfWhatWent
<1> QED BY <1>1, <1>2, PrInit, PrStep, PTL DEF PR!Spec

\* No answer closes a dialog unless its request was done.
THEOREM PickupTypingKept ==
    ASSUME PrConstants
    PROVE  PR!Spec => [][PR!KeepsTyping]_(PR!vars)
<1>1. PrInv /\ [PR!Next]_(PR!vars) => [PR!KeepsTyping]_(PR!vars)
  <2> SUFFICES ASSUME PrInv, PR!Next, dialog # None, dialog' = None, flights' # flights
               PROVE  \E f \in PR!Flights : flights[f] # None /\ flights[f].done
    BY DEF PR!KeepsTyping
  <2>1. \E f \in PR!Flights : flights[f] # None /\ flights[f].at = "ok"
    BY DEF PR!Next, PR!Load, PR!ReadRow, PR!ReadShipments, PR!LoadAnswered, PR!LoadFails, PR!TypePieces, PR!Tick, PR!EnterPieces,
       PR!SellerAdds, PR!SellerTakesBack, PR!SellerCancels, PR!SentOut, PR!Others, PR!OpenDialog, PR!EnterOtp, PR!ConfirmQc,
       PR!CloseDialog, PR!InDialog, PR!MarkOutForPickup, PR!SubmitPickupConfirm, PR!SubmitChecklist, PR!SubmitOther,
       PR!CardMeasured, PR!ChecklistMeasured, PR!Serve, PR!Failed, PR!Done, PR!AfterFailure
  <2> QED BY <2>1 DEF PrInv, PrFlight
<1> QED BY <1>1, PrInit, PrStep, PTL DEF PR!Spec

-----------------------------------------------------------------------------
(* Booked orders: one that was put on a pickup is not open again; the newest  *)
(* read is of the page chosen, whose cached rows are shown meanwhile.          *)

CONSTANTS PageOf, MaxAdds, MaxTurns
VARIABLES state, linked, pickup, index, rows, rowsOf, failed, ticks, hidden, check, add, dismissed, adds,
    turns
OL == INSTANCE OrdersList

OlLists == UNION {[s -> OL!Statuses] : s \in SUBSET Parcels}
OlReads == [of : OL!Pages \cup {None}, rows : OlLists \cup {None}, live : BOOLEAN, cold : BOOLEAN]

OlConstants == 1 \in OL!Pages /\ None \notin OL!Pages

OlServer ==
    /\ state \in [Parcels -> OL!Statuses]
    /\ \A p \in Parcels : /\ linked[p][1] \in {None, At[p]} /\ linked[p][2] \in Nat /\ linked[p][2] <= 1
                          /\ state[p] = "OPEN" => linked[p][2] = 0
OlTypes ==
    /\ index \in OL!Pages /\ rowsOf \in OL!Pages /\ rows \in OlLists /\ cached \in [OL!Pages -> OlLists \cup {None}]
    /\ loads \in [Loads -> OlReads] /\ \A m \in Loads : loads[m] # OL!Idle => loads[m].of \in OL!Pages
OlNewest ==
    /\ \A m, n \in Loads : loads[m].live /\ loads[n].live => m = n
    /\ \A m \in Loads : loads[m].live => loads[m].of = index /\ (loads[m].cold \/ rowsOf = index)
    /\ failed \/ rowsOf = index \/ \E m \in Loads : loads[m].live
OlList == OlTypes /\ OlNewest
OlTicks == ticks \subseteq Parcels /\ hidden \subseteq Parcels

OlInv == OlServer /\ OlList /\ OlTicks

\* The instance counts as the library does.
LEMMA OlCounts == \A S : OL!Cardinality(S) = Cardinality(S)
BY DEF OL!Cardinality, Cardinality

LEMMA OlLook ==
    /\ \A l \in OlLists : DOMAIN l \subseteq Parcels /\ \A p \in DOMAIN l : l[p] \in OL!Statuses
    /\ \A s \in SUBSET Parcels : \A f \in [s -> OL!Statuses] : f \in OlLists
BY DEF OlLists

\* What the server lists is a list.
LEMMA OlShown ==
    ASSUME OlServer, NEW n
    PROVE  OL!Listed(n) \in OlLists
<1>1. OL!Listed(n) \in [{q \in Parcels : PageOf[q] = n} -> OL!Statuses]
  BY DEF OL!Listed, OlServer
<1> QED BY <1>1, OlLook

LEMMA OlInit == OlConstants /\ OL!Init => OlInv
<1> SUFFICES ASSUME OlConstants, OL!Init PROVE OlInv
  OBVIOUS
<1>1. OlServer
  BY DEF OL!Init, OlServer, OL!Statuses
<1>2. OL!Listed(1) \in OlLists
  BY <1>1, OlShown
<1>3. OL!Idle \in OlReads /\ ~OL!Idle.live
  BY DEF OL!Idle, OlReads
<1>4. loads \in [Loads -> OlReads] /\ \A m \in Loads : loads[m] = OL!Idle /\ ~loads[m].live
  BY <1>3 DEF OL!Init
<1>5. cached \in [OL!Pages -> OlLists \cup {None}]
  BY <1>2 DEF OL!Init
<1>6. index = 1 /\ rowsOf = 1 /\ rows \in OlLists
  BY <1>2 DEF OL!Init
<1> QED BY <1>1, <1>4, <1>5, <1>6 DEF OL!Init, OlInv, OlList, OlTypes, OlNewest, OlTicks, OlConstants

\* A page that is asked for, or read again: its read alone counts.
LEMMA OlFetched ==
    ASSUME OlConstants, OlList, NEW idleLoad \in Loads, NEW n \in OL!Pages, index' = n, OL!Fetch(n, idleLoad),
           cached' = cached, failed' = failed
    PROVE  OlList'
<1> DEFINE first == [of |-> n, rows |-> None, live |-> TRUE, cold |-> cached[n] = None]
<1>1. first \in OlReads /\ first.of = n /\ first.live /\ (first.cold <=> cached[n] = None)
  BY ZenonT(30) DEF OlReads
<1>2. loads' = [m \in Loads |-> IF m = idleLoad THEN first ELSE [loads[m] EXCEPT !.live = FALSE]]
  BY DEF OL!Fetch
<1> HIDE DEF first
<1>3. \A m \in Loads : /\ [loads[m] EXCEPT !.live = FALSE] \in OlReads /\ ~[loads[m] EXCEPT !.live = FALSE].live
                       /\ [loads[m] EXCEPT !.live = FALSE].of = loads[m].of
  BY DEF OlList, OlTypes, OlReads
<1>9. [OL!Idle EXCEPT !.live = FALSE] = OL!Idle
  <2>1. \A r, s \in OlReads : r.of = s.of /\ r.rows = s.rows /\ r.live = s.live /\ r.cold = s.cold => r = s
    BY DEF OlReads
  <2>2. OL!Idle \in OlReads /\ OL!Idle.live = FALSE
    BY DEF OL!Idle, OlReads
  <2> DEFINE still == [OL!Idle EXCEPT !.live = FALSE]
  <2>3. \A r \in OlReads : /\ [r EXCEPT !.live = FALSE] \in OlReads /\ [r EXCEPT !.live = FALSE].live = FALSE
                           /\ [r EXCEPT !.live = FALSE].of = r.of /\ [r EXCEPT !.live = FALSE].rows = r.rows
                           /\ [r EXCEPT !.live = FALSE].cold = r.cold
    BY DEF OlReads
  <2>4. still \in OlReads /\ still.live = FALSE /\ still.of = OL!Idle.of /\ still.rows = OL!Idle.rows /\ still.cold = OL!Idle.cold
    BY <2>2, <2>3
  <2> HIDE DEF still
  <2>5. still = OL!Idle
    BY <2>1, <2>2, <2>4
  <2> QED BY <2>5 DEF still
<1>4. loads' \in [Loads -> OlReads] /\ \A m \in Loads : loads'[m] # OL!Idle => loads'[m].of \in OL!Pages
  BY <1>1, <1>2, <1>3, <1>9 DEF OlList, OlTypes
<1>5. \A m \in Loads : (loads'[m].live <=> m = idleLoad) /\ loads'[idleLoad] = first
  BY <1>1, <1>2, <1>3
<1>6. /\ rows' \in OlLists /\ rowsOf' \in OL!Pages
      /\ cached[n] # None => rowsOf' = n
  BY DEF OL!Fetch, OlList, OlTypes
<1>7. OlTypes'
  BY <1>4, <1>6 DEF OlList, OlTypes
<1>8. OlNewest'
  BY <1>1, <1>5, <1>6 DEF OlNewest
<1> QED BY <1>7, <1>8 DEF OlList

LEMMA OlRead ==
    ASSUME OlConstants, OlInv,
           OL!CacheDropped \/ \E m \in Loads : OL!ReadRows(m) \/ OL!RowsAnswered(m) \/ OL!RowsFail(m)
    PROVE  OlInv'
<1>1. UNCHANGED <<state, linked, ticks, hidden, index>>
  BY DEF OL!CacheDropped, OL!ReadRows, OL!RowsAnswered, OL!RowsFail, OL!serverVars, OL!choiceVars, OL!Kept
<1>2. OL!Idle \in OlReads /\ ~OL!Idle.live
  BY DEF OL!Idle, OlReads
<1>3. OlList'
  <2>1. CASE OL!CacheDropped
    BY <1>1, <2>1 DEF OL!CacheDropped, OlInv, OlList, OlTypes, OlNewest
  <2>2. ASSUME NEW m \in Loads, OL!ReadRows(m) PROVE OlList'
    <3>1. loads' = [loads EXCEPT ![m].rows = OL!Listed(loads[m].of)] /\ loads[m] # OL!Idle
      BY <2>2 DEF OL!ReadRows
    <3>2. OL!Listed(loads[m].of) \in OlLists
      BY OlShown DEF OlInv
    <3>3. /\ loads' \in [Loads -> OlReads]
          /\ \A n \in Loads : /\ loads'[n].live = loads[n].live /\ loads'[n].of = loads[n].of
                              /\ loads'[n].cold = loads[n].cold /\ (n # m => loads'[n] = loads[n])
      BY <3>1, <3>2 DEF OlInv, OlList, OlTypes, OlReads
    <3> QED BY <1>1, <2>2, <3>1, <3>3 DEF OL!ReadRows, OlInv, OlList, OlTypes, OlNewest
  <2>3. ASSUME NEW m \in Loads, OL!RowsAnswered(m) PROVE OlList'
    <3>1. loads[m].rows \in OlLists /\ loads[m].of \in OL!Pages
      BY <2>3 DEF OL!RowsAnswered, OlInv, OlList, OlTypes, OlReads, OL!Idle
    <3>2. loads' \in [Loads -> OlReads] /\ \A n \in Loads : loads'[n] = IF n = m THEN OL!Idle ELSE loads[n]
      BY <1>2, <2>3 DEF OL!RowsAnswered, OlInv, OlList, OlTypes
    <3>3. cached' \in [OL!Pages -> OlLists \cup {None}]
      BY <2>3, <3>1 DEF OL!RowsAnswered, OlInv, OlList, OlTypes
    <3>4. IF loads[m].live THEN rows' = loads[m].rows /\ rowsOf' = loads[m].of /\ failed' = FALSE
          ELSE UNCHANGED <<rows, rowsOf, failed>>
      BY <2>3 DEF OL!RowsAnswered
    <3>5. OlTypes'
      BY <1>1, <3>1, <3>2, <3>3, <3>4 DEF OlInv, OlList, OlTypes
    <3>6. OlNewest'
      BY <1>1, <1>2, <3>1, <3>2, <3>4 DEF OlInv, OlList, OlNewest
    <3> QED BY <3>5, <3>6 DEF OlList
  <2>4. ASSUME NEW m \in Loads, OL!RowsFail(m) PROVE OlList'
    <3>1. loads' \in [Loads -> OlReads] /\ \A n \in Loads : loads'[n] = IF n = m THEN OL!Idle ELSE loads[n]
      BY <1>2, <2>4 DEF OL!RowsFail, OlInv, OlList, OlTypes
    <3>2. UNCHANGED <<rows, rowsOf, cached>> /\ (failed \/ (loads[m].live /\ loads[m].cold) => failed')
      BY <2>4 DEF OL!RowsFail
    <3>3. OlTypes'
      BY <1>1, <3>1, <3>2 DEF OlInv, OlList, OlTypes
    <3>4. OlNewest'
      BY <1>1, <1>2, <3>1, <3>2 DEF OlInv, OlList, OlNewest
    <3> QED BY <3>3, <3>4 DEF OlList
  <2> QED BY <2>1, <2>2, <2>3, <2>4
<1> QED BY <1>1, <1>3 DEF OlInv, OlServer, OlTicks

LEMMA OlTurned ==
    ASSUME OlConstants, OlInv, \E m \in Loads : OL!Added(m) \/ \E n \in OL!Pages : OL!TurnTo(n, m)
    PROVE  OlInv'
<1>1. PICK m \in Loads : OL!Added(m) \/ \E n \in OL!Pages : OL!TurnTo(n, m)
  OBVIOUS
<1>2. CASE OL!Added(m)
  <2>1. OL!Fetch(index, m) /\ index' = index /\ cached' = cached /\ failed' = failed /\ index \in OL!Pages
    BY <1>2 DEF OL!Added, OlInv, OlList, OlTypes
  <2>2. OlList'
    BY <2>1, OlFetched DEF OlInv
  <2> QED BY <1>2, <2>2 DEF OL!Added, OL!serverVars, OlInv, OlServer, OlTicks
<1>3. CASE \E n \in OL!Pages : OL!TurnTo(n, m)
  <2>1. PICK n \in OL!Pages : OL!TurnTo(n, m)
    BY <1>3
  <2>2. OL!Fetch(n, m) /\ index' = n /\ cached' = cached /\ failed' = failed
    BY <2>1 DEF OL!TurnTo
  <2>3. OlList'
    BY <2>2, OlFetched DEF OlInv
  <2> QED BY <2>1, <2>3 DEF OL!TurnTo, OL!serverVars, OL!choiceVars, OlInv, OlServer, OlTicks
<1> QED BY <1>1, <1>2, <1>3

\* The person chooses, checks, and looks at the answer.
LEMMA OlPerson ==
    ASSUME OlConstants, OlInv,
           \/ OL!Clear \/ OL!AddToPickup \/ OL!AddAllOrdersToPickup \/ OL!Candidates \/ OL!CheckFailed \/ OL!CloseDialog
           \/ OL!CreateNew \/ OL!AddToExisting \/ OL!AddFailed \/ OL!Dismiss
           \/ \E p \in Parcels : OL!Toggle(p)
           \/ \E c \in BOOLEAN : OL!ToggleMany(c) \/ OL!ServeCheck(c)
           \/ \E h \in SUBSET Parcels : OL!Filter(h)
    PROVE  OlInv'
<1>1. UNCHANGED <<state, linked, OL!listVars>>
  BY DEF OL!Clear, OL!AddToPickup, OL!AddAllOrdersToPickup, OL!Candidates, OL!CheckFailed, OL!CloseDialog, OL!CreateNew,
     OL!AddToExisting, OL!AddFailed, OL!Dismiss, OL!Toggle, OL!ToggleMany, OL!ServeCheck, OL!Filter, OL!Choose, OL!serverVars
<1>2. OlTicks'
  <2>1. DOMAIN rows \subseteq Parcels
    BY OlLook DEF OlInv, OlList, OlTypes
  <2>2. CASE OL!Clear \/ OL!AddAllOrdersToPickup \/ (\E p \in Parcels : OL!Toggle(p)) \/ (\E c \in BOOLEAN : OL!ToggleMany(c))
             \/ \E h \in SUBSET Parcels : OL!Filter(h)
    BY <2>1, <2>2 DEF OL!Clear, OL!AddAllOrdersToPickup, OL!Toggle, OL!ToggleMany, OL!Filter, OL!Choose, OL!Visible,
       OL!ReadyRows, OlInv, OlTicks
  <2>3. CASE \/ OL!AddToPickup \/ OL!Candidates \/ OL!CheckFailed \/ OL!CloseDialog \/ OL!CreateNew \/ OL!AddToExisting
             \/ OL!AddFailed \/ OL!Dismiss \/ \E c \in BOOLEAN : OL!ServeCheck(c)
    BY <2>3 DEF OL!AddToPickup, OL!Candidates, OL!CheckFailed, OL!CloseDialog, OL!CreateNew, OL!AddToExisting,
       OL!AddFailed, OL!Dismiss, OL!ServeCheck, OL!choiceVars, OlInv, OlTicks
  <2> QED BY <2>2, <2>3
<1> QED BY <1>1, <1>2 DEF OL!listVars, OlInv, OlServer, OlList, OlTypes, OlNewest

\* Only open orders of the pickup's place go on it.
LEMMA OlServed ==
    ASSUME OlConstants, OlInv, OL!OthersDo \/ \E a, b \in BOOLEAN : OL!ServeAdd(a, b)
    PROVE  OlInv'
<1>1. UNCHANGED <<OL!listVars, ticks, hidden>>
  BY DEF OL!OthersDo, OL!ServeAdd, OL!choiceVars
<1>2. CASE OL!OthersDo
  <2>1. linked' = linked /\ state' \in [Parcels -> OL!Statuses] /\ \A p \in Parcels : state'[p] = "OPEN" => state[p] = "OPEN"
    BY <1>2 DEF OL!OthersDo, OlInv, OlServer, OL!Statuses
  <2>2. OlServer'
    BY <2>1 DEF OlInv, OlServer
  <2> QED BY <1>1, <2>2 DEF OL!listVars, OlInv, OlList, OlTypes, OlNewest, OlTicks
<1>3. CASE \E a, b \in BOOLEAN : OL!ServeAdd(a, b)
  <2>1. PICK a, b \in BOOLEAN : OL!ServeAdd(a, b)
    BY <1>3
  <2> DEFINE linkedNow == a /\ pickup[add.pickup] = "SCHEDULED" /\ OL!CanAdd(add.ids, add.pickup)
  <2>2. /\ state' = [p \in Parcels |-> IF linkedNow /\ p \in add.ids THEN "ASSIGNED" ELSE state[p]]
        /\ linked' = [p \in Parcels |-> IF linkedNow /\ p \in add.ids THEN <<add.pickup, linked[p][2] + 1>> ELSE linked[p]]
    BY <2>1 DEF OL!ServeAdd
  <2>3. \A p \in Parcels : linkedNow /\ p \in add.ids => state[p] = "OPEN" /\ At[p] = add.pickup
    BY DEF OL!CanAdd, OL!Linkable
  <2> HIDE DEF linkedNow
  <2>4. \A p \in Parcels :
            \/ state'[p] = state[p] /\ linked'[p] = linked[p]
            \/ state'[p] = "ASSIGNED" /\ linked'[p] = <<At[p], linked[p][2] + 1>> /\ state[p] = "OPEN"
    BY <2>2, <2>3
  <2>5. state' \in [Parcels -> OL!Statuses]
    BY <2>2 DEF OlInv, OlServer, OL!Statuses
  <2>6. ASSUME NEW p \in Parcels
        PROVE  /\ linked'[p][1] \in {None, At[p]} /\ linked'[p][2] \in Nat /\ linked'[p][2] <= 1
               /\ state'[p] = "OPEN" => linked'[p][2] = 0
    BY <2>4 DEF OlInv, OlServer
  <2>7. OlServer'
    BY <2>5, <2>6 DEF OlServer
  <2> QED BY <1>1, <2>7 DEF OL!listVars, OlInv, OlList, OlTypes, OlNewest, OlTicks
<1> QED BY <1>2, <1>3

LEMMA OlNext == OlConstants /\ OlInv /\ [OL!Next]_OL!vars => OlInv'
<1> SUFFICES ASSUME OlConstants, OlInv, [OL!Next]_OL!vars PROVE OlInv'
  OBVIOUS
<1>1. CASE OL!Next
  BY <1>1, OlRead, OlTurned, OlPerson, OlServed DEF OL!Next, OL!OnPage
<1>2. CASE UNCHANGED OL!vars
  BY <1>2 DEF OL!vars, OlInv, OlServer, OlList, OlTypes, OlNewest, OlTicks
<1> QED BY <1>1, <1>2

\* Reads do not touch the ticks; an add that was answered clears them.
LEMMA OlTyping == ASSUME OL!Next PROVE OL!KeepsTyping
BY DEF OL!Next, OL!OnPage, OL!KeepsTyping, OL!CacheDropped, OL!ReadRows, OL!RowsAnswered, OL!RowsFail, OL!Added, OL!TurnTo,
   OL!Clear, OL!AddToPickup, OL!AddAllOrdersToPickup, OL!Candidates, OL!CheckFailed, OL!CloseDialog, OL!CreateNew,
   OL!AddToExisting, OL!AddFailed, OL!Dismiss, OL!Toggle, OL!ToggleMany, OL!ServeCheck, OL!Filter, OL!Choose, OL!OthersDo,
   OL!ServeAdd, OL!Kept, OL!choiceVars, OL!listVars

\* Types; an order is put on a pickup once and of its own place; and the rows are of the page chosen once
\* it has been read.
THEOREM OrdersLinkedOnce ==
    ASSUME OlConstants
    PROVE  OL!Spec => [](OL!TypeOK /\ OL!OncePerIntent /\ OL!ActedAsShown)
<1>1. OL!Init => OlInv
  BY OlInit
<1>2. OlInv /\ [OL!Next]_OL!vars => OlInv'
  BY OlNext
<1>3. OlInv => OL!TypeOK /\ OL!OncePerIntent /\ OL!ActedAsShown
  <2> SUFFICES ASSUME OlInv PROVE OL!TypeOK /\ OL!OncePerIntent /\ OL!ActedAsShown
    OBVIOUS
  <2>1. OL!Cardinality({m \in Loads : loads[m].live}) <= 1
    <3>1. CASE {m \in Loads : loads[m].live} = {}
      BY <3>1, OlCounts, FS_EmptySet
    <3>2. CASE {m \in Loads : loads[m].live} # {}
      <4>1. PICK x : {m \in Loads : loads[m].live} = {x}
        BY <3>2 DEF OlInv, OlList, OlNewest
      <4>2. Cardinality({x}) = 1
        BY FS_Singleton
      <4>3. OL!Cardinality({m \in Loads : loads[m].live}) = Cardinality({x})
        BY <4>1, OlCounts
      <4> QED BY <4>2, <4>3
    <3> QED BY <3>1, <3>2
  <2>2. OL!TypeOK
    BY <2>1, OlLook DEF OlInv, OlServer, OlList, OlTypes, OlTicks, OL!TypeOK
  <2>3. OL!OncePerIntent /\ OL!ActedAsShown
    BY DEF OlInv, OlServer, OlList, OlNewest, OL!OncePerIntent, OL!ActedAsShown
  <2> QED BY <2>2, <2>3
<1> QED BY <1>1, <1>2, <1>3, PTL DEF OL!Spec

\* The ticks are the person's until an add of theirs is answered: no read of rows changes them.
THEOREM OrdersTicksKept == OL!Spec => [][OL!KeepsTyping]_OL!vars
<1>1. [OL!Next]_OL!vars => [OL!KeepsTyping]_OL!vars
  BY OlTyping
<1> QED BY <1>1, PTL DEF OL!Spec
=============================================================================
