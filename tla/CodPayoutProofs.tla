-------------------------- MODULE CodPayoutProofs --------------------------
(***************************************************************************)
(* Proofs about CodPayout for any shipments and requests: rows and locks   *)
(* are well formed, a shipment is REMITTED exactly when it was paid, and,  *)
(* unless shipments are delivered while a settlement runs, the cash of a   *)
(* shipment is paid out at most once.                                      *)
(*                                                                         *)
(* The last one rests on what the locks give: whoever is about to pay a    *)
(* shipment holds its row, and what it read as not yet REMITTED under that *)
(* lock stays so until it commits.                                         *)
(***************************************************************************)
EXTENDS CodPayout, FiniteSetTheorems, TLAPS

RowsOK ==
    /\ delivered \subseteq Shipments /\ remitted \subseteq Shipments /\ balance \in Int
    /\ bank \in [Shipments -> Nat] /\ credits \in [Shipments -> Nat]

Holds(r) ==
    /\ \A s \in req[r].ids \ req[r].todo : shipLock[s] = r
    /\ req[r].op = "settle" => walletLock = r

LocksOK ==
    /\ shipLock \in [Shipments -> Requests \cup {NoRequest}]
    /\ walletLock \in Requests \cup {NoRequest}
    /\ req \in [Requests -> Request]
    /\ \A r \in Requests : Holds(r)

LEMMA TypeParts == TypeOK <=> RowsOK /\ LocksOK
BY DEF TypeOK, RowsOK, LocksOK, Holds

\* A record of a request, field by field.
LEMMA RequestRecord ==
    ASSUME NEW op \in {"none", "settle", "remit", "charge"},
           NEW pc \in {"idle", "rows", "again", "commit"},
           NEW ids \in SUBSET Shipments, NEW todo \in SUBSET Shipments,
           NEW row \in Shipments \cup {NoRow}
    PROVE  [op |-> op, pc |-> pc, ids |-> ids, todo |-> todo, row |-> row] \in Request
BY DEF Request

LEMMA IdleRequest == Idle \in Request
BY DEF Idle, Request

\* The row queued for is a shipment or none.
LEMMA NextRowsType ==
    ASSUME NEW op, NEW todo \in SUBSET Shipments
    PROVE  NextRows(op, todo) \subseteq Shipments \cup {NoRow}
BY DEF NextRows

\* A finished request gives its locks back and nobody else's.
LEMMA FinishedLocks ==
    ASSUME LocksOK, NEW r \in Requests, Finished(r)
    PROVE  LocksOK'
<1>1. req' = [req EXCEPT ![r] = Idle]
  BY DEF Finished
<1>2. req' \in [Requests -> Request]
  BY <1>1, IdleRequest DEF LocksOK
<1>3. shipLock' \in [Shipments -> Requests \cup {NoRequest}]
  BY DEF LocksOK, Finished
<1>4. walletLock' \in Requests \cup {NoRequest}
  BY DEF LocksOK, Finished
<1>5. ASSUME NEW q \in Requests PROVE Holds(q)'
  <2>1. CASE q = r
    BY <2>1, <1>1 DEF Holds, Idle, LocksOK
  <2>2. CASE q # r
    <3>1. req'[q] = req[q]
      BY <2>2, <1>1 DEF LocksOK
    <3>2. req[q] \in Request /\ Holds(q)
      BY DEF LocksOK
    <3>3. ASSUME NEW s \in req'[q].ids \ req'[q].todo PROVE shipLock'[s] = q
      <4>1. s \in Shipments /\ shipLock[s] = q
        BY <3>1, <3>2 DEF Holds, Request
      <4> QED BY <4>1, <2>2 DEF Finished
    <3>4. req'[q].op = "settle" => walletLock' = q
      BY <3>1, <3>2, <2>2 DEF Holds, Finished
    <3> QED BY <3>3, <3>4 DEF Holds
  <2> QED BY <2>1, <2>2
<1> QED BY <1>2, <1>3, <1>4, <1>5 DEF LocksOK

\* A statement that starts to lock holds what it need not lock.
LEMMA LockingLocks ==
    ASSUME LocksOK, NEW r \in Requests, NEW op \in {"settle", "remit", "charge"},
           NEW pc \in {"rows", "again"}, NEW ids \in SUBSET Shipments,
           Locking(r, op, pc, ids), shipLock' = shipLock,
           walletLock' \in Requests \cup {NoRequest},
           op = "settle" => walletLock' = r,
           \A q \in Requests \ {r} : walletLock = q => walletLock' = q
    PROVE  LocksOK'
<1> DEFINE todo == {s \in ids : shipLock[s] # r}
<1>1. PICK row \in NextRows(op, todo) :
          req' = [req EXCEPT ![r] = [op |-> op, pc |-> pc, ids |-> ids, todo |-> todo, row |-> row]]
  BY DEF Locking
<1>2. row \in Shipments \cup {NoRow}
  BY NextRowsType
<1>3. [op |-> op, pc |-> pc, ids |-> ids, todo |-> todo, row |-> row] \in Request
  BY <1>2, RequestRecord
<1>4. req' \in [Requests -> Request]
  BY <1>1, <1>3 DEF LocksOK
<1>5. ASSUME NEW q \in Requests PROVE Holds(q)'
  <2>1. CASE q = r
    <3>1. req'[q] = [op |-> op, pc |-> pc, ids |-> ids, todo |-> todo, row |-> row]
      BY <2>1, <1>1 DEF LocksOK
    <3> QED BY <3>1, <2>1 DEF Holds
  <2>2. CASE q # r
    <3>1. req'[q] = req[q] /\ Holds(q)
      BY <2>2, <1>1 DEF LocksOK
    <3> QED BY <3>1, <2>2 DEF Holds
  <2> QED BY <2>1, <2>2
<1> QED BY <1>4, <1>5 DEF LocksOK

\* Moving a request to another place without touching its rows keeps the locks.
LEMMA MovedLocks ==
    ASSUME LocksOK, NEW r \in Requests, NEW pc \in {"idle", "rows", "again", "commit"},
           req' = [req EXCEPT ![r].pc = pc], shipLock' = shipLock,
           walletLock' \in Requests \cup {NoRequest},
           \A q \in Requests : req[q].op = "settle" => walletLock' = q
    PROVE  LocksOK'
<1>1. req' \in [Requests -> Request]
  BY DEF LocksOK, Request
<1>2. ASSUME NEW q \in Requests PROVE Holds(q)'
  <2>1. req'[q].op = req[q].op /\ req'[q].ids = req[q].ids /\ req'[q].todo = req[q].todo
    BY DEF LocksOK, Request
  <2> QED BY <2>1 DEF LocksOK, Holds
<1> QED BY <1>1, <1>2 DEF LocksOK

LEMMA LockRowLocks ==
    ASSUME LocksOK, NEW r \in Requests, LockRow(r)
    PROVE  LocksOK'
<1> DEFINE s == req[r].row
<1>1. s \in Shipments /\ shipLock[s] = NoRequest /\ shipLock' = [shipLock EXCEPT ![s] = r]
  BY DEF LockRow, LocksOK, Request
<1>2. PICK row \in NextRows(req[r].op, req[r].todo \ {s}) :
          req' = [req EXCEPT ![r].todo = @ \ {s}, ![r].row = row]
  BY DEF LockRow
<1>3. req[r] \in Request
  BY DEF LocksOK
<1>4. req[r].todo \ {s} \in SUBSET Shipments
  BY <1>3 DEF Request
<1>5. row \in Shipments \cup {NoRow}
  BY <1>4, NextRowsType
<1>6. req' \in [Requests -> Request]
  BY <1>2, <1>3, <1>4, <1>5 DEF LocksOK, Request
<1>7. shipLock' \in [Shipments -> Requests \cup {NoRequest}] /\ walletLock' = walletLock
  BY <1>1 DEF LocksOK, LockRow
<1>8. ASSUME NEW q \in Requests PROVE Holds(q)'
  <2>1. req[q] \in Request /\ Holds(q)
    BY DEF LocksOK
  <2>2. req'[q].op = req[q].op /\ req'[q].ids = req[q].ids
    BY <1>2, <1>3, <2>1 DEF LocksOK, Request
  <2>3. CASE q = r
    <3>1. req'[q].todo = req[r].todo \ {s}
      BY <2>3, <1>2, <1>3 DEF LocksOK, Request
    <3>2. \A t \in req'[q].ids \ req'[q].todo : shipLock'[t] = q
      BY <3>1, <2>1, <2>2, <2>3, <1>1 DEF Holds, Request, LocksOK
    <3> QED BY <3>2, <2>1, <2>2, <1>7 DEF Holds
  <2>4. CASE q # r
    <3>1. req'[q] = req[q]
      BY <2>4, <1>2 DEF LocksOK
    <3>2. ASSUME NEW t \in req[q].ids \ req[q].todo PROVE shipLock'[t] = q
      <4>1. t \in Shipments /\ shipLock[t] = q /\ q # NoRequest
        BY <2>1, NoneAssumption DEF Holds, Request
      <4> QED BY <4>1, <1>1 DEF LocksOK
    <3> QED BY <3>1, <3>2, <2>1, <1>7 DEF Holds
  <2> QED BY <2>3, <2>4
<1> QED BY <1>6, <1>7, <1>8 DEF LocksOK

\* What a request does to the rows and the locks of the shipments, one step per action.
LEMMA RequestStep ==
    ASSUME TypeOK, NEW r \in Requests,
           \/ StartSettle(r)
           \/ \E ids \in SUBSET Shipments : StartRemit(r, ids)
           \/ \E s \in Shipments : StartCharge(r, s)
           \/ LockRow(r) \/ Reread(r) \/ SettleCommit(r)
           \/ AcceptRemit(r) \/ RefuseRemit(r) \/ RemitCommit(r)
           \/ ChargeWallet(r) \/ ChargeCommit(r)
           \/ DeadlockVictim(r) \/ Fail(r)
    PROVE  TypeOK'
<1> SUFFICES RowsOK' /\ LocksOK'
  BY DEF TypeOK, RowsOK, LocksOK, Holds
<1>1. RowsOK /\ LocksOK
  BY TypeParts
<1>2. Due \in SUBSET Shipments
  BY <1>1 DEF RowsOK, Due
<1>3. UNCHANGED rows => RowsOK'
  BY <1>1 DEF rows, RowsOK
<1>4. r # NoRequest
  BY NoneAssumption
<1>5. CASE StartSettle(r)
  <2>1. \A q \in Requests \ {r} : walletLock # q
    BY <1>5, NoneAssumption DEF StartSettle
  <2>2. LocksOK'
    BY <1>5, <2>1, <1>1, <1>2, LockingLocks DEF StartSettle
  <2> QED BY <2>2, <1>3, <1>5 DEF StartSettle
<1>6. CASE \E ids \in SUBSET Shipments : StartRemit(r, ids)
  <2>1. PICK ids \in SUBSET Shipments : StartRemit(r, ids)
    BY <1>6
  <2>2. LocksOK'
    BY <2>1, <1>1, LockingLocks DEF StartRemit, LocksOK
  <2> QED BY <2>1, <2>2, <1>3 DEF StartRemit
<1>7. CASE \E s \in Shipments : StartCharge(r, s)
  <2>1. PICK s \in Shipments : StartCharge(r, s)
    BY <1>7
  <2>2. {s} \in SUBSET Shipments
    OBVIOUS
  <2>3. LocksOK'
    BY <2>1, <2>2, <1>1, LockingLocks DEF StartCharge, LocksOK
  <2> QED BY <2>1, <2>3, <1>3 DEF StartCharge
<1>8. CASE LockRow(r)
  BY <1>8, <1>1, <1>3, LockRowLocks DEF LockRow
<1>9. CASE Reread(r)
  <2>1. walletLock = r
    BY <1>9, <1>1 DEF Reread, Locked, LocksOK, Holds
  <2>2. LocksOK'
    BY <1>9, <2>1, <1>1, <1>2, LockingLocks DEF Reread, LocksOK
  <2> QED BY <2>2, <1>9, <1>3 DEF Reread
<1>10. CASE SettleCommit(r)
  <2> DEFINE paid == {s \in req[r].ids : credits[s] = 0}
  <2>1. req[r].ids \subseteq Shipments
    BY <1>1 DEF LocksOK, Request
  <2>2. IsFiniteSet(paid)
    BY <2>1, ShipmentAssumption, FS_Subset
  <2>3. Cardinality(paid) \in Nat
    BY <2>2, FS_CardinalityType
  <2> HIDE DEF paid
  <2>4. balance' = balance + Cash * Cardinality(paid)
    BY <1>10 DEF SettleCommit, paid
  <2>5. balance' \in Int
    BY <2>3, <2>4, <1>1, MoneyAssumption DEF RowsOK
  <2>6. credits' \in [Shipments -> Nat]
    BY <1>10, <1>1 DEF SettleCommit, RowsOK
  <2>7. RowsOK'
    BY <2>5, <2>6, <2>1, <1>10, <1>1 DEF SettleCommit, RowsOK
  <2>8. LocksOK'
    BY <1>10, <1>1, FinishedLocks DEF SettleCommit
  <2> QED BY <2>7, <2>8
<1>11. CASE AcceptRemit(r)
  <2>1. LocksOK'
    BY <1>11, <1>1, MovedLocks DEF AcceptRemit, LocksOK, Holds
  <2> QED BY <2>1, <1>11, <1>3 DEF AcceptRemit
<1>12. CASE RefuseRemit(r)
  BY <1>12, <1>1, <1>3, FinishedLocks DEF RefuseRemit
<1>13. CASE RemitCommit(r)
  <2>1. req[r].ids \subseteq Shipments
    BY <1>1 DEF LocksOK, Request
  <2>2. RowsOK'
    BY <2>1, <1>13, <1>1 DEF RemitCommit, RowsOK
  <2>3. LocksOK'
    BY <1>13, <1>1, FinishedLocks DEF RemitCommit
  <2> QED BY <2>2, <2>3
<1>14. CASE ChargeWallet(r)
  <2>1. \A q \in Requests : req[q].op # "settle"
    BY <1>14, <1>1, NoneAssumption DEF ChargeWallet, LocksOK, Holds
  <2>2. LocksOK'
    BY <2>1, <1>14, <1>1, MovedLocks DEF ChargeWallet
  <2> QED BY <2>2, <1>14, <1>3 DEF ChargeWallet
<1>15. CASE ChargeCommit(r)
  <2>1. RowsOK'
    BY <1>15, <1>1, MoneyAssumption DEF ChargeCommit, RowsOK
  <2>2. LocksOK'
    BY <1>15, <1>1, FinishedLocks DEF ChargeCommit
  <2> QED BY <2>1, <2>2
<1>16. CASE DeadlockVictim(r)
  BY <1>16, <1>1, <1>3, FinishedLocks DEF DeadlockVictim
<1>17. CASE Fail(r)
  BY <1>17, <1>1, <1>3, FinishedLocks DEF Fail
<1> QED BY <1>5, <1>6, <1>7, <1>8, <1>9, <1>10, <1>11, <1>12, <1>13, <1>14, <1>15, <1>16, <1>17

LEMMA TypeInit == Init => TypeOK
BY DEF Init, TypeOK, Idle, Request

LEMMA TypeStep == TypeOK /\ [Next]_vars => TypeOK'
<1> SUFFICES ASSUME TypeOK, [Next]_vars PROVE TypeOK'
  OBVIOUS
<1>1. CASE UNCHANGED vars
  BY <1>1 DEF vars, TypeOK
<1>2. ASSUME NEW s \in Shipments, Deliver(s) PROVE TypeOK'
  BY <1>2 DEF Deliver, TypeOK
<1> QED BY <1>1, <1>2, RequestStep DEF Next

\* Rows and requests stay well formed, whoever is past its locks holds them, and only one
\* settlement at a time works on the merchant's wallet.
THEOREM TypeCorrect == Spec => []TypeOK
BY TypeInit, TypeStep, PTL DEF Spec

\* A payment and the mark REMITTED are always committed together, so the books of
\* settle_cod_to_wallet and create_remittance agree with the shipments.
THEOREM RemittedPaid == Spec => []RemittedIsPaid
<1>1. Init => RemittedIsPaid
  BY DEF Init, RemittedIsPaid
<1>2. TypeOK /\ RemittedIsPaid /\ [Next]_vars => RemittedIsPaid'
  <2> SUFFICES ASSUME TypeOK, RemittedIsPaid, [Next]_vars PROVE RemittedIsPaid'
    OBVIOUS
  <2>1. bank \in [Shipments -> Nat] /\ credits \in [Shipments -> Nat]
    BY DEF TypeOK
  <2>2. ASSUME NEW r \in Requests, SettleCommit(r) PROVE RemittedIsPaid'
    <3> SUFFICES ASSUME NEW s \in Shipments
                 PROVE  (s \in remitted' <=> bank'[s] + credits'[s] > 0)
      BY DEF RemittedIsPaid
    <3>1. bank' = bank /\ remitted' = remitted \cup req[r].ids
      BY <2>2 DEF SettleCommit
    <3>2. CASE s \in req[r].ids
      <4>1. credits'[s] > 0
        BY <3>2, <2>2, <2>1 DEF SettleCommit
      <4> QED BY <4>1, <3>1, <3>2, <2>1, <2>2 DEF SettleCommit
    <3>3. CASE s \notin req[r].ids
      <4>1. credits'[s] = credits[s]
        BY <3>3, <2>2, <2>1 DEF SettleCommit
      <4> QED BY <4>1, <3>1, <3>3 DEF RemittedIsPaid
    <3> QED BY <3>2, <3>3
  <2>3. ASSUME NEW r \in Requests, RemitCommit(r) PROVE RemittedIsPaid'
    BY <2>1, <2>3 DEF RemitCommit, RemittedIsPaid
  <2>4. CASE UNCHANGED <<remitted, bank, credits>>
    BY <2>4 DEF RemittedIsPaid
  <2>5. \/ \E r \in Requests : SettleCommit(r) \/ RemitCommit(r)
        \/ UNCHANGED <<remitted, bank, credits>>
    BY DEF Next, vars, rows, Deliver, StartSettle, StartRemit, StartCharge, LockRow, Reread,
           AcceptRemit, RefuseRemit, ChargeWallet, ChargeCommit, DeadlockVictim, Fail
  <2> QED BY <2>2, <2>3, <2>4, <2>5
<1> QED BY <1>1, <1>2, TypeCorrect, PTL DEF Spec

(*************************** paid at most once *****************************)

\* A payment counts one, and only REMITTED shipments have one.
Counted == \A s \in Shipments : bank[s] + credits[s] = IF s \in remitted THEN 1 ELSE 0

\* What a request in flight may rely on: a settlement past its first read has locked every
\* shipment still due; one past the second read, and a batch about to commit, hold the rows
\* of shipments that nobody has paid.
Reads(r) ==
    /\ req[r].op = "none" => req[r].pc = "idle"
    /\ req[r].op = "settle" /\ req[r].pc = "rows" => Due \subseteq req[r].ids
    /\ req[r].pc = "again" => req[r].op = "settle"
    /\ req[r].pc = "again" \/ (req[r].op = "remit" /\ req[r].pc = "commit") =>
          req[r].todo = {} /\ req[r].ids \cap remitted = {}

PayoutInv ==
    /\ TypeOK
    /\ ~LateDeliveries
    /\ Counted
    /\ \A r \in Requests : Reads(r)

\* Two requests about to pay pay different shipments: each holds the rows of its own.
LEMMA Disjoint ==
    ASSUME TypeOK, NEW r \in Requests, NEW q \in Requests \ {r},
           req[r].todo = {}, req[q].todo = {}
    PROVE  req[r].ids \cap req[q].ids = {}
BY DEF TypeOK

\* A step that pays nothing and delivers nothing keeps what the others rely on.
LEMMA OthersRead ==
    ASSUME PayoutInv, NEW r \in Requests, UNCHANGED rows,
           \E x \in Request : req' = [req EXCEPT ![r] = x], Reads(r)', TypeOK'
    PROVE  PayoutInv'
<1>1. Counted'
  BY DEF PayoutInv, Counted, rows
<1>2. ASSUME NEW q \in Requests, q # r PROVE Reads(q)'
  <2>1. req'[q] = req[q]
    BY <1>2 DEF PayoutInv, TypeOK
  <2> QED BY <2>1 DEF PayoutInv, Reads, Due, rows
<1> QED BY <1>1, <1>2 DEF PayoutInv

\* A request that pays the unpaid shipments it has locked, each of them once.
LEMMA PaidRead ==
    ASSUME PayoutInv, NEW r \in Requests, TypeOK',
           req[r].todo = {}, req' = [req EXCEPT ![r] = Idle],
           delivered' = delivered, remitted' = remitted \cup req[r].ids, Counted'
    PROVE  PayoutInv'
<1>1. ASSUME NEW q \in Requests PROVE Reads(q)'
  <2>1. CASE q = r
    BY <2>1 DEF PayoutInv, TypeOK, Reads, Idle
  <2>2. CASE q # r
    <3>1. req'[q] = req[q] /\ Reads(q)
      BY <2>2 DEF PayoutInv, TypeOK
    <3>2. Due' \subseteq Due
      BY DEF Due
    <3>3. req[q].todo = {} => req[r].ids \cap req[q].ids = {}
      BY <2>2, Disjoint DEF PayoutInv
    <3> QED BY <3>1, <3>2, <3>3 DEF Reads
  <2> QED BY <2>1, <2>2
<1> QED BY <1>1 DEF PayoutInv

\* The record a statement that starts to lock leaves.
LEMMA LockingRecord ==
    ASSUME NEW r, NEW op, NEW pc, NEW ids, Locking(r, op, pc, ids)
    PROVE  \E x : /\ req' = [req EXCEPT ![r] = x]
                  /\ x.op = op /\ x.pc = pc /\ x.ids = ids
                  /\ x.todo = {s \in ids : shipLock[s] # r}
<1> DEFINE todo == {s \in ids : shipLock[s] # r}
<1>1. PICK row \in NextRows(op, todo) :
          req' = [req EXCEPT ![r] = [op |-> op, pc |-> pc, ids |-> ids, todo |-> todo, row |-> row]]
  BY DEF Locking
<1> DEFINE x == [op |-> op, pc |-> pc, ids |-> ids, todo |-> todo, row |-> row]
<1>2. req' = [req EXCEPT ![r] = x]
  BY <1>1
<1>3. x.op = op /\ x.pc = pc /\ x.ids = ids /\ x.todo = todo
  OBVIOUS
<1> HIDE DEF x
<1> QED BY <1>2, <1>3

LEMMA PayoutInit == Init /\ ~LateDeliveries => PayoutInv
BY TypeInit DEF Init, PayoutInv, Counted, Reads, Idle

LEMMA PayoutStep == PayoutInv /\ [Next]_vars => PayoutInv'
<1> SUFFICES ASSUME PayoutInv, [Next]_vars PROVE PayoutInv'
  OBVIOUS
<1>1. TypeOK /\ TypeOK'
  BY TypeStep DEF PayoutInv
<1>2. req \in [Requests -> Request]
  BY <1>1 DEF TypeOK
<1>3. Idle \in Request
  BY IdleRequest
<1>4. CASE UNCHANGED vars
  BY <1>1, <1>4 DEF vars, PayoutInv, Counted, Reads, Due
<1>5. ASSUME NEW s \in Shipments, Deliver(s) PROVE PayoutInv'
  <2>1. \A r \in Requests : req[r].op # "settle"
    BY <1>5 DEF Deliver, PayoutInv
  <2> QED BY <2>1, <1>1, <1>5 DEF Deliver, PayoutInv, Counted, Reads
<1>6. ASSUME NEW r \in Requests, StartSettle(r) PROVE PayoutInv'
  <2>1. Locking(r, "settle", "rows", Due) /\ UNCHANGED rows
    BY <1>6 DEF StartSettle
  <2>2. PICK x : /\ req' = [req EXCEPT ![r] = x]
                 /\ x.op = "settle" /\ x.pc = "rows" /\ x.ids = Due
    BY <2>1, LockingRecord
  <2>3. req'[r] = x
    BY <2>2, <1>2
  <2>4. x \in Request
    BY <2>3, <1>1 DEF TypeOK
  <2>5. Reads(r)'
    BY <2>1, <2>2, <2>3 DEF Reads, Due, rows
  <2> QED BY <2>1, <2>2, <2>4, <2>5, <1>1, OthersRead
<1>7. ASSUME NEW r \in Requests, NEW op \in {"remit", "charge"}, NEW ids \in SUBSET Shipments,
             Locking(r, op, "rows", ids), UNCHANGED rows
      PROVE  PayoutInv'
  <2>1. PICK x : req' = [req EXCEPT ![r] = x] /\ x.op = op /\ x.pc = "rows"
    BY <1>7, LockingRecord
  <2>2. req'[r] = x
    BY <2>1, <1>2
  <2>3. x \in Request
    BY <2>2, <1>1 DEF TypeOK
  <2>4. Reads(r)'
    BY <2>1, <2>2 DEF Reads
  <2> QED BY <2>1, <2>3, <2>4, <1>1, <1>7, OthersRead
<1>8. ASSUME NEW r \in Requests, LockRow(r) PROVE PayoutInv'
  <2>1. PICK row : req' = [req EXCEPT ![r].todo = @ \ {req[r].row}, ![r].row = row]
    BY <1>8 DEF LockRow
  <2>2. /\ req'[r].op = req[r].op /\ req'[r].pc = req[r].pc /\ req'[r].ids = req[r].ids
        /\ req'[r].todo = req[r].todo \ {req[r].row}
    BY <2>1, <1>2 DEF Request
  <2>3. UNCHANGED rows
    BY <1>8 DEF LockRow
  <2>4. Reads(r)'
    BY <2>2, <2>3 DEF PayoutInv, Reads, Due, rows
  <2>5. ASSUME NEW q \in Requests, q # r PROVE req'[q] = req[q]
    BY <2>5, <2>1, <1>2
  <2>6. req'[r] \in Request /\ req' = [req EXCEPT ![r] = req'[r]]
    BY <2>1, <1>1, <1>2 DEF TypeOK
  <2> QED BY <2>3, <2>4, <2>6, <1>1, OthersRead
<1>9. ASSUME NEW r \in Requests, Reread(r) PROVE PayoutInv'
  <2>1. Locking(r, "settle", "again", Due) /\ UNCHANGED rows
    BY <1>9 DEF Reread
  <2>2. req[r].op = "settle" /\ req[r].pc = "rows" /\ req[r].todo = {}
    BY <1>9 DEF Reread, Locked
  <2>3. \A s \in Due : shipLock[s] = r
    BY <2>2, <1>1 DEF PayoutInv, Reads, TypeOK
  <2>4. PICK x : /\ req' = [req EXCEPT ![r] = x]
                 /\ x.op = "settle" /\ x.pc = "again" /\ x.ids = Due
                 /\ x.todo = {s \in Due : shipLock[s] # r}
    BY <2>1, LockingRecord
  <2>5. req'[r] = x
    BY <2>4, <1>2
  <2>6. x \in Request
    BY <2>5, <1>1 DEF TypeOK
  <2>7. x.todo = {} /\ x.ids \cap remitted = {}
    BY <2>3, <2>4 DEF Due
  <2>8. Reads(r)'
    BY <2>1, <2>4, <2>5, <2>7 DEF Reads, rows
  <2> QED BY <2>1, <2>4, <2>6, <2>8, <1>1, OthersRead
<1>10. ASSUME NEW r \in Requests, SettleCommit(r) PROVE PayoutInv'
  <2>1. req[r].pc = "again" /\ req[r].todo = {} /\ req[r].ids \cap remitted = {}
    BY <1>10 DEF SettleCommit, PayoutInv, Reads
  <2>2. /\ req' = [req EXCEPT ![r] = Idle] /\ delivered' = delivered /\ bank' = bank
        /\ remitted' = remitted \cup req[r].ids
    BY <1>10 DEF SettleCommit, Finished
  <2>3. ASSUME NEW s \in Shipments
        PROVE  bank'[s] + credits'[s] = IF s \in remitted' THEN 1 ELSE 0
    <3>1. bank[s] \in Nat /\ credits[s] \in Nat
      BY <1>1 DEF TypeOK
    <3>2. bank[s] + credits[s] = IF s \in remitted THEN 1 ELSE 0
      BY DEF PayoutInv, Counted
    <3>3. CASE s \in req[r].ids
      <4>1. credits[s] = 0 /\ bank[s] = 0
        BY <3>1, <3>2, <3>3, <2>1
      <4>2. credits'[s] = 1
        BY <4>1, <3>3, <1>10 DEF SettleCommit
      <4> QED BY <4>1, <4>2, <3>3, <2>2
    <3>4. CASE s \notin req[r].ids
      <4>1. credits'[s] = credits[s]
        BY <3>4, <3>1, <1>10 DEF SettleCommit
      <4> QED BY <4>1, <3>2, <3>4, <2>2
    <3> QED BY <3>3, <3>4
  <2> QED BY <2>1, <2>2, <2>3, <1>1, PaidRead DEF Counted
<1>11. ASSUME NEW r \in Requests, AcceptRemit(r) PROVE PayoutInv'
  <2>1. req' = [req EXCEPT ![r].pc = "commit"] /\ UNCHANGED rows
    BY <1>11 DEF AcceptRemit
  <2>2. req[r].todo = {} /\ req[r].op = "remit" /\ req[r].ids \cap remitted = {}
    BY <1>11 DEF AcceptRemit, Locked, Payable, Remittable, Due
  <2>3. /\ req'[r].op = req[r].op /\ req'[r].pc = "commit" /\ req'[r].ids = req[r].ids
        /\ req'[r].todo = req[r].todo
    BY <2>1, <1>2 DEF Request
  <2>4. Reads(r)'
    BY <2>1, <2>2, <2>3 DEF Reads, rows
  <2>5. req'[r] \in Request /\ req' = [req EXCEPT ![r] = req'[r]]
    BY <2>1, <1>1, <1>2 DEF TypeOK
  <2> QED BY <2>1, <2>4, <2>5, <1>1, OthersRead
<1>12. ASSUME NEW r \in Requests, Finished(r), UNCHANGED rows PROVE PayoutInv'
  <2>1. req' = [req EXCEPT ![r] = Idle]
    BY <1>12 DEF Finished
  <2>2. Reads(r)'
    BY <2>1, <1>2 DEF Reads, Idle
  <2> QED BY <2>1, <2>2, <1>1, <1>3, <1>12, OthersRead
<1>13. ASSUME NEW r \in Requests, RemitCommit(r) PROVE PayoutInv'
  <2>1. req[r].todo = {} /\ req[r].ids \cap remitted = {}
    BY <1>13 DEF RemitCommit, PayoutInv, Reads
  <2>2. /\ req' = [req EXCEPT ![r] = Idle] /\ delivered' = delivered /\ credits' = credits
        /\ remitted' = remitted \cup req[r].ids
    BY <1>13 DEF RemitCommit, Finished
  <2>3. Counted'
    BY <2>1, <2>2, <1>1, <1>13 DEF RemitCommit, PayoutInv, Counted, TypeOK
  <2> QED BY <2>1, <2>2, <2>3, <1>1, PaidRead
<1>14. ASSUME NEW r \in Requests, ChargeWallet(r) PROVE PayoutInv'
  <2>1. req' = [req EXCEPT ![r].pc = "commit"] /\ UNCHANGED rows /\ req[r].op = "charge"
    BY <1>14 DEF ChargeWallet, Locked
  <2>2. req'[r].op = "charge" /\ req'[r].pc = "commit"
    BY <2>1, <1>2 DEF Request
  <2>3. Reads(r)'
    BY <2>2 DEF Reads
  <2>4. req'[r] \in Request /\ req' = [req EXCEPT ![r] = req'[r]]
    BY <2>1, <1>1, <1>2 DEF TypeOK
  <2> QED BY <2>1, <2>3, <2>4, <1>1, OthersRead
<1>15. ASSUME NEW r \in Requests, ChargeCommit(r) PROVE PayoutInv'
  <2>1. /\ req' = [req EXCEPT ![r] = Idle]
        /\ UNCHANGED <<delivered, remitted, bank, credits>>
    BY <1>15 DEF ChargeCommit, Finished
  <2>2. Counted'
    BY <2>1 DEF PayoutInv, Counted
  <2>3. ASSUME NEW q \in Requests PROVE Reads(q)'
    <3>1. req'[q] = req[q] \/ req'[q] = Idle
      BY <2>1, <1>2
    <3> QED BY <3>1, <2>1 DEF PayoutInv, Reads, Idle, Due
  <2> QED BY <2>2, <2>3, <1>1 DEF PayoutInv
<1>16. ASSUME NEW r \in Requests, NEW ids \in SUBSET Shipments, StartRemit(r, ids)
       PROVE  PayoutInv'
  BY <1>16, <1>7 DEF StartRemit
<1>17. ASSUME NEW r \in Requests, NEW s \in Shipments, StartCharge(r, s) PROVE PayoutInv'
  <2>1. {s} \in SUBSET Shipments
    OBVIOUS
  <2> QED BY <2>1, <1>17, <1>7 DEF StartCharge
<1>18. ASSUME NEW r \in Requests, RefuseRemit(r) \/ DeadlockVictim(r) \/ Fail(r)
       PROVE  PayoutInv'
  BY <1>18, <1>12 DEF RefuseRemit, DeadlockVictim, Fail
<1> QED BY <1>4, <1>5, <1>6, <1>8, <1>9, <1>10, <1>11, <1>13, <1>14, <1>15, <1>16, <1>17, <1>18
       DEF Next

\* A-24: when no shipment is delivered while a settlement runs, the cash of a shipment is paid
\* out at most once, however many settlements and bank batches overlap.
THEOREM PaidAtMostOnce == ~LateDeliveries /\ Spec => []PaidOnce
<1>1. PayoutInv => PaidOnce
  BY DEF PayoutInv, Counted, PaidOnce
<1> QED BY <1>1, PayoutInit, PayoutStep, PTL DEF Spec
=============================================================================
