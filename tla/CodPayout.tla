------------------------------ MODULE CodPayout ------------------------------
(***************************************************************************)
(* Paying a merchant the cash collected at the door: into the wallet       *)
(* (settle_cod_to_wallet of services/wallet.py) or by bank transfer        *)
(* (create_remittance of services/delhivery_modules.py), while shipments   *)
(* are delivered and charged.                                              *)
(*                                                                         *)
(* Postgres at READ COMMITTED: a SELECT ... FOR UPDATE fixes its rows, and *)
(* the payment_details it joins, in the snapshot of the statement; then it *)
(* queues for the row locks one by one.  A payment committed while it      *)
(* waits is not seen: only the shipment row is re-checked.                 *)
(*                                                                         *)
(* One merchant and one wallet; every shipment is cash on delivery.  The   *)
(* cash of a delivered shipment is frozen, so the total finance confirmed  *)
(* still holds whenever all the ticked shipments are still payable.        *)
(***************************************************************************)
EXTENDS Integers, FiniteSets

CONSTANTS
    Shipments,      \* naturals: the order of their primary keys
    Requests,       \* HTTP requests the server works on at the same time
    NoRow,          \* waits for no shipment
    NoRequest,      \* nobody holds the row
    Cash,           \* cash collected on each shipment
    Debit,          \* a charge posted for a shipment
    MaxDeficit,     \* bound: how far charges take the wallet below zero
    LateDeliveries  \* TRUE: shipments are also delivered while a settlement runs

ASSUME ShipmentAssumption == Shipments \subseteq Nat /\ IsFiniteSet(Shipments)
ASSUME NoneAssumption == NoRow \notin Shipments /\ NoRequest \notin Requests
ASSUME MoneyAssumption == Cash \in Nat \ {0} /\ Debit \in Nat \ {0} /\ MaxDeficit \in Nat
ASSUME DeliveryAssumption == LateDeliveries \in BOOLEAN

VARIABLES
    delivered,      \* shipments whose status is COMPLETED
    remitted,       \* shipments whose cod_remittance_status is REMITTED
    bank,           \* how many bank remittance lines paid a shipment
    credits,        \* how many COD_SETTLEMENT rows the wallet has for it
    balance,        \* the merchant's wallet
    shipLock, walletLock, \* who holds the row locks
    req             \* the requests in flight

vars == <<delivered, remitted, bank, credits, balance, shipLock, walletLock, req>>

\* ids: the shipments it pays or charges; todo: those it has yet to lock; row: the one it
\* queues for.
Request == [op: {"none", "settle", "remit", "charge"}, pc: {"idle", "rows", "again", "commit"},
            ids: SUBSET Shipments, todo: SUBSET Shipments, row: Shipments \cup {NoRow}]

Idle == [op |-> "none", pc |-> "idle", ids |-> {}, todo |-> {}, row |-> NoRow]

Init ==
    /\ delivered = {} /\ remitted = {} /\ balance = 0
    /\ bank = [s \in Shipments |-> 0] /\ credits = [s \in Shipments |-> 0]
    /\ shipLock = [s \in Shipments |-> NoRequest] /\ walletLock = NoRequest
    /\ req = [r \in Requests |-> Idle]

rows == <<delivered, remitted, bank, credits, balance>>

\* get_unsettled_completed_cod_shipments and get_remittable_cod_shipments, as committed.
Due == delivered \ remitted
Remittable == {s \in Due : credits[s] = 0}

\* Where a statement that has yet to lock todo queues next: bank batches lock in key order,
\* a settlement's query has none.
NextRows(op, todo) ==
    CASE todo = {} -> {NoRow}
      [] todo # {} /\ op = "settle" -> todo
      [] OTHER -> {s \in todo : \A t \in todo : s <= t}

\* The request r starts a statement that locks ids.
Locking(r, op, pc, ids) ==
    LET todo == {s \in ids : shipLock[s] # r}
    IN  \E row \in NextRows(op, todo) :
           req' = [req EXCEPT ![r] = [op |-> op, pc |-> pc, ids |-> ids, todo |-> todo, row |-> row]]

\* The end of a request, committed or not: its locks are free.
Finished(r) ==
    /\ req' = [req EXCEPT ![r] = Idle]
    /\ shipLock' = [s \in Shipments |-> IF shipLock[s] = r THEN NoRequest ELSE shipLock[s]]
    /\ walletLock' = IF walletLock = r THEN NoRequest ELSE walletLock

(******************************* the requests ******************************)

\* The PATCH to COMPLETED: the row is locked, checked and saved.
Deliver(s) ==
    /\ s \notin delivered /\ shipLock[s] = NoRequest
    /\ LateDeliveries \/ \A r \in Requests : req[r].op # "settle"
    /\ delivered' = delivered \cup {s}
    /\ UNCHANGED <<remitted, bank, credits, balance, shipLock, walletLock, req>>

\* Mutant: the wallet is not locked first.
StartSettleUnlocked(r) ==
    /\ req[r].pc = "idle"
    /\ Locking(r, "settle", "rows", Due)
    /\ UNCHANGED <<rows, shipLock, walletLock>>

\* settle_cod_to_wallet: the wallet is locked first, then the shipments due.
StartSettle(r) ==
    /\ req[r].pc = "idle" /\ walletLock = NoRequest
    /\ walletLock' = r
    /\ Locking(r, "settle", "rows", Due)
    /\ UNCHANGED <<rows, shipLock>>

\* create_remittance for the shipments finance ticked, locked whatever their state.
StartRemit(r, ids) ==
    /\ req[r].pc = "idle" /\ ids # {}
    /\ Locking(r, "remit", "rows", ids)
    /\ UNCHANGED <<rows, shipLock, walletLock>>

\* A handler that charges a shipment (a measurement, say): shipment first, wallet second.
StartCharge(r, s) ==
    /\ req[r].pc = "idle" /\ balance - Debit >= - MaxDeficit
    /\ Locking(r, "charge", "rows", {s})
    /\ UNCHANGED <<rows, shipLock, walletLock>>

LockRow(r) ==
    LET s == req[r].row
    IN  /\ s # NoRow /\ shipLock[s] = NoRequest
        /\ shipLock' = [shipLock EXCEPT ![s] = r]
        /\ \E row \in NextRows(req[r].op, req[r].todo \ {s}) :
              req' = [req EXCEPT ![r].todo = @ \ {s}, ![r].row = row]
        /\ UNCHANGED <<rows, walletLock>>

Locked(r, op) == req[r].op = op /\ req[r].pc = "rows" /\ req[r].todo = {}

\* Mutant (A-24): the shipments of the first read are paid.
RereadNothing(r) ==
    /\ Locked(r, "settle")
    /\ req' = [req EXCEPT ![r].pc = "again"]
    /\ UNCHANGED <<rows, shipLock, walletLock>>

\* A-24: the query is issued again, under the locks of the first.
Reread(r) ==
    /\ Locked(r, "settle")
    /\ Locking(r, "settle", "again", Due)
    /\ UNCHANGED <<rows, shipLock, walletLock>>

\* Mutant: the shipments credited are not marked REMITTED.
SettleCommitUnmarked(r) ==
    LET paid == {s \in req[r].ids : credits[s] = 0}
    IN  /\ req[r].pc = "again" /\ req[r].todo = {}
        /\ credits' = [s \in Shipments |-> credits[s] + (IF s \in paid THEN 1 ELSE 0)]
        /\ balance' = balance + Cash * Cardinality(paid)
        /\ Finished(r)
        /\ UNCHANGED <<delivered, bank, remitted>>

SettleCommit(r) ==
    LET paid == {s \in req[r].ids : credits[s] = 0}
    IN  /\ req[r].pc = "again" /\ req[r].todo = {}
        /\ credits' = [s \in Shipments |-> credits[s] + (IF s \in paid THEN 1 ELSE 0)]
        /\ remitted' = remitted \cup req[r].ids
        /\ balance' = balance + Cash * Cardinality(paid)
        /\ Finished(r)
        /\ UNCHANGED <<delivered, bank>>

\* The ticked shipments are read again under their locks: all are paid or none.  The
\* balance is read without a lock (A-05).
Payable(r) == req[r].ids \subseteq Remittable /\ balance >= 0

AcceptRemit(r) ==
    /\ Locked(r, "remit") /\ Payable(r)
    /\ req' = [req EXCEPT ![r].pc = "commit"]
    /\ UNCHANGED <<rows, shipLock, walletLock>>

\* Mutant: the refused batch keeps its rows locked.
RefuseRemitKeepingRows(r) ==
    /\ Locked(r, "remit") /\ ~Payable(r)
    /\ req' = [req EXCEPT ![r] = Idle]
    /\ UNCHANGED <<rows, shipLock, walletLock>>

RefuseRemit(r) == Locked(r, "remit") /\ ~Payable(r) /\ Finished(r) /\ UNCHANGED rows

RemitCommit(r) ==
    /\ req[r].op = "remit" /\ req[r].pc = "commit"
    /\ bank' = [s \in Shipments |-> bank[s] + (IF s \in req[r].ids THEN 1 ELSE 0)]
    /\ remitted' = remitted \cup req[r].ids
    /\ Finished(r)
    /\ UNCHANGED <<delivered, credits, balance>>

ChargeWallet(r) ==
    /\ Locked(r, "charge") /\ walletLock = NoRequest
    /\ walletLock' = r
    /\ req' = [req EXCEPT ![r].pc = "commit"]
    /\ UNCHANGED <<rows, shipLock>>

ChargeCommit(r) ==
    /\ req[r].op = "charge" /\ req[r].pc = "commit"
    /\ balance' = balance - Debit
    /\ Finished(r)
    /\ UNCHANGED <<delivered, remitted, bank, credits>>

(********************************* failures ********************************)

WaitsFor(r) ==
    CASE req[r].row # NoRow -> shipLock[req[r].row]
      [] req[r].row = NoRow /\ Locked(r, "charge") -> walletLock
      [] OTHER -> NoRequest

\* Postgres aborts a request that waits in a cycle.
DeadlockVictim(r) ==
    /\ \E C \in SUBSET Requests : r \in C /\ \A c \in C : WaitsFor(c) \in C
    /\ Finished(r) /\ UNCHANGED rows

\* A request in flight may also fail (connection lost, server stopped).
Fail(r) == req[r].pc # "idle" /\ Finished(r) /\ UNCHANGED rows

Next ==
    \/ \E s \in Shipments : Deliver(s)
    \/ \E r \in Requests :
          \/ StartSettle(r)
          \/ \E ids \in SUBSET Shipments : StartRemit(r, ids)
          \/ \E s \in Shipments : StartCharge(r, s)
          \/ LockRow(r) \/ Reread(r) \/ SettleCommit(r)
          \/ AcceptRemit(r) \/ RefuseRemit(r) \/ RemitCommit(r)
          \/ ChargeWallet(r) \/ ChargeCommit(r)
          \/ DeadlockVictim(r) \/ Fail(r)

Spec == Init /\ [][Next]_vars

\* The server runs a request to its end, row locks are granted first come first served,
\* and the database looks for deadlocks.
Fairness ==
    \A r \in Requests :
        /\ WF_vars(Reread(r)) /\ WF_vars(SettleCommit(r))
        /\ WF_vars(AcceptRemit(r) \/ RefuseRemit(r)) /\ WF_vars(RemitCommit(r))
        /\ WF_vars(ChargeCommit(r)) /\ WF_vars(DeadlockVictim(r))
        /\ SF_vars(LockRow(r)) /\ SF_vars(ChargeWallet(r))

FairSpec == Spec /\ Fairness

(******************************** properties *******************************)

\* Rows and requests are well formed; whoever is past its locks holds them, and only one
\* settlement at a time works on the wallet.
TypeOK ==
    /\ delivered \subseteq Shipments /\ remitted \subseteq Shipments /\ balance \in Int
    /\ bank \in [Shipments -> Nat] /\ credits \in [Shipments -> Nat]
    /\ shipLock \in [Shipments -> Requests \cup {NoRequest}]
    /\ walletLock \in Requests \cup {NoRequest}
    /\ req \in [Requests -> Request]
    /\ \A r \in Requests :
          /\ \A s \in req[r].ids \ req[r].todo : shipLock[s] = r
          /\ req[r].op = "settle" => walletLock = r

\* COD_DOUBLE_PAYOUT of services/integrity_audit.py (A-24): the cash of a shipment is paid
\* out at most once, by bank or into the wallet, whatever settlements and batches overlap.
PaidOnce == \A s \in Shipments : bank[s] + credits[s] <= 1

\* COD_REMITTANCE of the same audit: a shipment is REMITTED exactly when it was paid, and
\* only delivered ones are.
RemittedIsPaid ==
    \A s \in Shipments : s \in remitted <=> bank[s] + credits[s] > 0

\* Settlements lock the wallet before the shipments and charges after them, and settlements
\* lock shipments in no order; still every request ends.
RequestsEnd == \A r \in Requests : req[r].pc # "idle" ~> req[r].pc = "idle"
=============================================================================
