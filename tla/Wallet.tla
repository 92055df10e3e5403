------------------------------- MODULE Wallet -------------------------------
(***************************************************************************)
(* The user wallet of services/wallet.py: recharge intents, the UTR a      *)
(* merchant submits, the admin's decision, offline credits, freight        *)
(* bookings under Finlock and every other posting to the passbook.         *)
(*                                                                         *)
(* Each HTTP request runs in one database transaction (READ COMMITTED) and *)
(* is a process of Requests.  A step is one statement whose result matters *)
(* to another request: an unlocked read, SELECT ... FOR UPDATE on the      *)
(* wallet row, a flush, or the commit that makes the writes visible.  An   *)
(* ORM UPDATE carries only the columns whose value changed since the row   *)
(* was read, so a commit below writes a column only in that case.          *)
(***************************************************************************)
EXTENDS Integers, Sequences, FiniteSets

CONSTANTS
    Users,        \* wallet owners; user u owns the wallet u
    Admins,       \* the users with the admin or owner role
    Txns,         \* identities of RECHARGE rows
    Utrs,         \* bank references (UTRs)
    Requests,     \* concurrent HTTP requests
    Amounts,      \* amounts of a recharge, a booking or a posting
    Floor,        \* the Finlock minimum balance
    Mix,          \* the operations whose requests arrive
    MaxLedger,    \* bound: postings admitted to one wallet
    MaxRows,      \* bound: rows one posting transaction writes
    NoTxn, NoUtr, NoUser, NoRequest

Operations == {"confirm", "approve", "reject", "verify", "offline",
               "spend", "post", "abort"}

ASSUME AdminsAssumption == Admins \subseteq Users
ASSUME AmountsAssumption == Amounts \subseteq Nat \ {0}
ASSUME BoundsAssumption == Floor \in Nat /\ MaxLedger \in Nat /\ MaxRows \in Nat
ASSUME MixAssumption == Mix \subseteq Operations
ASSUME NullsAssumption == /\ NoTxn \notin Txns /\ NoUtr \notin Utrs
                          /\ NoUser \notin Users /\ NoRequest \notin Requests

VARIABLES
    balance,      \* user_wallets.balance
    ledger,       \* the COMPLETED wallet_transactions rows of a wallet, in commit order
    txn,          \* the RECHARGE rows
    lock,         \* the request that holds the wallet row FOR UPDATE
    req           \* per request: where it is and what it has read

vars == <<balance, ledger, txn, lock, req>>

Statuses == {"NONE", "PENDING", "COMPLETED", "FAILED"}
Kinds == {"RECHARGE", "OFFLINE", "SPEND", "MOVEMENT"}

\* A passbook row: delta is the signed amount, by the admin who credited it.
Row == [kind: Kinds, opening: Int, delta: Int, closing: Int,
        txn: Txns \cup {NoTxn}, utr: Utrs \cup {NoUtr}, by: Users \cup {NoUser}]

RechargeRow == [status: Statuses, owner: Users \cup {NoUser},
                utr: Utrs \cup {NoUtr}, amount: Nat]

\* st and seen are the status and the utr_number the request loaded; bal its copy
\* of the balance; rows what it has flushed and not committed.
Request == [pc: {"idle", "dup", "write", "wait", "locked"},
            op: Operations \cup {"none"}, actor: Users \cup {NoUser},
            w: Users \cup {NoUser}, t: Txns \cup {NoTxn}, utr: Utrs \cup {NoUtr},
            st: Statuses, seen: Utrs \cup {NoUtr}, amt: Nat, bal: Int, rows: Seq(Row)]

Idle == [pc |-> "idle", op |-> "none", actor |-> NoUser, w |-> NoUser, t |-> NoTxn,
         utr |-> NoUtr, st |-> "NONE", seen |-> NoUtr, amt |-> 0, bal |-> 0, rows |-> <<>>]

\* A row that exists has an owner and an amount; a COMPLETED one carries the reference
\* it was credited for.
RowOK(r) ==
    /\ r.status = "NONE" => r.utr = NoUtr
    /\ r.status # "NONE" => r.owner \in Users /\ r.amount \in Amounts
    /\ r.status = "COMPLETED" => r.utr \in Utrs

TypeOK ==
    /\ balance \in [Users -> Int]
    /\ ledger \in [Users -> Seq(Row)]
    /\ txn \in [Txns -> RechargeRow]
    /\ \A t \in Txns : RowOK(txn[t])
    /\ lock \in [Users -> Requests \cup {NoRequest}]
    /\ req \in [Requests -> Request]

Init ==
    /\ balance = [u \in Users |-> 0]
    /\ ledger = [u \in Users |-> <<>>]
    /\ txn = [t \in Txns |-> [status |-> "NONE", owner |-> NoUser, utr |-> NoUtr, amount |-> 0]]
    /\ lock = [u \in Users |-> NoRequest]
    /\ req = [p \in Requests |-> Idle]

-----------------------------------------------------------------------------
\* Another recharge row already carries this UTR (get_transaction_by_utr, and the
\* unique constraint uq_wallet_txn_utr at commit).
UtrTakenByOther(u, t) == \E x \in Txns \ {t} : txn[x].utr = u

\* uuid4: an identity that no row and no request uses.
Fresh(t) == txn[t].status = "NONE" /\ \A p \in Requests : req[p].t # t

\* Bounds the postings of a run, not the code's.
Roomy(w) == Len(ledger[w]) < MaxLedger

\* create_upi_intent: a PENDING recharge row without a UTR.
CreateIntent(u, t, a) ==
    /\ Fresh(t)
    /\ txn' = [txn EXCEPT ![t] = [status |-> "PENDING", owner |-> u, utr |-> NoUtr, amount |-> a]]
    /\ UNCHANGED <<balance, ledger, lock, req>>

-----------------------------------------------------------------------------
\* confirm_upi_recharge ("I have paid"): three statements and no lock.

\* The row is read and its status checked; anything but PENDING returns here.
ConfirmRead(p, actor, t, u) ==
    /\ "confirm" \in Mix
    /\ req[p].pc = "idle"
    /\ txn[t].status = "PENDING"
    /\ actor = txn[t].owner \/ actor \in Admins
    /\ req' = [req EXCEPT ![p] = [Idle EXCEPT !.pc = "dup", !.op = "confirm", !.actor = actor,
                                  !.t = t, !.utr = u, !.st = "PENDING", !.seen = txn[t].utr]]
    /\ UNCHANGED <<balance, ledger, txn, lock>>

\* get_transaction_by_utr: a UTR of another row is refused (409).
ConfirmDupCheck(p) ==
    /\ req[p].pc = "dup"
    /\ req' = [req EXCEPT ![p] =
                  IF UtrTakenByOther(req[p].utr, req[p].t) THEN Idle ELSE [@ EXCEPT !.pc = "write"]]
    /\ UNCHANGED <<balance, ledger, txn, lock>>

\* Mutant: the UPDATE carries every column the request loaded, the status too.
ConfirmedRowAllColumns(p) == [txn[req[p].t] EXCEPT !.utr = req[p].utr, !.status = req[p].st]

\* The row after the request's UPDATE: the status it loaded was PENDING and it sets
\* PENDING, so only utr_number is written, and only when it differs from what it loaded.
ConfirmedRow(p) ==
    IF req[p].utr = req[p].seen THEN txn[req[p].t]
    ELSE [txn[req[p].t] EXCEPT !.utr = req[p].utr]

ConfirmCommit(p) ==
    /\ req[p].pc = "write"
    /\ txn' = IF UtrTakenByOther(ConfirmedRow(p).utr, req[p].t)
                 /\ req[p].utr # req[p].seen
              THEN txn                                     \* IntegrityError, 409
              ELSE [txn EXCEPT ![req[p].t] = ConfirmedRow(p)]
    /\ req' = [req EXCEPT ![p] = Idle]
    /\ UNCHANGED <<balance, ledger, lock>>

-----------------------------------------------------------------------------
\* The handlers that lock the wallet row.  The part before the lock reads
\* without a lock; nothing it read but identities is used after the lock.

\* A request of the admin about recharge t, queued for the owner's wallet row, with
\* the row as get_transaction_by_id loaded it.
Queued(op, actor, t, u) ==
    [Idle EXCEPT !.pc = "wait", !.op = op, !.actor = actor, !.w = txn[t].owner,
                 !.t = t, !.utr = u, !.st = txn[t].status, !.seen = txn[t].utr]

\* Mutant: any admin may credit any recharge.
MayCreditAny(actor, t) == actor \in Admins

\* Maker-checker: an admin never decides the credit of the own recharge.
MayCredit(actor, t) == actor \in Admins /\ actor # txn[t].owner

StartApprove(p, actor, t) ==
    /\ "approve" \in Mix
    /\ req[p].pc = "idle" /\ txn[t].status # "NONE"
    /\ MayCredit(actor, t)
    /\ req' = [req EXCEPT ![p] = Queued("approve", actor, t, NoUtr)]
    /\ UNCHANGED <<balance, ledger, txn, lock>>

StartReject(p, actor, t) ==
    /\ "reject" \in Mix
    /\ req[p].pc = "idle" /\ txn[t].status # "NONE"
    /\ actor \in Admins
    /\ req' = [req EXCEPT ![p] = Queued("reject", actor, t, NoUtr)]
    /\ UNCHANGED <<balance, ledger, txn, lock>>

\* verify_utr_recharge: the UTR is checked against the other rows first.
StartVerify(p, actor, t, u) ==
    /\ "verify" \in Mix
    /\ req[p].pc = "idle" /\ txn[t].status # "NONE"
    /\ ~UtrTakenByOther(u, t)
    /\ MayCredit(actor, t)
    /\ req' = [req EXCEPT ![p] = Queued("verify", actor, t, u)]
    /\ UNCHANGED <<balance, ledger, txn, lock>>

\* record_admin_offline_credit: the reference must be new to the whole ledger.
StartOffline(p, actor, w, t, u, a) ==
    /\ "offline" \in Mix
    /\ req[p].pc = "idle" /\ actor \in Admins /\ Fresh(t)
    /\ \A x \in Txns : txn[x].utr # u
    /\ req' = [req EXCEPT ![p] = [Idle EXCEPT !.pc = "wait", !.op = "offline", !.actor = actor,
                                  !.w = w, !.t = t, !.utr = u, !.amt = a]]
    /\ UNCHANGED <<balance, ledger, txn, lock>>

\* deduct_shipment_spend of a PREPAID booking in a strict_finlock tenant, and every
\* other posting (repricing movements, exception charges, COD settlements).
StartPosting(p, op, w, a) ==
    /\ op \in {"spend", "post"} /\ op \in Mix
    /\ req[p].pc = "idle" /\ Roomy(w)
    /\ req' = [req EXCEPT ![p] = [Idle EXCEPT !.pc = "wait", !.op = op, !.w = w, !.amt = a]]
    /\ UNCHANGED <<balance, ledger, txn, lock>>

\* Mutant: the recharge row loaded before the wait for the lock is used after it.
RefreshedWalletOnly(p) == [req[p] EXCEPT !.pc = "locked", !.bal = balance[req[p].w]]

\* The wallet as locked and the recharge row as session.refresh(txn) reloads it.
Refreshed(p) ==
    IF req[p].t = NoTxn
    THEN [req[p] EXCEPT !.pc = "locked", !.bal = balance[req[p].w]]
    ELSE [req[p] EXCEPT !.pc = "locked", !.bal = balance[req[p].w],
                        !.st = txn[req[p].t].status, !.seen = txn[req[p].t].utr]

\* Mutant: the wallet row is read without FOR UPDATE.
LockWalletUnlocked(p) ==
    /\ req[p].pc = "wait"
    /\ lock' = [lock EXCEPT ![req[p].w] = p]
    /\ req' = [req EXCEPT ![p] = Refreshed(p)]
    /\ UNCHANGED <<balance, ledger, txn>>

\* get_or_create_wallet(for_update=True), then session.refresh(txn).
LockWallet(p) ==
    /\ req[p].pc = "wait" /\ lock[req[p].w] = NoRequest
    /\ lock' = [lock EXCEPT ![req[p].w] = p]
    /\ req' = [req EXCEPT ![p] = Refreshed(p)]
    /\ UNCHANGED <<balance, ledger, txn>>

\* Mutant: the transaction of a refused or finished request is left open.
FinishLeavingLock(p) == /\ UNCHANGED lock
                        /\ req' = [req EXCEPT ![p] = Idle]

\* COMMIT, or the ROLLBACK after an HTTPException: the row lock goes.
Finish(p) ==
    /\ lock' = [lock EXCEPT ![req[p].w] = NoRequest]
    /\ req' = [req EXCEPT ![p] = Idle]

CreditRow(p, u, a) ==
    [kind |-> IF req[p].op = "offline" THEN "OFFLINE" ELSE "RECHARGE",
     opening |-> req[p].bal, delta |-> a, closing |-> req[p].bal + a,
     txn |-> req[p].t, utr |-> u, by |-> req[p].actor]

\* The wallet and its passbook after one row.
PostRow(w, row) ==
    /\ balance' = [balance EXCEPT ![w] = row.closing]
    /\ ledger' = [ledger EXCEPT ![w] = Append(@, row)]

\* _complete_pending_recharge_txn: utr_number is in the UPDATE only when the
\* resolved UTR differs from the one refreshed under the lock.
CompletedRow(p, t, u) ==
    [txn[t] EXCEPT !.status = "COMPLETED", !.utr = IF u = req[p].seen THEN @ ELSE u]

CompleteRecharge(p, u) ==
    LET t == req[p].t IN
    IF u # req[p].seen /\ UtrTakenByOther(u, t)
    THEN UNCHANGED <<balance, ledger, txn>>                \* IntegrityError, 409
    ELSE /\ PostRow(req[p].w, CreditRow(p, u, txn[t].amount))
         /\ txn' = [txn EXCEPT ![t] = CompletedRow(p, t, u)]

\* Mutant: the UTR is not required.
ApproveCommitWithoutUtr(p) ==
    /\ req[p].pc = "locked" /\ req[p].op = "approve"
    /\ IF req[p].st = "PENDING"
       THEN CompleteRecharge(p, req[p].seen)
       ELSE UNCHANGED <<balance, ledger, txn>>
    /\ Finish(p)

\* approve_pending_recharge: COMPLETED returns, FAILED and a missing UTR are refused.
ApproveCommit(p) ==
    /\ req[p].pc = "locked" /\ req[p].op = "approve"
    /\ IF req[p].st = "PENDING" /\ req[p].seen # NoUtr
       THEN CompleteRecharge(p, req[p].seen)
       ELSE UNCHANGED <<balance, ledger, txn>>
    /\ Finish(p)

\* verify_utr_recharge: any status but PENDING is refused (409).
VerifyCommit(p) ==
    /\ req[p].pc = "locked" /\ req[p].op = "verify"
    /\ IF req[p].st = "PENDING"
       THEN CompleteRecharge(p, req[p].utr)
       ELSE UNCHANGED <<balance, ledger, txn>>
    /\ Finish(p)

\* reject_pending_recharge: a COMPLETED row is refused, the UTR is kept.
RejectCommit(p) ==
    /\ req[p].pc = "locked" /\ req[p].op = "reject"
    /\ txn' = IF req[p].st = "COMPLETED" THEN txn
              ELSE [txn EXCEPT ![req[p].t].status = "FAILED"]
    /\ Finish(p)
    /\ UNCHANGED <<balance, ledger>>

\* The new COMPLETED row, refused when its reference is taken by then.
OfflineCommit(p) ==
    /\ req[p].pc = "locked" /\ req[p].op = "offline"
    /\ IF UtrTakenByOther(req[p].utr, req[p].t)
       THEN UNCHANGED <<balance, ledger, txn>>
       ELSE /\ PostRow(req[p].w, CreditRow(p, req[p].utr, req[p].amt))
            /\ txn' = [txn EXCEPT ![req[p].t] =
                          [status |-> "COMPLETED", owner |-> req[p].w,
                           utr |-> req[p].utr, amount |-> req[p].amt]]
    /\ Finish(p)

\* Mutant: min for max.
ThresholdMin(a) == IF a < Floor THEN a ELSE Floor

\* max(spend_amt, min_required_floor): the balance a booking needs.
Threshold(a) == IF a < Floor THEN Floor ELSE a

MovementRow(p, d) ==
    [kind |-> IF req[p].op = "spend" THEN "SPEND" ELSE "MOVEMENT",
     opening |-> req[p].bal, delta |-> d, closing |-> req[p].bal + d,
     txn |-> NoTxn, utr |-> NoUtr, by |-> NoUser]

\* The request with the row flushed and its copy of the balance moved.
WithRow(p, d) ==
    [req[p] EXCEPT !.rows = Append(req[p].rows, MovementRow(p, d)), !.bal = req[p].bal + d]

Flushed(p, d) == req' = [req EXCEPT ![p] = WithRow(p, d)]

\* deduct_shipment_spend: the Finlock check and the SPEND row.
Spend(p) ==
    /\ req[p].pc = "locked" /\ req[p].op = "spend" /\ req[p].rows = <<>>
    /\ req[p].bal >= Threshold(req[p].amt)
    /\ Flushed(p, -req[p].amt)
    /\ UNCHANGED <<balance, ledger, txn, lock>>

SpendRefused(p) ==
    /\ req[p].pc = "locked" /\ req[p].op = "spend" /\ req[p].rows = <<>>
    /\ req[p].bal < Threshold(req[p].amt)
    /\ Finish(p)
    /\ UNCHANGED <<balance, ledger, txn>>

\* One row of a posting transaction: a debit may take the balance negative.
PostMovement(p, d) ==
    /\ req[p].pc = "locked" /\ req[p].op = "post" /\ Len(req[p].rows) < MaxRows
    /\ d \in {req[p].amt, -req[p].amt}
    /\ Flushed(p, d)
    /\ UNCHANGED <<balance, ledger, txn, lock>>

\* The caller's commit: the balance and all flushed rows become visible together.
PostingCommit(p) ==
    /\ req[p].pc = "locked" /\ req[p].rows # <<>>
    /\ balance' = [balance EXCEPT ![req[p].w] = req[p].bal]
    /\ ledger' = [ledger EXCEPT ![req[p].w] = @ \o req[p].rows]
    /\ Finish(p)
    /\ UNCHANGED txn

\* The request fails (an exception, a lost connection, a process crash): rollback.
Abort(p) ==
    /\ "abort" \in Mix
    /\ req[p].pc # "idle"
    /\ lock' = [w \in Users |-> IF lock[w] = p THEN NoRequest ELSE lock[w]]
    /\ req' = [req EXCEPT ![p] = Idle]
    /\ UNCHANGED <<balance, ledger, txn>>

-----------------------------------------------------------------------------
\* What a request in flight does next; arrivals are not part of it.
Step(p) ==
    \/ ConfirmDupCheck(p) \/ ConfirmCommit(p)
    \/ ApproveCommit(p) \/ VerifyCommit(p) \/ RejectCommit(p)
    \/ OfflineCommit(p)
    \/ Spend(p) \/ SpendRefused(p) \/ PostingCommit(p)

Arrive(p) ==
    \/ \E actor \in Users, t \in Txns, u \in Utrs : ConfirmRead(p, actor, t, u)
    \/ \E actor \in Users, t \in Txns : StartApprove(p, actor, t)
    \/ \E actor \in Users, t \in Txns : StartReject(p, actor, t)
    \/ \E actor \in Users, t \in Txns, u \in Utrs : StartVerify(p, actor, t, u)
    \/ \E actor, w \in Users, t \in Txns, u \in Utrs, a \in Amounts :
          StartOffline(p, actor, w, t, u, a)
    \/ \E op \in Operations, w \in Users, a \in Amounts : StartPosting(p, op, w, a)

Next ==
    \/ \E u \in Users, t \in Txns, a \in Amounts : CreateIntent(u, t, a)
    \/ \E p \in Requests :
          \/ Arrive(p)
          \/ LockWallet(p)
          \/ Step(p)
          \/ \E a \in Amounts, sign \in {-1, 1} : PostMovement(p, sign * a)
          \/ Abort(p)

Spec == Init /\ [][Next]_vars

\* The database grants a row lock in the order it was asked for and a handler runs to
\* its commit; whether a user sends a request is the user's choice.
Fairness ==
    \A p \in Requests :
        /\ SF_vars(LockWallet(p))
        /\ WF_vars(Step(p))
        /\ WF_vars(\E a \in Amounts, sign \in {-1, 1} : PostMovement(p, sign * a))

FairSpec == Spec /\ Fairness

-----------------------------------------------------------------------------
\* Rows that chain from the balance b: closing = opening + signed amount, and each
\* opening is the closing before it.
Opening(s, b, i) == IF i = 1 THEN b ELSE s[i - 1].closing

Chains(s, b) == \A i \in 1..Len(s) : /\ s[i].opening = Opening(s, b, i)
                                     /\ s[i].closing = s[i].opening + s[i].delta

Closing(s, b) == IF s = <<>> THEN b ELSE s[Len(s)].closing

\* The passbook adds up however requests interleave: every row's closing is its opening
\* plus its signed amount, no two postings start from the same balance, and the wallet's
\* balance is the last closing (check 1 of services/integrity_audit.py, row by row).
PassbookAddsUp ==
    \A w \in Users : Chains(ledger[w], 0) /\ balance[w] = Closing(ledger[w], 0)

\* Row i of the passbook of w is a credit of recharge t.
Credits(w, i, t) == i \in 1..Len(ledger[w]) /\ ledger[w][i].txn = t

\* A recharge is COMPLETED exactly when its amount was credited, once, to its owner's
\* wallet: two admins approving, verifying or rejecting it at the same time never
\* credit it twice, lose the credit, or credit a rejected request.
CreditedExactlyWhenCompleted ==
    \A t \in Txns :
        /\ txn[t].status = "COMPLETED" => \E i \in 1..Len(ledger[txn[t].owner]) :
                                              Credits(txn[t].owner, i, t)
        /\ \A w \in Users : \A i \in 1..Len(ledger[w]) :
              Credits(w, i, t) =>
                /\ txn[t].status = "COMPLETED"
                /\ w = txn[t].owner
                /\ ledger[w][i].delta = txn[t].amount
                /\ \A j \in 1..Len(ledger[w]) : Credits(w, j, t) => j = i

\* A decision is final: no later request, and no late write of one that read the row
\* before the decision, takes a recharge out of COMPLETED or FAILED.
DecisionIsFinal ==
    [][\A t \in Txns : txn[t].status \in {"COMPLETED", "FAILED"}
                          => txn'[t].status = txn[t].status]_vars

\* A merchant's own request is never credited by that merchant (maker-checker), whoever
\* else acts on the row meanwhile.
MakerChecker ==
    \A w \in Users : \A i \in 1..Len(ledger[w]) :
        ledger[w][i].kind = "RECHARGE" => ledger[w][i].by \in Admins \ {w}

\* Under strict Finlock the balance a booking really started from (its place in the
\* passbook, not the value some request once read) covered the freight and the floor.
FinlockHonoured ==
    \A w \in Users : \A i \in 1..Len(ledger[w]) :
        ledger[w][i].kind = "SPEND" =>
            /\ Opening(ledger[w], 0, i) >= -ledger[w][i].delta
            /\ Opening(ledger[w], 0, i) >= Floor

\* Every request that asks for a wallet ends: no lock is held forever and no request
\* waits forever behind the others.
RequestsEnd == \A p \in Requests : req[p].pc # "idle" ~> req[p].pc = "idle"
=============================================================================
