---------------------------- MODULE WalletProofs ----------------------------
(***************************************************************************)
(* Machine-checked proofs about Wallet, for any users, recharges, requests *)
(* and amounts.                                                            *)
(***************************************************************************)
EXTENDS Wallet, TLAPS

Deciding == {"approve", "verify", "reject"}
Posting == {"spend", "post"}

\* What a request carries at each point of its handler, given the recharge rows tx.
RequestOK(r, tx) ==
    /\ r.pc = "idle" => r.op = "none"
    /\ r.pc \in {"dup", "write"} =>
          r.op = "confirm" /\ r.t \in Txns /\ r.utr \in Utrs /\ tx[r.t].status # "NONE"
    /\ r.pc \in {"wait", "locked"} =>
          /\ r.w \in Users
          /\ r.op \in Deciding \cup Posting \cup {"offline"}
          /\ r.op \in Deciding =>
                r.t \in Txns /\ tx[r.t].status # "NONE" /\ tx[r.t].owner = r.w
          /\ r.op \in {"approve", "verify"} => r.actor \in Admins \ {r.w}
          /\ r.op \in {"verify", "offline"} => r.utr \in Utrs
          /\ r.op = "offline" => r.t \in Txns /\ tx[r.t].status = "NONE" /\ r.amt \in Amounts
          /\ r.op \in Posting => r.t = NoTxn
          /\ r.op \notin Posting => r.rows = <<>>
    /\ r.pc = "wait" => r.rows = <<>>
    /\ (r.pc = "locked" /\ r.t \in Txns /\ r.seen # NoUtr) => tx[r.t].utr # NoUtr

\* The identity of an offline credit's row is used by no other request.
OwnIdentity ==
    \A p, q \in Requests : req[p].op = "offline" /\ p # q => req[p].t # req[q].t

Inv1 == TypeOK /\ OwnIdentity /\ \A p \in Requests : RequestOK(req[p], txn)

LEMMA IdleOK ==
  /\ Idle \in Request /\ \A tx : RequestOK(Idle, tx)
  /\ Idle.pc = "idle" /\ Idle.op = "none" /\ Idle.t = NoTxn /\ Idle.rows = <<>>
  BY DEF Idle, Request, RequestOK, Statuses

LEMMA QueuedOK ==
  ASSUME Inv1, NEW op \in Deciding, NEW actor \in Admins, NEW t \in Txns,
         NEW u \in Utrs \cup {NoUtr}, txn[t].status # "NONE",
         op \in {"approve", "verify"} => actor # txn[t].owner,
         op = "verify" => u \in Utrs
  PROVE  /\ Queued(op, actor, t, u) \in Request
         /\ RequestOK(Queued(op, actor, t, u), txn)
         /\ Queued(op, actor, t, u).op = op /\ Queued(op, actor, t, u).t = t
<1> DEFINE r == Queued(op, actor, t, u)
<1>1. txn[t].owner \in Users /\ txn[t].status \in Statuses /\ txn[t].utr \in Utrs \cup {NoUtr}
  BY DEF Inv1, TypeOK, RechargeRow, RowOK
<1>2. /\ r.pc = "wait" /\ r.op = op /\ r.actor = actor /\ r.w = txn[t].owner /\ r.t = t
      /\ r.utr = u /\ r.rows = <<>>
  BY DEF Queued, Idle
<1>3. r \in Request
  BY <1>1, IdleOK, AdminsAssumption DEF Queued, Request, Deciding, Operations
<1>4. RequestOK(r, txn)
  BY <1>1, <1>2, AdminsAssumption, NullsAssumption DEF RequestOK, Deciding, Posting
<1> QED
  BY <1>2, <1>3, <1>4

LEMMA InitInv1 == Init => Inv1
  BY IdleOK, AmountsAssumption DEF Init, Inv1, TypeOK, OwnIdentity, RechargeRow, RowOK, Statuses

\* A request moves to x and the recharge rows change in no way that the other requests
\* notice.
LEMMA RequestStep ==
  ASSUME Inv1, NEW p \in Requests, NEW x \in Request,
         req' = [req EXCEPT ![p] = x],
         balance' \in [Users -> Int], ledger' \in [Users -> Seq(Row)],
         txn' \in [Txns -> RechargeRow], \A t \in Txns : RowOK(txn'[t]),
         lock' \in [Users -> Requests \cup {NoRequest}],
         RequestOK(x, txn'),
         \A q \in Requests \ {p} : RequestOK(req[q], txn'),
         \A q \in Requests \ {p} : x.op = "offline" \/ req[q].op = "offline" => x.t # req[q].t
  PROVE  Inv1'
<1>1. req' \in [Requests -> Request] /\ req'[p] = x
      /\ \A q \in Requests \ {p} : req'[q] = req[q]
  BY DEF Inv1, TypeOK
<1>2. TypeOK'
  BY <1>1 DEF TypeOK
<1>3. \A q \in Requests : RequestOK(req'[q], txn')
  BY <1>1
<1>4. OwnIdentity'
  BY <1>1 DEF OwnIdentity, Inv1
<1> QED
  BY <1>2, <1>3, <1>4 DEF Inv1

\* Recharge rows that keep their owner, their existence and the presence of a UTR.
SameRows(tx1, tx2) ==
    \A t \in Txns : /\ tx1[t].status = "NONE" <=> tx2[t].status = "NONE"
                    /\ tx1[t].owner = tx2[t].owner
                    /\ tx1[t].utr # NoUtr => tx2[t].utr # NoUtr

LEMMA SameRowsOK ==
  ASSUME NEW tx1, NEW tx2, SameRows(tx1, tx2), NEW r \in Request, RequestOK(r, tx1)
  PROVE  RequestOK(r, tx2)
  BY DEF SameRows, RequestOK, Deciding, Posting

\* The new row t that an intent or an offline credit creates is nobody else's.
LEMMA NewRowOK ==
  ASSUME Inv1, NEW q \in Requests, NEW t \in Txns, txn[t].status = "NONE",
         req[q].op = "offline" => req[q].t # t, NEW row
  PROVE  RequestOK(req[q], [txn EXCEPT ![t] = row])
<1>1. \A x \in Txns \ {t} : [txn EXCEPT ![t] = row][x] = txn[x]
  BY DEF Inv1, TypeOK
<1>2. RequestOK(req[q], txn) /\ req[q] \in Request
  BY DEF Inv1, TypeOK
<1>3. txn[t].utr = NoUtr
  BY DEF Inv1, TypeOK, RowOK
<1>4. CASE req[q].t # t
  BY <1>1, <1>2, <1>4 DEF RequestOK, Deciding, Posting
<1>5. CASE req[q].t = t
  <2>1. req[q].pc = "idle"
    BY <1>2, <1>5, NullsAssumption DEF RequestOK, Request, Deciding, Posting
  <2> QED
    BY <1>2, <2>1 DEF RequestOK
<1> QED
  BY <1>4, <1>5

LEMMA OfflineRow ==
  ASSUME Inv1, NEW q \in Requests, req[q].op = "offline"
  PROVE  req[q].t \in Txns /\ txn[req[q].t].status = "NONE"
<1>1. req[q].pc \in {"wait", "locked"}
  BY DEF RequestOK, Inv1, TypeOK, Request
<1> QED
  BY <1>1 DEF RequestOK, Inv1

\* A request ends; what it wrote leaves the other requests' facts standing.
LEMMA EndOK ==
  ASSUME Inv1, NEW p \in Requests, req' = [req EXCEPT ![p] = Idle],
         balance' \in [Users -> Int], ledger' \in [Users -> Seq(Row)],
         txn' \in [Txns -> RechargeRow], \A t \in Txns : RowOK(txn'[t]),
         lock' \in [Users -> Requests \cup {NoRequest}],
         \A q \in Requests \ {p} : RequestOK(req[q], txn')
  PROVE  Inv1'
<1>1. \A q \in Requests \ {p} : Idle.op = "offline" \/ req[q].op = "offline" => Idle.t # req[q].t
  BY OfflineRow, IdleOK, NullsAssumption
<1> QED
  BY <1>1, IdleOK, RequestStep

\* A request that arrives about an existing row, or about none.
LEMMA ArriveOK ==
  ASSUME Inv1, NEW p \in Requests, NEW x \in Request, req' = [req EXCEPT ![p] = x],
         UNCHANGED <<balance, ledger, txn, lock>>,
         RequestOK(x, txn), x.op # "offline",
         x.t = NoTxn \/ x.t = req[p].t \/ (x.t \in Txns /\ txn[x.t].status # "NONE")
  PROVE  Inv1'
<1>1. /\ balance' \in [Users -> Int] /\ ledger' \in [Users -> Seq(Row)]
      /\ txn' \in [Txns -> RechargeRow] /\ lock' \in [Users -> Requests \cup {NoRequest}]
      /\ txn' = txn /\ \A t \in Txns : RowOK(txn'[t])
  BY DEF Inv1, TypeOK
<1>2. \A q \in Requests \ {p} : RequestOK(req[q], txn)
  BY DEF Inv1
<1>3. ASSUME NEW q \in Requests \ {p}, req[q].op = "offline" PROVE x.t # req[q].t
  <2>2. req[q].t \in Txns /\ txn[req[q].t].status = "NONE"
    BY <1>3, OfflineRow
  <2>3. x.t # req[p].t \/ req[p].t # req[q].t
    BY <1>3 DEF Inv1, OwnIdentity
  <2> QED
    BY <2>2, <2>3, NullsAssumption
<1> QED
  BY ONLY <1>1, <1>2, <1>3, Inv1, p \in Requests, x \in Request, req' = [req EXCEPT ![p] = x],
     RequestOK(x, txn), x.op # "offline", RequestStep

LEMMA NextInv1 == Inv1 /\ [Next]_vars => Inv1'
<1> SUFFICES ASSUME Inv1, [Next]_vars PROVE Inv1'
  OBVIOUS
<1> USE NullsAssumption, AdminsAssumption, AmountsAssumption
<1>0. TypeOK /\ \A q \in Requests : req[q] \in Request /\ RequestOK(req[q], txn)
  BY DEF Inv1, TypeOK
<1>1. ASSUME NEW u \in Users, NEW t \in Txns, NEW a \in Amounts, CreateIntent(u, t, a)
      PROVE  Inv1'
  <2>1. txn[t].status = "NONE" /\ \A q \in Requests : req[q].t # t
    BY <1>1 DEF CreateIntent, Fresh
  <2>2. \A q \in Requests : RequestOK(req[q], txn')
    BY <1>1, <2>1, NewRowOK DEF CreateIntent
  <2>3. TypeOK'
    BY <1>0, <1>1 DEF TypeOK, CreateIntent, RechargeRow, RowOK, Statuses
  <2> QED
    BY <1>1, <2>2, <2>3 DEF Inv1, OwnIdentity, CreateIntent
<1>2. ASSUME NEW p \in Requests, NEW actor \in Users, NEW t \in Txns, NEW u \in Utrs,
             ConfirmRead(p, actor, t, u)
      PROVE  Inv1'
  <2> DEFINE x == [Idle EXCEPT !.pc = "dup", !.op = "confirm", !.actor = actor,
                               !.t = t, !.utr = u, !.st = "PENDING", !.seen = txn[t].utr]
  <2>1. txn[t].status = "PENDING" /\ txn[t].utr \in Utrs \cup {NoUtr}
    BY <1>0, <1>2 DEF ConfirmRead, TypeOK, RechargeRow
  <2>2. x \in Request
    BY <2>1, IdleOK DEF Request, Operations, Statuses
  <2>3. x.pc = "dup" /\ x.op = "confirm" /\ x.t = t /\ x.utr = u
    BY DEF Idle
  <2>4. RequestOK(x, txn)
    BY <2>1, <2>3 DEF RequestOK
  <2> QED
    BY <1>2, <2>1, <2>2, <2>3, <2>4, ArriveOK DEF ConfirmRead
<1>3. ASSUME NEW p \in Requests, ConfirmDupCheck(p) PROVE Inv1'
  <2>1. CASE UtrTakenByOther(req[p].utr, req[p].t)
    BY <1>3, <2>1, IdleOK, ArriveOK DEF ConfirmDupCheck
  <2>2. CASE ~UtrTakenByOther(req[p].utr, req[p].t)
    <3> DEFINE x == [req[p] EXCEPT !.pc = "write"]
    <3>1. x \in Request /\ RequestOK(x, txn) /\ x.t = req[p].t /\ x.op # "offline"
      BY <1>0, <1>3 DEF Request, RequestOK, ConfirmDupCheck
    <3> QED
      BY <1>3, <2>2, <3>1, ArriveOK DEF ConfirmDupCheck
  <2> QED
    BY <2>1, <2>2
<1>4. ASSUME NEW p \in Requests, ConfirmCommit(p) PROVE Inv1'
  <2>1. req[p].t \in Txns /\ req[p].utr \in Utrs /\ txn[req[p].t].status # "NONE"
    BY <1>0, <1>4 DEF RequestOK, ConfirmCommit
  <2> DEFINE t == req[p].t
             new == [txn[t] EXCEPT !.utr = req[p].utr]
  <2>2. /\ new \in RechargeRow /\ RowOK(new) /\ new.status = txn[t].status
        /\ new.owner = txn[t].owner /\ new.utr # NoUtr
    <3>1. txn[t] \in RechargeRow /\ RowOK(txn[t])
      BY <1>0, <2>1 DEF TypeOK
    <3> QED
      BY <2>1, <3>1 DEF RechargeRow, RowOK
  <2>4. txn' = txn \/ txn' = [txn EXCEPT ![t] = txn[t]] \/ txn' = [txn EXCEPT ![t] = new]
    BY <1>4 DEF ConfirmCommit, ConfirmedRow
  <2>5. /\ txn' \in [Txns -> RechargeRow] /\ SameRows(txn, txn')
        /\ \A x \in Txns : RowOK(txn'[x])
    BY <1>0, <2>1, <2>2, <2>4 DEF SameRows, TypeOK
  <2>3. \A q \in Requests : RequestOK(req[q], txn')
    BY <1>0, <2>5, SameRowsOK
  <2> QED
    BY <1>0, <1>4, <2>5, <2>3, EndOK DEF ConfirmCommit, TypeOK
<1>5. ASSUME NEW p \in Requests, NEW actor \in Users, NEW t \in Txns,
             StartApprove(p, actor, t) \/ StartReject(p, actor, t)
      PROVE  Inv1'
  BY <1>5, QueuedOK, ArriveOK DEF StartApprove, StartReject, MayCredit, Deciding
<1>6. ASSUME NEW p \in Requests, NEW actor \in Users, NEW t \in Txns, NEW u \in Utrs,
             StartVerify(p, actor, t, u)
      PROVE  Inv1'
  <2> DEFINE x == Queued("verify", actor, t, u)
  <2>1. txn[t].status # "NONE" /\ actor \in Admins /\ actor # txn[t].owner
        /\ req' = [req EXCEPT ![p] = x] /\ UNCHANGED <<balance, ledger, txn, lock>>
    BY <1>6 DEF StartVerify, MayCredit
  <2>2. x \in Request /\ RequestOK(x, txn) /\ x.op = "verify" /\ x.t = t
    BY <2>1, QueuedOK DEF Deciding
  <2> QED
    BY <2>1, <2>2, ArriveOK
<1>7. ASSUME NEW p \in Requests, NEW actor \in Users, NEW w \in Users, NEW t \in Txns,
             NEW u \in Utrs, NEW a \in Amounts, StartOffline(p, actor, w, t, u, a)
      PROVE  Inv1'
  <2> DEFINE x == [Idle EXCEPT !.pc = "wait", !.op = "offline", !.actor = actor,
                               !.w = w, !.t = t, !.utr = u, !.amt = a]
  <2>1. x \in Request
    BY IdleOK DEF Request, Operations
  <2>2. /\ x.pc = "wait" /\ x.op = "offline" /\ x.w = w /\ x.t = t /\ x.utr = u /\ x.amt = a
        /\ x.rows = <<>>
    BY DEF Idle
  <2>3. txn[t].status = "NONE" /\ \A q \in Requests : req[q].t # t
    BY <1>7 DEF StartOffline, Fresh
  <2>4. RequestOK(x, txn)
    BY <2>2, <2>3 DEF RequestOK, Deciding, Posting
  <2>5. req' = [req EXCEPT ![p] = x] /\ UNCHANGED <<balance, ledger, txn, lock>>
    BY <1>7 DEF StartOffline
  <2>6. \A q \in Requests : x.t # req[q].t
    BY <2>2, <2>3
  <2> HIDE DEF x
  <2> QED
    BY <1>0, <2>1, <2>4, <2>5, <2>6, RequestStep DEF TypeOK
<1>8. ASSUME NEW p \in Requests, NEW op \in Operations, NEW w \in Users, NEW a \in Amounts,
             StartPosting(p, op, w, a)
      PROVE  Inv1'
  <2> DEFINE x == [Idle EXCEPT !.pc = "wait", !.op = op, !.w = w, !.amt = a]
  <2>1. x \in Request
    BY IdleOK DEF Request, Operations
  <2>2. x.pc = "wait" /\ x.op = op /\ x.w = w /\ x.t = NoTxn /\ x.rows = <<>> /\ op \in Posting
    BY <1>8 DEF Idle, StartPosting, Posting
  <2>3. RequestOK(x, txn)
    BY <2>2 DEF RequestOK, Deciding, Posting
  <2> QED
    BY <1>8, <2>1, <2>2, <2>3, ArriveOK DEF StartPosting, Posting
<1>9. ASSUME NEW p \in Requests, LockWallet(p) PROVE Inv1'
  <2> DEFINE x == Refreshed(p)
  <2>1. req[p].pc = "wait" /\ req[p].w \in Users /\ req[p].t \in Txns \cup {NoTxn}
        /\ req' = [req EXCEPT ![p] = x]
    BY <1>0, <1>9 DEF LockWallet, RequestOK, Request
  <2>2. balance[req[p].w] \in Int
    BY <1>0, <2>1 DEF TypeOK
  <2>3. req[p].t \in Txns => txn[req[p].t].status \in Statuses
                             /\ txn[req[p].t].utr \in Utrs \cup {NoUtr}
    BY <1>0 DEF TypeOK, RechargeRow, Statuses
  <2>4. x \in Request
    BY <1>0, <2>1, <2>2, <2>3 DEF Refreshed, Request
  <2>5. /\ x.pc = "locked" /\ x.op = req[p].op /\ x.w = req[p].w /\ x.t = req[p].t
        /\ x.utr = req[p].utr /\ x.actor = req[p].actor /\ x.amt = req[p].amt
        /\ x.rows = req[p].rows
        /\ req[p].t \in Txns => x.seen = txn[req[p].t].utr
    BY <1>0, <2>1 DEF Refreshed, Request
  <2>6. RequestOK(x, txn)
    BY <1>0, <2>1, <2>5 DEF RequestOK, Deciding, Posting
  <2>7. \A q \in Requests \ {p} : x.op = "offline" \/ req[q].op = "offline" => x.t # req[q].t
    BY <2>5 DEF Inv1, OwnIdentity
  <2> QED
    BY <1>0, <1>9, <2>1, <2>4, <2>6, <2>7, RequestStep DEF LockWallet, TypeOK
<1>10. ASSUME NEW p \in Requests, req[p].pc = "locked", req' = [req EXCEPT ![p] = Idle],
              lock' = [lock EXCEPT ![req[p].w] = NoRequest],
              balance' \in [Users -> Int], ledger' \in [Users -> Seq(Row)],
              txn' \in [Txns -> RechargeRow], \A t \in Txns : RowOK(txn'[t]),
              \A q \in Requests \ {p} : RequestOK(req[q], txn')
       PROVE  Inv1'
  BY <1>0, <1>10, EndOK DEF TypeOK
<1>11. ASSUME NEW p \in Requests, NEW u \in Utrs, CompleteRecharge(p, u),
              req[p].pc = "locked", req[p].op \in {"approve", "verify"}
       PROVE  /\ balance' \in [Users -> Int] /\ ledger' \in [Users -> Seq(Row)]
              /\ txn' \in [Txns -> RechargeRow] /\ SameRows(txn, txn')
              /\ \A t \in Txns : RowOK(txn'[t])
  <2> DEFINE t == req[p].t
  <2>1. /\ t \in Txns /\ txn[t].status # "NONE" /\ req[p].w \in Users /\ req[p].actor \in Users
        /\ (req[p].seen # NoUtr => txn[t].utr # NoUtr) /\ req[p].bal \in Int
    BY <1>0, <1>11 DEF RequestOK, Deciding, Request
  <2>2. txn[t].amount \in Amounts /\ txn[t].amount \in Int
    <3>1. RowOK(txn[t]) /\ txn[t] \in RechargeRow
      BY <1>0, <2>1 DEF TypeOK
    <3> QED
      BY <2>1, <3>1 DEF RowOK, RechargeRow
  <2>3. CASE u # req[p].seen /\ UtrTakenByOther(u, t)
    BY <1>0, <1>11, <2>3 DEF CompleteRecharge, SameRows, TypeOK
  <2>4. CASE ~(u # req[p].seen /\ UtrTakenByOther(u, t))
    <3>0. txn[t] \in RechargeRow /\ RowOK(txn[t]) /\ (u = req[p].seen => txn[t].utr \in Utrs)
      BY <1>0, <2>1, NullsAssumption DEF TypeOK, RechargeRow
    <3>1. /\ CompletedRow(p, t, u) \in RechargeRow /\ RowOK(CompletedRow(p, t, u))
          /\ CompletedRow(p, t, u).status = "COMPLETED"
          /\ CompletedRow(p, t, u).owner = txn[t].owner /\ CompletedRow(p, t, u).utr \in Utrs
      BY <2>1, <3>0 DEF CompletedRow, RechargeRow, RowOK, Statuses
    <3>2. CreditRow(p, u, txn[t].amount) \in Row
          /\ CreditRow(p, u, txn[t].amount).closing \in Int
      BY <2>1, <2>2 DEF CreditRow, Row, Kinds
    <3>3. /\ PostRow(req[p].w, CreditRow(p, u, txn[t].amount))
          /\ txn' = [txn EXCEPT ![t] = CompletedRow(p, t, u)]
      BY <1>11, <2>4 DEF CompleteRecharge
    <3>4. /\ txn' \in [Txns -> RechargeRow] /\ SameRows(txn, txn')
          /\ \A x \in Txns : RowOK(txn'[x])
      BY <1>0, <2>1, <3>1, <3>3 DEF SameRows, TypeOK
    <3>5. Append(ledger[req[p].w], CreditRow(p, u, txn[t].amount)) \in Seq(Row)
      BY <1>0, <2>1, <3>2 DEF TypeOK
    <3> QED
      BY <1>0, <2>1, <3>2, <3>3, <3>4, <3>5 DEF PostRow, TypeOK
  <2> QED
    BY <2>3, <2>4
<1>12. ASSUME NEW p \in Requests, ApproveCommit(p) \/ VerifyCommit(p) PROVE Inv1'
  <2>1. /\ req[p].pc = "locked" /\ req[p].op \in {"approve", "verify"} /\ Finish(p)
        /\ req[p].seen \in Utrs \cup {NoUtr} /\ (req[p].op = "verify" => req[p].utr \in Utrs)
    BY <1>0, <1>12 DEF ApproveCommit, VerifyCommit, Request, RequestOK
  <2>2. UNCHANGED <<balance, ledger, txn>> \/ \E u \in Utrs : CompleteRecharge(p, u)
    BY <1>12, <2>1 DEF ApproveCommit, VerifyCommit
  <2>3. /\ balance' \in [Users -> Int] /\ ledger' \in [Users -> Seq(Row)]
        /\ txn' \in [Txns -> RechargeRow] /\ SameRows(txn, txn')
        /\ \A t \in Txns : RowOK(txn'[t])
    BY <1>0, <1>11, <2>1, <2>2 DEF SameRows, TypeOK
  <2>4. \A q \in Requests : RequestOK(req[q], txn')
    BY <1>0, <2>3, SameRowsOK
  <2> QED
    BY <1>10, <2>1, <2>3, <2>4 DEF Finish
<1>13. ASSUME NEW p \in Requests, RejectCommit(p) PROVE Inv1'
  <2>1. req[p].t \in Txns /\ txn[req[p].t].status # "NONE" /\ req[p].pc = "locked"
        /\ Finish(p) /\ balance' = balance /\ ledger' = ledger
    BY <1>0, <1>13 DEF RejectCommit, RequestOK, Deciding
  <2> DEFINE t == req[p].t
             new == [txn[t] EXCEPT !.status = "FAILED"]
  <2>4. /\ new \in RechargeRow /\ RowOK(new) /\ new.status = "FAILED"
        /\ new.owner = txn[t].owner /\ new.utr = txn[t].utr
    <3>1. txn[t] \in RechargeRow /\ RowOK(txn[t])
      BY <1>0, <2>1 DEF TypeOK
    <3> QED
      BY <2>1, <3>1 DEF RechargeRow, RowOK, Statuses
  <2>5. txn' = txn \/ txn' = [txn EXCEPT ![t] = new]
    BY <1>13, <2>1 DEF RejectCommit
  <2>2. /\ txn' \in [Txns -> RechargeRow] /\ SameRows(txn, txn')
        /\ \A x \in Txns : RowOK(txn'[x])
    BY <1>0, <2>1, <2>4, <2>5 DEF SameRows, TypeOK
  <2>3. \A q \in Requests : RequestOK(req[q], txn')
    BY <1>0, <2>2, SameRowsOK
  <2> QED
    BY <1>0, <1>10, <2>1, <2>2, <2>3 DEF Finish, TypeOK
<1>14. ASSUME NEW p \in Requests, OfflineCommit(p) PROVE Inv1'
  <2> DEFINE t == req[p].t
             new == [status |-> "COMPLETED", owner |-> req[p].w, utr |-> req[p].utr,
                     amount |-> req[p].amt]
  <2>1. /\ t \in Txns /\ txn[t].status = "NONE" /\ req[p].amt \in Amounts /\ req[p].utr \in Utrs
        /\ req[p].w \in Users /\ req[p].bal \in Int /\ req[p].pc = "locked" /\ Finish(p)
        /\ req[p].op = "offline" /\ req[p].actor \in Users \cup {NoUser} /\ req[p].amt \in Int
    BY <1>0, <1>14 DEF OfflineCommit, RequestOK, Deciding, Posting, Request
  <2>2. CASE UNCHANGED <<balance, ledger, txn>>
    BY <1>0, <1>10, <2>1, <2>2 DEF Finish, TypeOK
  <2>3. CASE PostRow(req[p].w, CreditRow(p, req[p].utr, req[p].amt)) /\ txn' = [txn EXCEPT ![t] = new]
    <3>1. CreditRow(p, req[p].utr, req[p].amt) \in Row
          /\ CreditRow(p, req[p].utr, req[p].amt).closing \in Int
      BY <2>1 DEF CreditRow, Row, Kinds
    <3>2. Append(ledger[req[p].w], CreditRow(p, req[p].utr, req[p].amt)) \in Seq(Row)
      BY <1>0, <2>1, <3>1 DEF TypeOK
    <3>3. balance' \in [Users -> Int] /\ ledger' \in [Users -> Seq(Row)]
      BY <1>0, <2>1, <2>3, <3>1, <3>2 DEF PostRow, TypeOK
    <3>4. new \in RechargeRow /\ RowOK(new)
      BY <2>1 DEF RechargeRow, RowOK, Statuses
    <3>6. txn' \in [Txns -> RechargeRow] /\ \A x \in Txns : RowOK(txn'[x])
      BY <1>0, <2>1, <2>3, <3>4 DEF TypeOK
    <3>5. \A q \in Requests \ {p} : RequestOK(req[q], txn')
      BY <2>1, <2>3, NewRowOK DEF Inv1, OwnIdentity
    <3> QED
      BY <1>10, <2>1, <3>3, <3>5, <3>6 DEF Finish
  <2> QED
    BY <1>14, <2>2, <2>3 DEF OfflineCommit
<1>15. ASSUME NEW p \in Requests, NEW d \in Int, Flushed(p, d), req[p].pc = "locked",
              req[p].op \in Posting, UNCHANGED <<balance, ledger, txn, lock>>
       PROVE  Inv1'
  <2> DEFINE x == WithRow(p, d)
  <2>1. req[p].bal \in Int /\ req[p].rows \in Seq(Row) /\ req[p].t = NoTxn
    BY <1>0, <1>15 DEF RequestOK, Request
  <2>2. MovementRow(p, d) \in Row
    BY <2>1 DEF MovementRow, Row, Kinds
  <2>3. Append(req[p].rows, MovementRow(p, d)) \in Seq(Row)
    BY <2>1, <2>2
  <2> DEFINE rs == Append(req[p].rows, MovementRow(p, d))
             b == req[p].bal + d
  <2>7. rs \in Seq(Row) /\ b \in Int /\ req[p] \in Request
    BY <1>0, <2>1, <2>3
  <2>8. x = [req[p] EXCEPT !.rows = rs, !.bal = b]
    BY DEF WithRow
  <2> HIDE DEF rs, b
  <2>4. [req[p] EXCEPT !.rows = rs, !.bal = b] \in Request
    BY <2>7 DEF Request
  <2>5. x.pc = "locked" /\ x.op = req[p].op /\ x.w = req[p].w /\ x.t = NoTxn
    BY <1>0, <1>15, <2>1, <2>7, <2>8 DEF Request
  <2>6. RequestOK(x, txn) /\ x.op # "offline"
    BY <1>0, <1>15, <2>5 DEF RequestOK, Deciding, Posting
  <2>9. req' = [req EXCEPT ![p] = x]
    BY <1>15 DEF Flushed
  <2>10. x \in Request
    BY <2>4, <2>8
  <2> HIDE DEF x
  <2> QED
    BY <1>15, <2>5, <2>6, <2>9, <2>10, ArriveOK
<1>16. ASSUME NEW p \in Requests, Spend(p) PROVE Inv1'
  BY <1>0, <1>15, <1>16 DEF Spend, Posting, Request
<1>17. ASSUME NEW p \in Requests, NEW a \in Amounts, NEW sign \in {-1, 1},
              PostMovement(p, sign * a)
       PROVE  Inv1'
  <2>1. sign * a \in Int
    BY <1>17
  <2> QED
    BY <1>15, <1>17, <2>1 DEF PostMovement, Posting
<1>18. ASSUME NEW p \in Requests, SpendRefused(p) PROVE Inv1'
  BY <1>0, <1>10, <1>18 DEF SpendRefused, Finish, TypeOK
<1>19. ASSUME NEW p \in Requests, PostingCommit(p) PROVE Inv1'
  <2>1. req[p].bal \in Int /\ req[p].rows \in Seq(Row) /\ req[p].w \in Users
    BY <1>0, <1>19 DEF PostingCommit, RequestOK, Request
  <2>2. balance' \in [Users -> Int] /\ ledger' \in [Users -> Seq(Row)] /\ txn' = txn
    BY <1>0, <1>19, <2>1 DEF PostingCommit, TypeOK
  <2>3. /\ txn' \in [Txns -> RechargeRow] /\ \A t \in Txns : RowOK(txn'[t])
        /\ \A q \in Requests : RequestOK(req[q], txn')
    BY <1>0, <2>2 DEF TypeOK
  <2>4. /\ req[p].pc = "locked" /\ req' = [req EXCEPT ![p] = Idle]
        /\ lock' = [lock EXCEPT ![req[p].w] = NoRequest]
    BY <1>19 DEF PostingCommit, Finish
  <2> QED
    BY <1>10, <2>2, <2>3, <2>4
<1>20. ASSUME NEW p \in Requests, Abort(p) PROVE Inv1'
  <2>1. lock' \in [Users -> Requests \cup {NoRequest}]
    BY <1>0, <1>20 DEF Abort, TypeOK
  <2> QED
    BY <1>0, <1>20, <2>1, EndOK DEF Abort, TypeOK
<1>21. CASE UNCHANGED vars
  BY <1>21 DEF vars, Inv1, TypeOK, OwnIdentity
<1> QED
  BY <1>1, <1>2, <1>3, <1>4, <1>5, <1>6, <1>7, <1>8, <1>9, <1>12, <1>13, <1>14, <1>16,
     <1>17, <1>18, <1>19, <1>20, <1>21 DEF Next, Arrive, Step

\* Type correctness: whatever the requests do, every row and every request in flight
\* stays well formed; a COMPLETED recharge always carries a UTR.
THEOREM TypeCorrect == Spec => []TypeOK
<1>1. Inv1 => TypeOK
  BY DEF Inv1
<1> QED
  BY <1>1, InitInv1, NextInv1, PTL DEF Spec
-----------------------------------------------------------------------------
(* The passbook: chains of rows. *)

LEMMA ChainsAppend ==
  ASSUME NEW s \in Seq(Row), NEW b \in Int, NEW r \in Row, Chains(s, b),
         r.opening = Closing(s, b), r.closing = r.opening + r.delta
  PROVE  Chains(Append(s, r), b) /\ Closing(Append(s, r), b) = r.closing
<1> DEFINE z == Append(s, r)
<1>1. z \in Seq(Row) /\ Len(z) = Len(s) + 1 /\ z[Len(z)] = r
      /\ Len(s) \in Nat /\ \A i \in 1..Len(s) : z[i] = s[i]
  OBVIOUS
<1>2. z # <<>>
  BY <1>1
<1>3. s = <<>> <=> Len(s) = 0
  OBVIOUS
<1> HIDE DEF z
<1>4. ASSUME NEW i \in 1..Len(z)
      PROVE  z[i].opening = Opening(z, b, i) /\ z[i].closing = z[i].opening + z[i].delta
  <2>1. CASE i \in 1..Len(s)
    <3>1. z[i] = s[i] /\ (i # 1 => i - 1 \in 1..Len(s) /\ z[i - 1] = s[i - 1])
      BY <1>1, <2>1
    <3> QED
      BY <2>1, <3>1 DEF Chains, Opening
  <2>2. CASE i = Len(s) + 1
    <3>1. z[i] = r
      BY <1>1, <2>2
    <3>2. CASE s = <<>>
      BY <1>3, <2>2, <3>1, <3>2 DEF Opening, Closing
    <3>3. CASE s # <<>>
      <4>1. Len(s) \in 1..Len(s) /\ i # 1 /\ i - 1 = Len(s)
        BY <1>1, <1>3, <2>2, <3>3
      <4>2. z[i - 1] = s[Len(s)]
        BY <1>1, <4>1
      <4> QED
        BY <3>1, <3>3, <4>1, <4>2 DEF Opening, Closing
    <3> QED
      BY <3>2, <3>3
  <2> QED
    BY <1>1, <2>1, <2>2
<1>5. Chains(z, b)
  BY <1>4 DEF Chains
<1>6. Closing(z, b) = r.closing
  BY <1>1, <1>2 DEF Closing
<1> QED
  BY <1>5, <1>6 DEF z

LEMMA ChainsConcat ==
  ASSUME NEW s \in Seq(Row), NEW q \in Seq(Row), NEW b \in Int, Chains(s, b),
         Chains(q, Closing(s, b)), q # <<>>
  PROVE  Chains(s \o q, b) /\ Closing(s \o q, b) = Closing(q, Closing(s, b))
<1> DEFINE z == s \o q
<1>1. /\ Len(s) \in Nat /\ Len(q) \in Nat /\ Len(q) > 0 /\ Len(z) = Len(s) + Len(q)
      /\ \A i \in 1..Len(s) : z[i] = s[i]
      /\ \A i \in 1..Len(q) : z[Len(s) + i] = q[i]
  OBVIOUS
<1>2. z # <<>> /\ (s = <<>> <=> Len(s) = 0)
  OBVIOUS
<1> HIDE DEF z
<1>3. ASSUME NEW i \in 1..Len(z)
      PROVE  z[i].opening = Opening(z, b, i) /\ z[i].closing = z[i].opening + z[i].delta
  <2>1. CASE i \in 1..Len(s)
    <3>1. z[i] = s[i] /\ (i # 1 => i - 1 \in 1..Len(s) /\ z[i - 1] = s[i - 1])
      BY <1>1, <2>1
    <3> QED
      BY <2>1, <3>1 DEF Chains, Opening
  <2>2. CASE i > Len(s)
    <3> DEFINE j == i - Len(s)
    <3>1. j \in 1..Len(q) /\ i = Len(s) + j
      BY <1>1, <2>2
    <3>2. z[i] = q[j]
      BY <1>1, <3>1
    <3>3. q[j].opening = Opening(q, Closing(s, b), j) /\ q[j].closing = q[j].opening + q[j].delta
      BY <3>1 DEF Chains
    <3>4. Opening(q, Closing(s, b), j) = Opening(z, b, i)
      <4>1. CASE j = 1 /\ s = <<>>
        BY <1>2, <3>1, <4>1 DEF Opening, Closing
      <4>2. CASE j = 1 /\ s # <<>>
        <5>1. Len(s) \in 1..Len(s) /\ i # 1 /\ i - 1 = Len(s) /\ z[i - 1] = s[Len(s)]
          BY <1>1, <1>2, <3>1, <4>2
        <5> QED
          BY <4>2, <5>1 DEF Opening, Closing
      <4>3. CASE j # 1
        <5>1. i # 1 /\ j - 1 \in 1..Len(q) /\ i - 1 = Len(s) + (j - 1)
          BY <1>1, <3>1, <4>3
        <5>2. z[i - 1] = q[j - 1]
          BY <1>1, <5>1
        <5> QED
          BY <4>3, <5>1, <5>2 DEF Opening
      <4> QED
        BY <4>1, <4>2, <4>3
    <3> QED
      BY <3>2, <3>3, <3>4
  <2> QED
    BY <1>1, <2>1, <2>2
<1>4. Closing(z, b) = Closing(q, Closing(s, b))
  <2>1. z[Len(z)] = q[Len(q)] /\ q # <<>>
    BY <1>1
  <2> QED
    BY <1>2, <2>1 DEF Closing
<1> QED
  BY <1>3, <1>4 DEF Chains, z
-----------------------------------------------------------------------------
(* The inductive invariant behind the safety properties: a request in the  *)
(* locked part of its handler is the only one there for its wallet, and    *)
(* the balance and the status it carries are the current ones.             *)

Affordable(row) ==
    row.kind = "SPEND" => row.opening >= -row.delta /\ row.opening >= Floor

\* The rows a posting has flushed: they credit no recharge.
FlushedOK(s) ==
    \A i \in 1..Len(s) : /\ s[i].kind \in {"SPEND", "MOVEMENT"} /\ s[i].txn = NoTxn
                         /\ Affordable(s[i])

Locked(p) ==
    req[p].pc = "locked" =>
        /\ lock[req[p].w] = p
        /\ Chains(req[p].rows, balance[req[p].w])
        /\ req[p].bal = Closing(req[p].rows, balance[req[p].w])
        /\ FlushedOK(req[p].rows)
        /\ req[p].op \in Deciding => req[p].st = txn[req[p].t].status

LedgerRowsOK ==
    \A w \in Users : \A i \in 1..Len(ledger[w]) :
        /\ Affordable(ledger[w][i])
        /\ ledger[w][i].kind = "RECHARGE" => ledger[w][i].by \in Admins \ {w}

IInv ==
    /\ Inv1
    /\ \A p \in Requests : Locked(p)
    /\ PassbookAddsUp
    /\ LedgerRowsOK
    /\ CreditedExactlyWhenCompleted

LEMMA InitIInv == Init => IInv
<1> SUFFICES ASSUME Init PROVE IInv
  OBVIOUS
<1>1. Inv1
  BY InitInv1
<1>2. \A w \in Users : ledger[w] = <<>> /\ Len(ledger[w]) = 0 /\ balance[w] = 0
  BY DEF Init
<1>3. \A p \in Requests : req[p].pc = "idle"
  BY IdleOK DEF Init
<1>4. \A t \in Txns : txn[t].status = "NONE"
  BY DEF Init
<1> QED
  BY <1>1, <1>2, <1>3, <1>4 DEF IInv, Locked, PassbookAddsUp, LedgerRowsOK, Chains, Closing,
     CreditedExactlyWhenCompleted, Credits

\* A step that posts nothing: the requests still locked are untouched and still hold
\* their wallet, and no status they rely on moves.
LEMMA QuietOK ==
  ASSUME IInv, Inv1', UNCHANGED <<balance, ledger>>,
         \A q \in Requests : req'[q].pc = "locked" =>
            /\ req'[q] = req[q] /\ lock'[req[q].w] = q
            /\ req[q].op \in Deciding => txn'[req[q].t].status = txn[req[q].t].status,
         \A t \in Txns : /\ txn'[t].status = "COMPLETED" <=> txn[t].status = "COMPLETED"
                         /\ txn[t].status = "COMPLETED" => /\ txn'[t].owner = txn[t].owner
                                                           /\ txn'[t].amount = txn[t].amount
  PROVE  IInv'
<1>1. \A q \in Requests : Locked(q)'
  BY DEF IInv, Locked
<1>2. PassbookAddsUp' /\ LedgerRowsOK'
  BY DEF IInv, PassbookAddsUp, LedgerRowsOK
<1>3. CreditedExactlyWhenCompleted'
  BY DEF IInv, CreditedExactlyWhenCompleted, Credits
<1> QED
  BY <1>1, <1>2, <1>3 DEF IInv

\* Two requests in the locked part work on different wallets.
LEMMA Exclusion ==
  ASSUME IInv, NEW p \in Requests, NEW q \in Requests, p # q,
         req[p].pc = "locked", req[q].pc = "locked"
  PROVE  req[p].w # req[q].w
  BY DEF IInv, Locked

\* Committing rows to the wallet of p disturbs no other locked request and keeps every
\* passbook adding up.
LEMMA CommitOK ==
  ASSUME IInv, Inv1', NEW p \in Requests, NEW s \in Seq(Row), NEW b \in Int,
         req[p].pc = "locked", Finish(p),
         balance' = [balance EXCEPT ![req[p].w] = b],
         ledger' = [ledger EXCEPT ![req[p].w] = s],
         Chains(s, 0), b = Closing(s, 0),
         \A q \in Requests \ {p} : req[q].pc = "locked" /\ req[q].op \in Deciding =>
            txn'[req[q].t].status = txn[req[q].t].status
  PROVE  (\A q \in Requests : Locked(q)') /\ PassbookAddsUp'
<1>1. TypeOK /\ req[p].w \in Users
  BY DEF IInv, Inv1, TypeOK, RequestOK
<1>2. ASSUME NEW q \in Requests PROVE Locked(q)'
  <2>1. CASE q = p
    BY <1>1, <2>1, IdleOK DEF Finish, Locked, TypeOK
  <2>2. CASE q # p /\ req[q].pc = "locked"
    <3>1. req[q].w # req[p].w /\ req[q].w \in Users
      BY <2>2, Exclusion DEF IInv, Inv1, RequestOK
    <3>2. req'[q] = req[q] /\ lock'[req[q].w] = lock[req[q].w]
          /\ balance'[req[q].w] = balance[req[q].w]
      BY <1>1, <2>2, <3>1 DEF Finish, TypeOK
    <3>3. Locked(q)
      BY DEF IInv
    <3> QED
      BY <2>2, <3>2, <3>3 DEF Locked
  <2>3. CASE q # p /\ req[q].pc # "locked"
    BY <1>1, <2>3 DEF Finish, Locked, TypeOK
  <2> QED
    BY <2>1, <2>2, <2>3
<1>3. PassbookAddsUp'
  BY <1>1 DEF PassbookAddsUp, IInv, TypeOK
<1> QED
  BY <1>2, <1>3

\* Crediting recharge t, not yet COMPLETED, to the locked wallet of p.
LEMMA CreditOK ==
  ASSUME IInv, Inv1', NEW p \in Requests, NEW u \in Utrs, NEW a \in Amounts, NEW new,
         req[p].pc = "locked", req[p].op \in {"approve", "verify", "offline"}, Finish(p),
         req[p].t \in Txns, txn[req[p].t].status # "COMPLETED",
         txn[req[p].t].owner = req[p].w \/ txn[req[p].t].status = "NONE",
         PostRow(req[p].w, CreditRow(p, u, a)),
         txn' = [txn EXCEPT ![req[p].t] = new],
         new.status = "COMPLETED", new.owner = req[p].w, new.amount = a
  PROVE  IInv'
<1> DEFINE t == req[p].t
           w == req[p].w
           r == CreditRow(p, u, a)
           s == Append(ledger[w], r)
<1> USE AmountsAssumption, NullsAssumption
<1>0. TypeOK /\ req[p] \in Request /\ RequestOK(req[p], txn)
  BY DEF IInv, Inv1, TypeOK
<1>1. TypeOK /\ w \in Users /\ req[p].rows = <<>> /\ req[p].bal \in Int /\ a \in Int
      /\ req[p].actor \in Users \cup {NoUser}
      /\ (req[p].op \in {"approve", "verify"} => req[p].actor \in Admins \ {w})
  <2>1. req[p].bal \in Int /\ req[p].actor \in Users \cup {NoUser} /\ a \in Int
    BY <1>0 DEF Request
  <2>2. req[p].rows = <<>> /\ w \in Users
        /\ (req[p].op \in {"approve", "verify"} => req[p].actor \in Admins \ {w})
    BY <1>0 DEF RequestOK, Posting
  <2> QED
    BY <1>0, <2>1, <2>2
<1>2. /\ r \in Row /\ r.opening = req[p].bal /\ r.closing = r.opening + r.delta /\ r.delta = a
      /\ r.txn = t /\ r.by = req[p].actor /\ r.closing \in Int
      /\ r.kind = IF req[p].op = "offline" THEN "OFFLINE" ELSE "RECHARGE"
  BY <1>1 DEF CreditRow, Row, Kinds
<1>3. req[p].bal = balance[w] /\ balance[w] = Closing(ledger[w], 0) /\ Chains(ledger[w], 0)
  BY <1>1 DEF IInv, Locked, PassbookAddsUp, Closing
<1>4. ledger[w] \in Seq(Row)
  BY <1>1 DEF TypeOK
<1>5. s \in Seq(Row) /\ Len(s) = Len(ledger[w]) + 1 /\ s[Len(s)] = r /\ Len(ledger[w]) \in Nat
      /\ \A i \in 1..Len(ledger[w]) : s[i] = ledger[w][i]
  BY <1>2, <1>4
<1>6. Chains(s, 0) /\ Closing(s, 0) = r.closing
  BY <1>2, <1>3, <1>4, ChainsAppend
<1>7. balance' = [balance EXCEPT ![w] = r.closing] /\ ledger' = [ledger EXCEPT ![w] = s]
  BY DEF PostRow
<1> HIDE DEF s, r
<1>8. \A q \in Requests \ {p} : req[q].pc = "locked" /\ req[q].op \in Deciding =>
         txn'[req[q].t].status = txn[req[q].t].status
  <2> SUFFICES ASSUME NEW q \in Requests \ {p}, req[q].pc = "locked", req[q].op \in Deciding
               PROVE  txn'[req[q].t].status = txn[req[q].t].status
    OBVIOUS
  <2>1. req[q].t \in Txns /\ txn[req[q].t].status # "NONE" /\ txn[req[q].t].owner = req[q].w
    BY DEF IInv, Inv1, RequestOK
  <2>2. req[q].w # w
    BY Exclusion
  <2> QED
    BY <1>1, <2>1, <2>2 DEF TypeOK
<1>9. (\A q \in Requests : Locked(q)') /\ PassbookAddsUp'
  BY <1>2, <1>5, <1>6, <1>7, <1>8, CommitOK
<1>10. ledger' \in [Users -> Seq(Row)] /\ ledger'[w] = s
       /\ \A x \in Users \ {w} : ledger'[x] = ledger[x]
  BY <1>1, <1>7 DEF TypeOK, IInv, Inv1
<1>11. LedgerRowsOK'
  <2> SUFFICES ASSUME NEW x \in Users, NEW i \in 1..Len(ledger'[x])
               PROVE  /\ Affordable(ledger'[x][i])
                      /\ ledger'[x][i].kind = "RECHARGE" => ledger'[x][i].by \in Admins \ {x}
    BY DEF LedgerRowsOK, Affordable
  <2>1. CASE x = w /\ i = Len(s)
    BY <1>1, <1>2, <1>5, <1>10, <2>1 DEF Affordable
  <2>2. CASE ~(x = w /\ i = Len(s))
    <3>1. i \in 1..Len(ledger[x]) /\ ledger'[x][i] = ledger[x][i]
      BY <1>5, <1>10, <2>2
    <3> QED
      BY <3>1 DEF IInv, LedgerRowsOK
  <2> QED
    BY <2>1, <2>2
<1>12. /\ txn'[t] = new /\ \A x \in Txns \ {t} : txn'[x] = txn[x]
  BY <1>1 DEF TypeOK
<1>13. \A x \in Users : \A i \in 1..Len(ledger[x]) : ledger[x][i].txn # t
  BY DEF IInv, CreditedExactlyWhenCompleted, Credits
<1>14. CreditedExactlyWhenCompleted'
  <2> DEFINE C(x, i, z) == i \in 1..Len(ledger'[x]) /\ ledger'[x][i].txn = z
  <2>1. ASSUME NEW z \in Txns
        PROVE  /\ txn'[z].status = "COMPLETED" =>
                     \E i \in 1..Len(ledger'[txn'[z].owner]) : C(txn'[z].owner, i, z)
               /\ \A x \in Users : \A i \in 1..Len(ledger'[x]) :
                     C(x, i, z) =>
                       /\ txn'[z].status = "COMPLETED" /\ x = txn'[z].owner
                       /\ ledger'[x][i].delta = txn'[z].amount
                       /\ \A j \in 1..Len(ledger'[x]) : C(x, j, z) => j = i
    <3>1. CASE z = t
      <4>1. Len(s) \in 1..Len(ledger'[w]) /\ ledger'[w][Len(s)] = r
        BY <1>5, <1>10
      <4>2. ASSUME NEW x \in Users, NEW i \in 1..Len(ledger'[x]), C(x, i, z)
            PROVE  x = w /\ i = Len(s)
        <5>1. CASE x # w
          BY <1>10, <1>13, <3>1, <4>2, <5>1
        <5>2. CASE x = w /\ i # Len(s)
          <6>1. i \in 1..Len(ledger[w]) /\ ledger'[w][i] = ledger[w][i]
            BY <1>5, <1>10, <5>2
          <6> QED
            BY <1>1, <1>13, <3>1, <4>2, <5>2, <6>1
        <5> QED
          BY <5>1, <5>2
      <4>3. C(w, Len(s), z) /\ txn'[z].owner = w /\ txn'[z].amount = a
            /\ txn'[z].status = "COMPLETED"
        BY <1>2, <1>12, <3>1, <4>1
      <4> HIDE DEF C
      <4> QED
        BY <1>2, <4>1, <4>2, <4>3
    <3>2. CASE z # t
      <4>1. txn'[z] = txn[z]
        BY <1>12, <3>2
      <4>2. ASSUME NEW x \in Users, NEW i \in 1..Len(ledger'[x]), C(x, i, z)
            PROVE  Credits(x, i, z) /\ ledger'[x][i] = ledger[x][i]
        <5>1. CASE x # w
          BY <1>10, <4>2, <5>1 DEF Credits
        <5>2. CASE x = w
          <6>1. i # Len(s)
            BY <1>2, <1>5, <1>10, <3>2, <4>2, <5>2
          <6>2. i \in 1..Len(ledger[w]) /\ ledger'[w][i] = ledger[w][i]
            BY <1>5, <1>10, <5>2, <6>1
          <6> QED
            BY <4>2, <5>2, <6>2 DEF Credits
        <5> QED
          BY <5>1, <5>2
      <4>3. ASSUME NEW x \in Users, NEW i \in 1..Len(ledger[x]), Credits(x, i, z)
            PROVE  i \in 1..Len(ledger'[x]) /\ C(x, i, z)
        <5>1. i \in 1..Len(ledger'[x]) /\ ledger'[x][i] = ledger[x][i]
          <6>1. CASE x = w
            <7>1. i \in 1..Len(s) /\ s[i] = ledger[x][i]
              BY <1>5, <6>1
            <7> QED
              BY <1>10, <6>1, <7>1
          <6>2. CASE x # w
            BY <1>10, <6>2
          <6> QED
            BY <6>1, <6>2
        <5> QED
          BY <4>3, <5>1 DEF Credits
      <4>4. txn[z].status = "COMPLETED" => txn[z].owner \in Users
        BY <1>1 DEF TypeOK, RowOK
      <4>5. \A x \in Users : \A i : Credits(x, i, z) => i \in 1..Len(ledger[x])
        BY DEF Credits
      <4>6. \A x \in Users : \A i : C(x, i, z) => i \in 1..Len(ledger'[x])
        OBVIOUS
      <4>7. /\ txn[z].status = "COMPLETED" =>
                  \E i \in 1..Len(ledger[txn[z].owner]) : Credits(txn[z].owner, i, z)
            /\ \A x \in Users : \A i \in 1..Len(ledger[x]) :
                  Credits(x, i, z) =>
                    /\ txn[z].status = "COMPLETED" /\ x = txn[z].owner
                    /\ ledger[x][i].delta = txn[z].amount
                    /\ \A j \in 1..Len(ledger[x]) : Credits(x, j, z) => j = i
        BY DEF IInv, CreditedExactlyWhenCompleted
      <4> HIDE DEF C
      <4>8. txn'[z].status = "COMPLETED" =>
               \E i \in 1..Len(ledger'[txn'[z].owner]) : C(txn'[z].owner, i, z)
        BY <4>1, <4>3, <4>4, <4>7
      <4>9. ASSUME NEW x \in Users, NEW i \in 1..Len(ledger'[x]), C(x, i, z)
            PROVE  /\ txn'[z].status = "COMPLETED" /\ x = txn'[z].owner
                   /\ ledger'[x][i].delta = txn'[z].amount
                   /\ \A j \in 1..Len(ledger'[x]) : C(x, j, z) => j = i
        <5>1. Credits(x, i, z) /\ ledger'[x][i] = ledger[x][i] /\ i \in 1..Len(ledger[x])
          BY <4>2, <4>5, <4>9
        <5>2. \A j \in 1..Len(ledger'[x]) : C(x, j, z) =>
                 Credits(x, j, z) /\ j \in 1..Len(ledger[x])
          BY <4>2, <4>5
        <5> QED
          BY <4>1, <4>7, <5>1, <5>2
      <4> QED
        BY <4>8, <4>9
    <3> QED
      BY <3>1, <3>2
  <2> QED
    BY <2>1 DEF CreditedExactlyWhenCompleted, Credits
<1> QED
  BY <1>9, <1>11, <1>14 DEF IInv

LEMMA ConcatRows ==
  ASSUME NEW s \in Seq(Row), NEW q \in Seq(Row)
  PROVE  /\ Len(s \o q) = Len(s) + Len(q) /\ Len(s) \in Nat /\ Len(q) \in Nat
         /\ \A i \in 1..Len(s) : (s \o q)[i] = s[i] /\ i \in 1..Len(s \o q)
         /\ \A i \in 1..Len(s \o q) : i \notin 1..Len(s) =>
               i - Len(s) \in 1..Len(q) /\ (s \o q)[i] = q[i - Len(s)]
  OBVIOUS

\* Appending the flushed rows of a posting.
LEMMA PostingOK ==
  ASSUME IInv, Inv1', NEW p \in Requests, PostingCommit(p)
  PROVE  IInv'
<1> DEFINE w == req[p].w
           s == ledger[w] \o req[p].rows
<1> USE NullsAssumption
<1>1. TypeOK /\ w \in Users /\ req[p].rows \in Seq(Row) /\ req[p].pc = "locked"
      /\ req[p].rows # <<>> /\ ledger[w] \in Seq(Row) /\ balance[w] \in Int /\ req[p].bal \in Int
  BY DEF IInv, Inv1, TypeOK, RequestOK, Request, PostingCommit
<1>2. /\ Chains(req[p].rows, balance[w]) /\ req[p].bal = Closing(req[p].rows, balance[w])
      /\ FlushedOK(req[p].rows) /\ Chains(ledger[w], 0) /\ balance[w] = Closing(ledger[w], 0)
  BY <1>1 DEF IInv, Locked, PassbookAddsUp
<1>3. s \in Seq(Row) /\ Chains(s, 0) /\ req[p].bal = Closing(s, 0)
  BY <1>1, <1>2, ChainsConcat
<1>4. /\ balance' = [balance EXCEPT ![w] = req[p].bal] /\ ledger' = [ledger EXCEPT ![w] = s]
      /\ Finish(p) /\ txn' = txn
  BY DEF PostingCommit
<1>5. /\ \A i \in 1..Len(ledger[w]) : s[i] = ledger[w][i]
      /\ \A i \in 1..Len(s) : i \in 1..Len(ledger[w])
            \/ \E j \in 1..Len(req[p].rows) : s[i] = req[p].rows[j]
      /\ \A i \in 1..Len(ledger[w]) : i \in 1..Len(s)
  <2>1. /\ \A i \in 1..Len(ledger[w]) : s[i] = ledger[w][i] /\ i \in 1..Len(s)
        /\ \A i \in 1..Len(s) : i \notin 1..Len(ledger[w]) =>
              i - Len(ledger[w]) \in 1..Len(req[p].rows)
              /\ s[i] = req[p].rows[i - Len(ledger[w])]
    BY <1>1, ConcatRows
  <2> HIDE DEF s
  <2> QED
    BY <2>1
<1> HIDE DEF s
<1>6. (\A q \in Requests : Locked(q)') /\ PassbookAddsUp'
  BY <1>1, <1>3, <1>4, CommitOK
<1>7. ledger'[w] = s /\ \A x \in Users \ {w} : ledger'[x] = ledger[x]
  BY <1>1, <1>4 DEF TypeOK
<1>8. ASSUME NEW x \in Users, NEW i \in 1..Len(ledger'[x])
      PROVE  \/ i \in 1..Len(ledger[x]) /\ ledger'[x][i] = ledger[x][i]
             \/ /\ Affordable(ledger'[x][i]) /\ ledger'[x][i].kind # "RECHARGE"
                /\ ledger'[x][i].txn = NoTxn
  <2>1. CASE x # w
    BY <1>7, <2>1
  <2>2. CASE x = w
    <3>1. CASE i \in 1..Len(ledger[w])
      BY <1>5, <1>7, <2>2, <3>1
    <3>2. CASE i \notin 1..Len(ledger[w])
      <4>1. PICK j \in 1..Len(req[p].rows) : s[i] = req[p].rows[j]
        BY <1>5, <1>7, <2>2, <3>2
      <4>2. /\ req[p].rows[j].kind \in {"SPEND", "MOVEMENT"} /\ req[p].rows[j].txn = NoTxn
            /\ Affordable(req[p].rows[j])
        BY <1>2 DEF FlushedOK
      <4> QED
        BY <1>7, <2>2, <4>1, <4>2
    <3> QED
      BY <3>1, <3>2
  <2> QED
    BY <2>1, <2>2
<1>9. LedgerRowsOK'
  BY <1>8 DEF LedgerRowsOK, IInv, Affordable
<1>10. CreditedExactlyWhenCompleted'
  <2>1. \A x \in Users, z \in Txns : \A i \in 1..Len(ledger'[x]) :
             /\ Credits(x, i, z)' <=> Credits(x, i, z)
             /\ Credits(x, i, z) => ledger'[x][i] = ledger[x][i] /\ i \in 1..Len(ledger[x])
    BY <1>5, <1>7, <1>8 DEF Credits
  <2>2. \A x \in Users : \A i \in 1..Len(ledger[x]) : i \in 1..Len(ledger'[x])
    BY <1>5, <1>7
  <2>3. \A z \in Txns : txn[z].status = "COMPLETED" => txn[z].owner \in Users
    BY <1>1 DEF TypeOK, RowOK
  <2> QED
    BY <1>4, <2>1, <2>2, <2>3 DEF IInv, CreditedExactlyWhenCompleted
<1> QED
  BY <1>6, <1>9, <1>10 DEF IInv

LEMMA NextIInv == IInv /\ [Next]_vars => IInv'
<1> SUFFICES ASSUME IInv, [Next]_vars PROVE IInv'
  OBVIOUS
<1> USE NullsAssumption, AmountsAssumption
<1>0. /\ Inv1' /\ TypeOK
      /\ \A q \in Requests : req[q] \in Request /\ RequestOK(req[q], txn) /\ Locked(q)
  BY NextInv1 DEF IInv, Inv1, TypeOK
<1>1. ASSUME NEW u \in Users, NEW t \in Txns, NEW a \in Amounts, CreateIntent(u, t, a)
      PROVE  IInv'
  <2>1. /\ UNCHANGED <<balance, ledger, lock, req>> /\ txn[t].status = "NONE"
        /\ txn'[t].status = "PENDING" /\ \A x \in Txns \ {t} : txn'[x] = txn[x]
        /\ \A q \in Requests : req[q].t # t
    BY <1>0, <1>1 DEF CreateIntent, Fresh, TypeOK
  <2>2. \A q \in Requests : req'[q].pc = "locked" =>
            /\ req'[q] = req[q] /\ lock'[req[q].w] = q
            /\ req[q].op \in Deciding => txn'[req[q].t].status = txn[req[q].t].status
    BY <1>0, <2>1 DEF Locked, RequestOK
  <2>3. \A x \in Txns : /\ txn'[x].status = "COMPLETED" <=> txn[x].status = "COMPLETED"
                        /\ txn[x].status = "COMPLETED" => txn'[x] = txn[x]
    BY <2>1
  <2> QED
    BY <1>0, <2>1, <2>2, <2>3, QuietOK
<1>2. ASSUME NEW p \in Requests, NEW x, req' = [req EXCEPT ![p] = x], x.pc # "locked",
             UNCHANGED <<balance, ledger, lock>>,
             \A t \in Txns : txn'[t].status = txn[t].status /\ txn'[t].owner = txn[t].owner
                             /\ txn'[t].amount = txn[t].amount
      PROVE  IInv'
  <2>1. \A q \in Requests : req'[q] = IF q = p THEN x ELSE req[q]
    BY <1>0, <1>2 DEF TypeOK
  <2>2. \A q \in Requests : req'[q].pc = "locked" =>
            /\ req'[q] = req[q] /\ lock'[req[q].w] = q
            /\ req[q].op \in Deciding => txn'[req[q].t].status = txn[req[q].t].status
    BY <1>0, <1>2, <2>1 DEF Locked, RequestOK
  <2> QED
    BY <1>0, <1>2, <2>2, QuietOK
<1>3. ASSUME NEW p \in Requests, Arrive(p) PROVE IInv'
  <2>1. PICK x : req' = [req EXCEPT ![p] = x] /\ x.pc \in {"dup", "wait"}
                 /\ UNCHANGED <<balance, ledger, lock, txn>>
    BY <1>3 DEF Arrive, ConfirmRead, StartApprove, StartReject, StartVerify, StartOffline,
       StartPosting, Queued, Idle
  <2> QED
    BY <1>2, <2>1
<1>4. ASSUME NEW p \in Requests, ConfirmDupCheck(p) PROVE IInv'
  <2>1. PICK x : req' = [req EXCEPT ![p] = x] /\ x.pc # "locked"
                 /\ UNCHANGED <<balance, ledger, lock, txn>>
    <3>1. [req[p] EXCEPT !.pc = "write"].pc = "write"
      BY <1>0 DEF Request
    <3> QED
      BY <1>4, <3>1, IdleOK DEF ConfirmDupCheck
  <2> QED
    BY <1>2, <2>1
<1>5. ASSUME NEW p \in Requests, ConfirmCommit(p) PROVE IInv'
  <2>1. req[p].t \in Txns /\ txn[req[p].t] \in RechargeRow
    BY <1>0, <1>5 DEF ConfirmCommit, RequestOK, TypeOK
  <2>2. /\ ConfirmedRow(p).status = txn[req[p].t].status
        /\ ConfirmedRow(p).owner = txn[req[p].t].owner
        /\ ConfirmedRow(p).amount = txn[req[p].t].amount
    BY <2>1 DEF ConfirmedRow, RechargeRow
  <2>3. \A t \in Txns : txn'[t].status = txn[t].status /\ txn'[t].owner = txn[t].owner
                        /\ txn'[t].amount = txn[t].amount
    BY <1>0, <1>5, <2>1, <2>2 DEF ConfirmCommit, TypeOK
  <2> QED
    BY <1>2, <1>5, <2>3, IdleOK DEF ConfirmCommit
<1>6. ASSUME NEW p \in Requests, LockWallet(p) PROVE IInv'
  <2> DEFINE x == Refreshed(p)
             w == req[p].w
  <2>1. /\ req[p].pc = "wait" /\ w \in Users /\ req[p].t \in Txns \cup {NoTxn}
        /\ req[p].rows = <<>> /\ req' = [req EXCEPT ![p] = x] /\ lock[w] = NoRequest
        /\ lock' = [lock EXCEPT ![w] = p] /\ UNCHANGED <<balance, ledger, txn>>
        /\ req[p].op \in Deciding => req[p].t \in Txns
    BY <1>0, <1>6 DEF LockWallet, RequestOK, Request
  <2>2. /\ x.w = w /\ x.rows = <<>> /\ x.bal = balance[w] /\ x.op = req[p].op /\ x.t = req[p].t
        /\ req[p].t \in Txns => x.st = txn[req[p].t].status
    BY <1>0, <2>1 DEF Refreshed, Request
  <2> HIDE DEF x
  <2>3. /\ req'[p] = x /\ lock'[w] = p
        /\ \A q \in Requests \ {p} : req'[q] = req[q]
        /\ \A u \in Users \ {w} : lock'[u] = lock[u]
    BY <1>0, <2>1 DEF TypeOK
  <2>4. Locked(p)'
    BY <2>1, <2>2, <2>3 DEF Locked, Chains, Closing, FlushedOK
  <2>5. ASSUME NEW q \in Requests \ {p} PROVE Locked(q)'
    <3>1. req[q].pc = "locked" => req[q].w # w /\ req[q].w \in Users
      BY <1>0, <2>1 DEF Locked, RequestOK
    <3>2. Locked(q)
      BY <1>0
    <3> QED
      BY <2>1, <2>3, <3>1, <3>2 DEF Locked
  <2> QED
    BY <1>0, <2>1, <2>4, <2>5 DEF IInv, PassbookAddsUp, LedgerRowsOK,
       CreditedExactlyWhenCompleted, Credits
<1>7. ASSUME NEW p \in Requests, Finish(p), UNCHANGED <<balance, ledger>>,
             req[p].pc = "locked",
             \A t \in Txns : txn'[t] = txn[t]
                \/ /\ t = req[p].t /\ req[p].op \in Deciding /\ txn[t].status # "COMPLETED"
                   /\ txn'[t].status # "COMPLETED"
      PROVE  IInv'
  <2>1. \A q \in Requests : req'[q] = IF q = p THEN Idle ELSE req[q]
    BY <1>0, <1>7 DEF TypeOK, Finish
  <2>2. ASSUME NEW q \in Requests, req'[q].pc = "locked"
        PROVE  /\ req'[q] = req[q] /\ lock'[req[q].w] = q
               /\ req[q].op \in Deciding => txn'[req[q].t].status = txn[req[q].t].status
    <3>1. q # p /\ req[q].pc = "locked" /\ req'[q] = req[q]
      BY <2>1, <2>2, IdleOK
    <3>2. req[q].w # req[p].w /\ req[q].w \in Users /\ lock[req[q].w] = q
      BY <1>0, <1>7, <3>1, Exclusion DEF RequestOK, Locked
    <3>3. lock'[req[q].w] = q
      BY <1>0, <1>7, <3>2 DEF TypeOK, Finish
    <3>4. req[q].op \in Deciding /\ req[p].op \in Deciding => req[q].t # req[p].t
      BY <1>0, <1>7, <3>1, <3>2 DEF RequestOK
    <3>5. req[q].op \in Deciding => txn'[req[q].t].status = txn[req[q].t].status
      BY <1>0, <1>7, <3>1, <3>4 DEF RequestOK
    <3> QED
      BY <3>1, <3>3, <3>5
  <2> QED
    BY <1>0, <1>7, <2>2, QuietOK
<1>8. ASSUME NEW p \in Requests, NEW u \in Utrs, CompleteRecharge(p, u), Finish(p),
             req[p].pc = "locked", req[p].op \in {"approve", "verify"}, req[p].st = "PENDING"
      PROVE  IInv'
  <2> DEFINE t == req[p].t
  <2>1. /\ t \in Txns /\ txn[t].owner = req[p].w /\ txn[t].status = "PENDING"
        /\ txn[t] \in RechargeRow /\ RowOK(txn[t])
    BY <1>0, <1>8 DEF RequestOK, Locked, Deciding, TypeOK
  <2>2. CASE UNCHANGED <<balance, ledger, txn>>
    BY <1>7, <1>8, <2>2
  <2>3. CASE /\ PostRow(req[p].w, CreditRow(p, u, txn[t].amount))
             /\ txn' = [txn EXCEPT ![t] = CompletedRow(p, t, u)]
    <3>1. /\ CompletedRow(p, t, u).status = "COMPLETED"
          /\ CompletedRow(p, t, u).owner = txn[t].owner
          /\ CompletedRow(p, t, u).amount = txn[t].amount
      BY <2>1 DEF CompletedRow, RechargeRow
    <3>2. txn[t].amount \in Amounts
      BY <2>1 DEF RowOK
    <3> QED
      BY <1>0, <1>8, <2>1, <2>3, <3>1, <3>2, CreditOK
  <2> QED
    BY <1>8, <2>2, <2>3 DEF CompleteRecharge
<1>9. ASSUME NEW p \in Requests, ApproveCommit(p) \/ VerifyCommit(p) PROVE IInv'
  <2>1. /\ req[p].pc = "locked" /\ req[p].op \in {"approve", "verify"} /\ Finish(p)
        /\ req[p].seen \in Utrs \cup {NoUtr} /\ (req[p].op = "verify" => req[p].utr \in Utrs)
    BY <1>0, <1>9 DEF ApproveCommit, VerifyCommit, Request, RequestOK
  <2>2. UNCHANGED <<balance, ledger, txn>>
        \/ \E u \in Utrs : CompleteRecharge(p, u) /\ req[p].st = "PENDING"
    BY <1>9, <2>1 DEF ApproveCommit, VerifyCommit
  <2> QED
    BY <1>7, <1>8, <2>1, <2>2
<1>10. ASSUME NEW p \in Requests, RejectCommit(p) PROVE IInv'
  <2> DEFINE t == req[p].t
  <2>1. /\ t \in Txns /\ req[p].pc = "locked" /\ req[p].op \in Deciding /\ Finish(p)
        /\ UNCHANGED <<balance, ledger>> /\ req[p].st = txn[t].status
        /\ txn[t] \in RechargeRow
    BY <1>0, <1>10 DEF RejectCommit, RequestOK, Locked, Deciding, TypeOK
  <2>2. [txn[t] EXCEPT !.status = "FAILED"].status = "FAILED"
    BY <2>1 DEF RechargeRow
  <2>3. \A x \in Txns :
           \/ txn'[x] = txn[x]
           \/ x = t /\ txn[x].status # "COMPLETED" /\ txn'[x].status # "COMPLETED"
    <3>1. \/ txn' = txn
          \/ /\ txn[t].status # "COMPLETED"
             /\ txn' = [txn EXCEPT ![t] = [txn[t] EXCEPT !.status = "FAILED"]]
      BY <1>10, <2>1 DEF RejectCommit
    <3>2. CASE txn' = txn
      BY <3>2
    <3>3. CASE /\ txn[t].status # "COMPLETED"
               /\ txn' = [txn EXCEPT ![t] = [txn[t] EXCEPT !.status = "FAILED"]]
      <4>1. txn'[t].status = "FAILED" /\ \A x \in Txns \ {t} : txn'[x] = txn[x]
        BY <1>0, <2>1, <2>2, <3>3 DEF TypeOK
      <4> QED
        BY <3>3, <4>1
    <3> QED
      BY <3>1, <3>2, <3>3
  <2> QED
    BY <1>7, <2>1, <2>3
<1>11. ASSUME NEW p \in Requests, OfflineCommit(p) PROVE IInv'
  <2> DEFINE t == req[p].t
             new == [status |-> "COMPLETED", owner |-> req[p].w, utr |-> req[p].utr,
                     amount |-> req[p].amt]
  <2>1. /\ t \in Txns /\ txn[t].status = "NONE" /\ req[p].amt \in Amounts /\ req[p].utr \in Utrs
        /\ req[p].pc = "locked" /\ Finish(p) /\ req[p].op = "offline"
    BY <1>0, <1>11 DEF OfflineCommit, RequestOK
  <2>2. CASE UNCHANGED <<balance, ledger, txn>>
    BY <1>7, <2>1, <2>2
  <2>3. CASE /\ PostRow(req[p].w, CreditRow(p, req[p].utr, req[p].amt))
             /\ txn' = [txn EXCEPT ![t] = new]
    <3>1. new.status = "COMPLETED" /\ new.owner = req[p].w /\ new.amount = req[p].amt
      OBVIOUS
    <3> HIDE DEF new
    <3> QED
      BY <1>0, <2>1, <2>3, <3>1, CreditOK
  <2> QED
    BY <1>11, <2>2, <2>3 DEF OfflineCommit
<1>12. ASSUME NEW p \in Requests, NEW d \in Int, Flushed(p, d), req[p].pc = "locked",
              req[p].op \in Posting, UNCHANGED <<balance, ledger, txn, lock>>,
              Affordable(MovementRow(p, d))
       PROVE  IInv'
  <2> DEFINE x == WithRow(p, d)
             m == MovementRow(p, d)
             s == Append(req[p].rows, m)
  <2>1. /\ req[p].bal \in Int /\ req[p].rows \in Seq(Row) /\ req[p].w \in Users
        /\ req[p].op \notin Deciding /\ Locked(p) /\ balance[req[p].w] \in Int
    BY <1>0, <1>12 DEF RequestOK, Request, Posting, Deciding, TypeOK
  <2>2. /\ m \in Row /\ m.opening = req[p].bal /\ m.closing = m.opening + m.delta
        /\ m.closing = req[p].bal + d /\ m.txn = NoTxn /\ m.kind \in {"SPEND", "MOVEMENT"}
    BY <2>1 DEF MovementRow, Row, Kinds
  <2> HIDE DEF m
  <2>3. Chains(s, balance[req[p].w]) /\ Closing(s, balance[req[p].w]) = m.closing
    BY <1>12, <2>1, <2>2, ChainsAppend DEF Locked
  <2>4. /\ Len(s) = Len(req[p].rows) + 1 /\ s[Len(s)] = m /\ Len(req[p].rows) \in Nat
        /\ \A i \in 1..Len(req[p].rows) : s[i] = req[p].rows[i]
    BY <2>1, <2>2
  <2> HIDE DEF s
  <2>5. FlushedOK(s)
    <3>1. Affordable(m)
      BY <1>12 DEF m
    <3>2. FlushedOK(req[p].rows)
      BY <1>12, <2>1 DEF Locked
    <3>3. ASSUME NEW i \in 1..Len(s)
          PROVE  s[i].kind \in {"SPEND", "MOVEMENT"} /\ s[i].txn = NoTxn /\ Affordable(s[i])
      <4>1. CASE i \in 1..Len(req[p].rows)
        BY <2>4, <3>2, <4>1 DEF FlushedOK
      <4>2. CASE i = Len(s)
        BY <2>2, <2>4, <3>1, <4>2
      <4> QED
        BY <2>4, <4>1, <4>2
    <3> QED
      BY <3>3 DEF FlushedOK
  <2>6. /\ x.pc = "locked" /\ x.rows = s /\ x.bal = m.closing /\ x.w = req[p].w
        /\ x.op = req[p].op
    BY <1>0, <1>12, <2>2 DEF WithRow, Request, s, m
  <2>7. req' = [req EXCEPT ![p] = x]
    BY <1>12 DEF Flushed
  <2> HIDE DEF x
  <2>8. req'[p] = x /\ \A q \in Requests \ {p} : req'[q] = req[q]
    BY <1>0, <2>7 DEF TypeOK
  <2>9. \A q \in Requests : Locked(q)'
    BY <1>0, <1>12, <2>1, <2>3, <2>5, <2>6, <2>8 DEF Locked
  <2> QED
    BY <1>0, <1>12, <2>9 DEF IInv, PassbookAddsUp, LedgerRowsOK,
       CreditedExactlyWhenCompleted, Credits
<1>13. ASSUME NEW p \in Requests, Spend(p) PROVE IInv'
  <2>1. req[p].amt \in Int /\ -req[p].amt \in Int /\ req[p].bal \in Int
    BY <1>0 DEF Request
  <2>2. Affordable(MovementRow(p, -req[p].amt))
    BY <1>13, <2>1, BoundsAssumption DEF Spend, Affordable, MovementRow, Threshold
  <2> QED
    BY <1>12, <1>13, <2>1, <2>2 DEF Spend, Posting
<1>14. ASSUME NEW p \in Requests, NEW a \in Amounts, NEW sign \in {-1, 1},
              PostMovement(p, sign * a)
       PROVE  IInv'
  <2>1. sign * a \in Int
    BY <1>14
  <2>2. Affordable(MovementRow(p, sign * a))
    BY <1>14 DEF PostMovement, Affordable, MovementRow
  <2> QED
    BY <1>12, <1>14, <2>1, <2>2 DEF PostMovement, Posting
<1>15. ASSUME NEW p \in Requests, SpendRefused(p) PROVE IInv'
  BY <1>7, <1>15 DEF SpendRefused
<1>16. ASSUME NEW p \in Requests, PostingCommit(p) PROVE IInv'
  BY <1>0, <1>16, PostingOK
<1>17. ASSUME NEW p \in Requests, Abort(p) PROVE IInv'
  <2>1. /\ UNCHANGED <<balance, ledger, txn>>
        /\ \A q \in Requests : req'[q] = IF q = p THEN Idle ELSE req[q]
        /\ \A w \in Users : lock[w] # p => lock'[w] = lock[w]
    BY <1>0, <1>17 DEF Abort, TypeOK
  <2>2. \A q \in Requests : req'[q].pc = "locked" =>
            /\ req'[q] = req[q] /\ lock'[req[q].w] = q
            /\ req[q].op \in Deciding => txn'[req[q].t].status = txn[req[q].t].status
    BY <1>0, <2>1, IdleOK DEF Locked, RequestOK
  <2> QED
    BY <1>0, <2>1, <2>2, QuietOK
<1>18. CASE UNCHANGED vars
  BY <1>0, <1>18 DEF vars, IInv, Locked, PassbookAddsUp, LedgerRowsOK,
     CreditedExactlyWhenCompleted, Credits
<1> QED
  BY <1>1, <1>3, <1>4, <1>5, <1>6, <1>9, <1>10, <1>11, <1>13, <1>14, <1>15, <1>16, <1>17,
     <1>18 DEF Next, Step

LEMMA Invariance == Spec => []IInv
  BY InitIInv, NextIInv, PTL DEF Spec

\* The passbook adds up: for any number of wallets and concurrent requests, every row
\* continues the one before it and the balance is the last closing.
THEOREM PassbookSafe == Spec => []PassbookAddsUp
<1>1. IInv => PassbookAddsUp
  BY DEF IInv
<1> QED
  BY <1>1, Invariance, PTL

\* A recharge is credited, once and to its owner, exactly when it is COMPLETED.
THEOREM CreditSafe == Spec => []CreditedExactlyWhenCompleted
<1>1. IInv => CreditedExactlyWhenCompleted
  BY DEF IInv
<1> QED
  BY <1>1, Invariance, PTL

\* No merchant credits the own request.
THEOREM MakerCheckerSafe == Spec => []MakerChecker
<1>1. IInv => MakerChecker
  BY DEF IInv, LedgerRowsOK, MakerChecker
<1> QED
  BY <1>1, Invariance, PTL

\* Every booking row starts from a balance that covers the freight and the floor.
THEOREM FinlockSafe == Spec => []FinlockHonoured
<1>1. IInv => FinlockHonoured
  BY DEF IInv, LedgerRowsOK, PassbookAddsUp, Chains, Affordable, FinlockHonoured
<1> QED
  BY <1>1, Invariance, PTL

\* A decision is final: no step takes a recharge out of COMPLETED or FAILED.
THEOREM DecisionSafe == Spec => DecisionIsFinal
<1> DEFINE Kept == \A t \in Txns : txn[t].status \in {"COMPLETED", "FAILED"}
                                      => txn'[t].status = txn[t].status
<1> USE NullsAssumption
<1>1. IInv /\ [Next]_vars => [Kept]_vars
  <2> SUFFICES ASSUME IInv, [Next]_vars PROVE Kept \/ UNCHANGED vars
    OBVIOUS
  <2>0. /\ TypeOK
        /\ \A q \in Requests : req[q] \in Request /\ RequestOK(req[q], txn) /\ Locked(q)
    BY DEF IInv, Inv1, TypeOK
  <2>1. ASSUME NEW u \in Users, NEW t \in Txns, NEW a \in Amounts, CreateIntent(u, t, a)
        PROVE  Kept
    BY <2>0, <2>1 DEF CreateIntent, Fresh, TypeOK
  <2>2. ASSUME NEW p \in Requests, ConfirmCommit(p) PROVE Kept
    <3>1. req[p].t \in Txns /\ txn[req[p].t] \in RechargeRow
      BY <2>0, <2>2 DEF ConfirmCommit, RequestOK, TypeOK
    <3>2. ConfirmedRow(p).status = txn[req[p].t].status
      BY <3>1 DEF ConfirmedRow, RechargeRow
    <3> QED
      BY <2>0, <2>2, <3>1, <3>2 DEF ConfirmCommit, TypeOK
  <2>3. ASSUME NEW p \in Requests, ApproveCommit(p) \/ VerifyCommit(p) PROVE Kept
    <3>1. txn' = txn \/ \E r : txn[req[p].t].status = "PENDING" /\ txn' = [txn EXCEPT ![req[p].t] = r]
      BY <2>0, <2>3 DEF ApproveCommit, VerifyCommit, CompleteRecharge, Locked, Deciding
    <3> QED
      BY <2>0, <3>1 DEF TypeOK
  <2>4. ASSUME NEW p \in Requests, RejectCommit(p) PROVE Kept
    <3>1. req[p].t \in Txns /\ txn[req[p].t] \in RechargeRow /\ req[p].st = txn[req[p].t].status
      BY <2>0, <2>4 DEF RejectCommit, RequestOK, Locked, Deciding, TypeOK
    <3>2. [txn[req[p].t] EXCEPT !.status = "FAILED"].status = "FAILED"
      BY <3>1 DEF RechargeRow
    <3>3. \/ txn' = txn
          \/ /\ txn[req[p].t].status # "COMPLETED"
             /\ txn' = [txn EXCEPT ![req[p].t] = [txn[req[p].t] EXCEPT !.status = "FAILED"]]
      BY <2>4, <3>1 DEF RejectCommit
    <3> QED
      BY <2>0, <3>1, <3>2, <3>3 DEF TypeOK
  <2>5. ASSUME NEW p \in Requests, OfflineCommit(p) PROVE Kept
    <3>1. txn' = txn \/ \E r : txn[req[p].t].status = "NONE" /\ txn' = [txn EXCEPT ![req[p].t] = r]
      BY <2>0, <2>5 DEF OfflineCommit, RequestOK
    <3> QED
      BY <2>0, <3>1 DEF TypeOK
  <2>6. ASSUME NEW p \in Requests,
               Arrive(p) \/ LockWallet(p) \/ Abort(p) \/ ConfirmDupCheck(p) \/ Spend(p)
               \/ SpendRefused(p) \/ PostingCommit(p) \/ \E d \in Int : PostMovement(p, d)
        PROVE  Kept
    BY <2>6 DEF Arrive, ConfirmRead, StartApprove, StartReject, StartVerify, StartOffline,
       StartPosting, LockWallet, Abort, ConfirmDupCheck, Spend, SpendRefused, PostingCommit,
       PostMovement
  <2>7. \A a \in Amounts, sign \in {-1, 1} : sign * a \in Int
    BY AmountsAssumption
  <2> QED
    BY <2>1, <2>2, <2>3, <2>4, <2>5, <2>6, <2>7 DEF Next, Step
<1> QED
  BY <1>1, Invariance, PTL DEF Spec, DecisionIsFinal
=============================================================================
