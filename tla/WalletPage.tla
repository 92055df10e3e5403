----------------------------- MODULE WalletPage -----------------------------
(***************************************************************************)
(* The wallet page of someone who manages the finances (wallet/page.tsx):     *)
(* recharges of other people are approved and rejected, the own one is given  *)
(* its UTR, money that came by bank is credited, and the passbook of one or   *)
(* all users is read again after every change.                                *)
(***************************************************************************)
EXTENDS Naturals, FiniteSets

CONSTANTS None,
    Txns, Mine,         \* the recharges of a run, and those of the person at the page
    Refs,               \* UTRs and bank references
    Filters, Under,     \* filters by user, and the recharges under each
    Loads, MaxDone, MaxOthers, MaxTurns

VARIABLES
    txn, credited, others,          \* the server: recharges, and how often a payment was credited
    userFilter, rechargeTxns, pendingApprovals, loading,    \* what is shown
    loads, cached, turns,
    approveTarget, review,          \* the row in the dialog; the one review under way
    inlineUtr, rejectReason,        \* typed at the rows
    offline, offlineCredit,         \* the bank credit: the form, the request under way
    done                            \* presses so far

vars == <<txn, credited, others, userFilter, rechargeTxns, pendingApprovals, loading, loads, cached, turns, approveTarget,
          review, inlineUtr, rejectReason, offline, offlineCredit, done>>
serverVars == <<txn, credited, others>>
listVars == <<userFilter, rechargeTxns, pendingApprovals, loading, loads, cached, turns>>
reviewVars == <<approveTarget, review, inlineUtr, rejectReason>>
offlineVars == <<offline, offlineCredit>>

Rows(ids) == [t \in ids |-> txn[t]]
Pending == {t \in Txns : txn[t].status = "PENDING" /\ txn[t].utr # None}
NoForm == [open |-> FALSE, ref |-> None]
Idle == [of |-> None, rows |-> None, list |-> None, got |-> FALSE, cold |-> FALSE]

-----------------------------------------------------------------------------
(* The ledger.                                                             *)

\* fetchWalletData: the cached ledger is shown at once.  Reads under way are neither dropped nor told apart.
Fetch(f, slots) ==
    /\ slots # {} /\ \A m \in slots : loads[m] = Idle
    /\ loads' = [m \in Loads |-> IF m \in slots THEN [Idle EXCEPT !.of = f, !.cold = cached'[f] = None] ELSE loads[m]]
    /\ IF cached'[f] = None THEN loading' = TRUE /\ UNCHANGED <<rechargeTxns, pendingApprovals>>
       ELSE /\ rechargeTxns' = cached'[f].rows /\ pendingApprovals' = cached'[f].list
            /\ UNCHANGED loading

Init ==
    /\ txn \in [Txns -> [status: {"PENDING"}, utr: {None} \cup Refs]]
    /\ \A t, x \in Txns : txn[t].utr # None /\ txn[t].utr = txn[x].utr => t = x
    /\ credited = [u \in Refs |-> 0] /\ others = 0 /\ userFilter = "all"
    /\ rechargeTxns = Rows(Under["all"]) /\ pendingApprovals = Rows(Pending) /\ loading = FALSE
    /\ loads = [m \in Loads |-> Idle] /\ turns = 0
    /\ cached = [f \in Filters |-> IF f = "all" THEN [rows |-> rechargeTxns, list |-> pendingApprovals] ELSE None]
    /\ approveTarget = None /\ review = None /\ inlineUtr = [t \in Mine |-> None] /\ rejectReason = [t \in Txns \ Mine |-> None]
    /\ offline = NoForm /\ offlineCredit = None /\ done = 0

FilterBy(f, slot) ==
    /\ approveTarget = None /\ ~offline.open /\ f # userFilter /\ turns < MaxTurns /\ turns' = turns + 1
    /\ userFilter' = f /\ UNCHANGED cached /\ Fetch(f, {slot})
    /\ UNCHANGED <<serverVars, reviewVars, offlineVars, done>>

ReadLedger(m) ==
    /\ loads[m].of # None /\ loads[m].rows = None /\ loads' = [loads EXCEPT ![m].rows = Rows(Under[loads[m].of])]
    /\ UNCHANGED <<serverVars, userFilter, rechargeTxns, pendingApprovals, loading, cached, turns, reviewVars, offlineVars, done>>

LedgerAnswered(m) ==
    /\ loads[m].rows # None /\ ~loads[m].got /\ loads' = [loads EXCEPT ![m].got = TRUE]
    /\ rechargeTxns' = loads[m].rows
    /\ UNCHANGED <<serverVars, userFilter, pendingApprovals, loading, cached, turns, reviewVars, offlineVars, done>>

LedgerFails(m) ==
    /\ loads[m].of # None /\ ~loads[m].got /\ loads' = [loads EXCEPT ![m] = Idle] /\ loading' = FALSE
    /\ UNCHANGED <<serverVars, userFilter, rechargeTxns, pendingApprovals, cached, turns, reviewVars, offlineVars, done>>

ReadPending(m) ==
    /\ loads[m].got /\ loads[m].list = None /\ loads' = [loads EXCEPT ![m].list = Rows(Pending)]
    /\ UNCHANGED <<serverVars, userFilter, rechargeTxns, pendingApprovals, loading, cached, turns, reviewVars, offlineVars, done>>

\* A queue that could not be read is shown, and cached, as empty.
PendingAnswered(m) ==
    /\ loads[m].got
    /\ \E list \in {Rows({})} \cup ({loads[m].list} \ {None}) :
          /\ pendingApprovals' = list
          /\ cached' = [cached EXCEPT ![loads[m].of] = [rows |-> loads[m].rows, list |-> list]]
    /\ loads' = [loads EXCEPT ![m] = Idle] /\ loading' = FALSE
    /\ UNCHANGED <<serverVars, userFilter, rechargeTxns, turns, reviewVars, offlineVars, done>>

\* wallet-updated empties the cache and has the page read; the handler then reads once more.
ToldAndRead(slots) ==
    /\ Cardinality(slots) = 2 /\ cached' = [f \in Filters |-> None] /\ Fetch(userFilter, slots)
    /\ UNCHANGED <<userFilter, turns>>

-----------------------------------------------------------------------------
(* Reviews.                                                                *)

ReviewFree == review = None /\ ~offline.open /\ done < MaxDone

\* Someone else's, with a UTR, in the queue or in the passbook.
MayReview(t, list) == t \in DOMAIN list \ Mine /\ list[t].status = "PENDING" /\ list[t].utr # None
Reviewable(t) == MayReview(t, pendingApprovals) \/ MayReview(t, rechargeTxns)

AskApprove(t) ==
    /\ ReviewFree /\ approveTarget = None /\ Reviewable(t) /\ approveTarget' = t
    /\ UNCHANGED <<serverVars, listVars, review, inlineUtr, rejectReason, offlineVars, done>>

CancelApprove ==
    /\ approveTarget # None /\ approveTarget' = None
    /\ UNCHANGED <<serverVars, listVars, review, inlineUtr, rejectReason, offlineVars, done>>

Send(op, t, u) == review' = [op |-> op, of |-> t, utr |-> u, at |-> "going"] /\ done' = done + 1

ApproveRecharge ==
    /\ approveTarget # None /\ ReviewFree /\ Send("approve", approveTarget, None) /\ approveTarget' = None
    /\ UNCHANGED <<serverVars, listVars, inlineUtr, rejectReason, offlineVars>>

RejectRecharge(t) ==
    /\ ReviewFree /\ approveTarget = None /\ Reviewable(t) /\ Send("reject", t, None)
    /\ UNCHANGED <<serverVars, listVars, approveTarget, inlineUtr, rejectReason, offlineVars>>

\* The own recharge, whose row has no UTR yet.
SubmitInlineUtr(t) ==
    /\ ReviewFree /\ approveTarget = None /\ t \in Mine \cap DOMAIN rechargeTxns
    /\ rechargeTxns[t] = [status |-> "PENDING", utr |-> None] /\ inlineUtr[t] # None
    /\ Send("utr", t, inlineUtr[t])
    /\ UNCHANGED <<serverVars, listVars, approveTarget, inlineUtr, rejectReason, offlineVars>>

TypeAtRow ==
    /\ approveTarget = None /\ ~offline.open
    /\ \/ \E t \in Mine, u \in Refs : u # inlineUtr[t] /\ inlineUtr' = [inlineUtr EXCEPT ![t] = u] /\ UNCHANGED rejectReason
       \/ \E t \in DOMAIN pendingApprovals \ Mine : /\ rejectReason[t] = None
                                                    /\ rejectReason' = [rejectReason EXCEPT ![t] = "reason"]
                                                    /\ UNCHANGED inlineUtr
    /\ UNCHANGED <<serverVars, listVars, approveTarget, review, offlineVars, done>>

Answer(ok) == review' = [review EXCEPT !.at = IF ok THEN "answered" ELSE "failed"]

\* Whether the reference stands on another row: of a recharge, or of a credit of its own.
Unused(u, t) == TRUE
RefFree(u, t) == (credited[u] = 0 \/ (t # None /\ txn[t].utr = u)) /\ \A x \in Txns \ {t} : txn[x].utr # u

\* approve_pending_recharge: the row is decided under its lock; an approved one is answered again.
ServeApprove(answers) ==
    /\ review # None /\ review.op = "approve" /\ review.at = "going"
    /\ LET row == txn[review.of]
           takes == row.status = "PENDING" /\ row.utr # None
       IN  /\ txn' = IF takes THEN [txn EXCEPT ![review.of].status = "COMPLETED"] ELSE txn
           /\ credited' = IF takes THEN [credited EXCEPT ![row.utr] = @ + 1] ELSE credited
           /\ Answer(answers /\ (takes \/ row.status = "COMPLETED"))
    /\ UNCHANGED <<others, listVars, approveTarget, inlineUtr, rejectReason, offlineVars, done>>

\* reject_pending_recharge.
ServeReject(answers) ==
    /\ review # None /\ review.op = "reject" /\ review.at = "going"
    /\ txn' = IF txn[review.of].status = "COMPLETED" THEN txn ELSE [txn EXCEPT ![review.of].status = "FAILED"]
    /\ Answer(answers /\ txn[review.of].status # "COMPLETED")
    /\ UNCHANGED <<credited, others, listVars, approveTarget, inlineUtr, rejectReason, offlineVars, done>>

\* confirm_upi_recharge.
ServeUtr(answers) ==
    /\ review # None /\ review.op = "utr" /\ review.at = "going"
    /\ LET takes == txn[review.of].status = "PENDING" /\ RefFree(review.utr, review.of)
       IN  /\ txn' = IF takes THEN [txn EXCEPT ![review.of].utr = review.utr] ELSE txn
           /\ Answer(answers /\ (takes \/ txn[review.of].status = "COMPLETED"))
    /\ UNCHANGED <<credited, others, listVars, approveTarget, inlineUtr, rejectReason, offlineVars, done>>

\* No request reached the server.
ReviewLost ==
    /\ review # None /\ review.at = "going" /\ Answer(FALSE)
    /\ UNCHANGED <<serverVars, listVars, approveTarget, inlineUtr, rejectReason, offlineVars, done>>

Reviewed(slots) ==
    /\ review # None /\ review.at = "answered" /\ review' = None /\ ToldAndRead(slots)
    /\ UNCHANGED <<serverVars, approveTarget, inlineUtr, rejectReason, offlineVars, done>>

ReviewFailed ==
    /\ review # None /\ review.at = "failed" /\ review' = None
    /\ UNCHANGED <<serverVars, listVars, approveTarget, inlineUtr, rejectReason, offlineVars, done>>

-----------------------------------------------------------------------------
(* Money that came by bank.                                                *)

\* Open and Cancel are held back while a credit is under way; the fields are not.
OfflineForm ==
    /\ approveTarget = None
    /\ \/ offlineCredit = None /\ offline' = [offline EXCEPT !.open = ~@]
       \/ offline.open /\ \E u \in (Refs \cup {None}) \ {offline.ref} : offline' = [offline EXCEPT !.ref = u]
    /\ UNCHANGED <<serverVars, listVars, reviewVars, offlineCredit, done>>

RecordOfflineCredit ==
    /\ offline.open /\ offline.ref # None /\ offlineCredit = None /\ done < MaxDone /\ done' = done + 1
    /\ offlineCredit' = [ref |-> offline.ref, at |-> "going"]
    /\ UNCHANGED <<serverVars, listVars, reviewVars, offline>>

ServeOfflineCredit(reaches, answers) ==
    /\ offlineCredit # None /\ offlineCredit.at = "going"
    /\ LET takes == reaches /\ RefFree(offlineCredit.ref, None)
       IN  /\ credited' = IF takes THEN [credited EXCEPT ![offlineCredit.ref] = @ + 1] ELSE credited
           /\ offlineCredit' = [offlineCredit EXCEPT !.at = IF takes /\ answers THEN "answered" ELSE "failed"]
    /\ UNCHANGED <<txn, others, listVars, reviewVars, offline, done>>

OfflineCredited(slots) ==
    /\ offlineCredit # None /\ offlineCredit.at = "answered" /\ offlineCredit' = None
    /\ offline' = NoForm /\ ToldAndRead(slots)
    /\ UNCHANGED <<serverVars, reviewVars, done>>

\* The form after a credit was refused, or its answer lost.
FormCleared == NoForm
FormKept == offline

OfflineFailed ==
    /\ offlineCredit # None /\ offlineCredit.at = "failed" /\ offlineCredit' = None /\ offline' = FormKept
    /\ UNCHANGED <<serverVars, listVars, reviewVars, done>>

\* Another admin decides, or an owner claims a payment for the recharge, again if need be.
Others ==
    /\ others < MaxOthers /\ others' = others + 1
    /\ \E t \in Txns \ Mine :
          /\ txn[t].status = "PENDING"
          /\ \/ /\ txn[t].utr # None /\ txn' = [txn EXCEPT ![t].status = "COMPLETED"]
                /\ credited' = [credited EXCEPT ![txn[t].utr] = @ + 1]
             \/ txn' = [txn EXCEPT ![t].status = "FAILED"] /\ UNCHANGED credited
             \/ \E u \in Refs : RefFree(u, t) /\ txn' = [txn EXCEPT ![t].utr = u] /\ UNCHANGED credited
    /\ UNCHANGED <<listVars, reviewVars, offlineVars, done>>

Next ==
    \/ \E m \in Loads : \/ ReadLedger(m) \/ LedgerAnswered(m) \/ LedgerFails(m) \/ ReadPending(m) \/ PendingAnswered(m)
                        \/ \E f \in Filters : FilterBy(f, m)
    \/ \E slots \in SUBSET Loads : Reviewed(slots) \/ OfflineCredited(slots)
    \/ \E t \in Txns : AskApprove(t) \/ RejectRecharge(t) \/ SubmitInlineUtr(t)
    \/ \E answers \in BOOLEAN : \/ ServeApprove(answers) \/ ServeReject(answers) \/ ServeUtr(answers)
                                \/ \E reaches \in BOOLEAN : ServeOfflineCredit(reaches, answers)
    \/ CancelApprove \/ ApproveRecharge \/ TypeAtRow \/ ReviewLost \/ ReviewFailed \/ OfflineForm
    \/ RecordOfflineCredit \/ OfflineFailed \/ Others

Spec == Init /\ [][Next]_vars

-----------------------------------------------------------------------------
TypeOK ==
    /\ \A t \in Txns : txn[t].status \in {"PENDING", "COMPLETED", "FAILED"} /\ txn[t].utr \in Refs \cup {None}
    /\ DOMAIN rechargeTxns \subseteq Txns /\ DOMAIN pendingApprovals \subseteq Txns /\ approveTarget \in Txns \cup {None}
    /\ userFilter \in Filters /\ loading \in BOOLEAN

\* One payment is credited once, whether it is approved for a recharge or recorded as a bank credit,
\* although answers are lost and both are pressed for the same reference.
OncePerIntent == \A u \in Refs : credited[u] <= 1

\* No read, answer or review changes what is typed at the rows, and only a credit that was recorded
\* empties its form.
KeepsTyping ==
    /\ loads' # loads \/ review' # review => UNCHANGED <<inlineUtr, rejectReason>>
    /\ offlineCredit' # offlineCredit /\ (offlineCredit = None \/ offlineCredit.at # "answered") => UNCHANGED offline
=============================================================================
