------------------------------ MODULE Recharge ------------------------------
(***************************************************************************)
(* A merchant's recharge by UPI (WalletRechargeDialog of                      *)
(* wallet-header-pill.tsx) and the balance of the whole shell                 *)
(* (wallet-provider.tsx): a QR is asked for and paid, its UTR is claimed,     *)
(* the dialog polls meanwhile, and every change has the balance read again.   *)
(***************************************************************************)
EXTENDS Naturals, FiniteSets

CONSTANTS None,
    Intents, Amounts, Utrs,     \* recharge rows the server may make; amounts and UTRs typed
    Loads,                      \* reads of the balance that overlap
    MaxOthers, MaxOpens         \* what happens elsewhere, and openings of the dialog, in a run

VARIABLES
    txn, changes,       \* the server: recharge rows, and how often the wallet's figures changed
    open, amountInput, intent, utrNumber,       \* the dialog
    loadingIntent, confirming, poll,            \* its requests under way
    wallet, hasError, loads,    \* the provider: the figures shown, their reads
    told,               \* how often they had changed when the shell was last told of a change
    others, opens

vars == <<txn, changes, open, amountInput, intent, utrNumber, loadingIntent, confirming, poll, wallet, hasError, loads,
          told, others, opens>>
serverVars == <<txn, changes, others>>
dialogVars == <<open, amountInput, intent, utrNumber, opens>>
requestVars == <<loadingIntent, confirming, poll>>
balanceVars == <<wallet, hasError, loads, told>>

NoRow == [status |-> "none", utr |-> None]
Idle == [read |-> None, live |-> FALSE, cold |-> FALSE]

-----------------------------------------------------------------------------
(* The balance.                                                            *)

\* A read is under way that may still update the figures.
InFlight == \E m \in Loads : loads[m].live

Reading(slot, cold) ==
    [m \in Loads |-> IF m = slot THEN [read |-> None, live |-> TRUE, cold |-> cold] ELSE [loads[m] EXCEPT !.live = FALSE]]

\* load(true): only the newest read may replace the figures.
Load(slot) == loads[slot] = Idle /\ loads' = Reading(slot, TRUE) /\ UNCHANGED <<wallet, hasError>>

\* A change is told while older figures are being read: those will be out of date.
ToldOnce(slot) == IF InFlight THEN UNCHANGED <<wallet, hasError, loads>> ELSE Load(slot)
Forced(slot) == Load(slot)

\* wallet-updated: the cache is emptied and the figures are read again.  The refresh the dialog asks
\* for next finds that read under way.
WalletUpdated(slot) == Forced(slot) /\ told' = changes'

Init ==
    /\ txn = [t \in Intents |-> NoRow] /\ changes = 0 /\ others = 0
    /\ open = FALSE /\ amountInput \in Amounts /\ intent = None /\ utrNumber = None /\ opens = 0
    /\ loadingIntent = None /\ confirming = None /\ poll = None
    /\ wallet \in {None, 0} /\ hasError = FALSE /\ told = 0
    /\ \E slot \in Loads : loads = [m \in Loads |-> IF m = slot THEN [Idle EXCEPT !.live = TRUE, !.cold = wallet = None]
                                                    ELSE Idle]

ReadBalance(m) ==
    /\ loads[m] # Idle /\ loads[m].read = None /\ loads' = [loads EXCEPT ![m].read = changes]
    /\ UNCHANGED <<serverVars, dialogVars, requestVars, wallet, hasError, told>>

BalanceAnswered(m) ==
    /\ loads[m].read # None /\ loads' = [loads EXCEPT ![m] = Idle]
    /\ IF loads[m].live THEN wallet' = loads[m].read /\ hasError' = FALSE
       ELSE UNCHANGED <<wallet, hasError>>
    /\ UNCHANGED <<serverVars, dialogVars, requestVars, told>>

BalanceFails(m) ==
    /\ loads[m] # Idle /\ loads' = [loads EXCEPT ![m] = Idle]
    /\ hasError' = (hasError \/ (loads[m].live /\ loads[m].cold))
    /\ UNCHANGED <<serverVars, dialogVars, requestVars, wallet, told>>

-----------------------------------------------------------------------------
(* The dialog.                                                             *)

\* A poll under way counts for nothing once its QR is no longer on the screen.
PollOf(i, o) == IF poll # None /\ (i # intent \/ o # open) THEN [poll EXCEPT !.live = FALSE] ELSE poll

Show(i, o) == intent' = i /\ open' = o /\ poll' = PollOf(i, o)

Open ==
    /\ ~open /\ opens < MaxOpens /\ opens' = opens + 1 /\ Show(intent, TRUE)
    /\ UNCHANGED <<serverVars, amountInput, utrNumber, loadingIntent, confirming, balanceVars>>

\* Cancel, or Escape at any time: the requests under way go on.
HandleReset ==
    /\ open /\ Show(None, FALSE) /\ utrNumber' = None
    /\ UNCHANGED <<serverVars, amountInput, opens, loadingIntent, confirming, balanceVars>>

\* The UTR typed stays in its box.
ChangeAmount ==
    /\ open /\ intent # None /\ confirming = None /\ Show(None, TRUE)
    /\ UNCHANGED <<serverVars, amountInput, utrNumber, opens, loadingIntent, confirming, balanceVars>>

Type ==
    /\ open
    /\ \/ intent = None /\ amountInput' \in Amounts \ {amountInput} /\ UNCHANGED utrNumber
       \/ intent # None /\ utrNumber' \in (Utrs \cup {None}) \ {utrNumber} /\ UNCHANGED amountInput
    /\ UNCHANGED <<serverVars, open, intent, opens, requestVars, balanceVars>>

GenerateQr ==
    /\ open /\ intent = None /\ amountInput # 0 /\ loadingIntent = None
    /\ loadingIntent' = [of |-> None, at |-> "going"]
    /\ UNCHANGED <<serverVars, dialogVars, confirming, poll, balanceVars>>

\* create_upi_intent: every request makes a row of its own.
ServeIntent(answers) ==
    /\ loadingIntent # None /\ loadingIntent.at = "going"
    /\ \/ \E t \in Intents :
             /\ txn[t] = NoRow /\ txn' = [txn EXCEPT ![t].status = "PENDING"] /\ changes' = changes + 1
             /\ loadingIntent' = [of |-> t, at |-> IF answers THEN "answered" ELSE "failed"]
       \/ ~answers /\ loadingIntent' = [of |-> None, at |-> "failed"] /\ UNCHANGED <<txn, changes>>
    /\ UNCHANGED <<others, dialogVars, confirming, poll, balanceVars>>

\* The QR is kept for the next opening when the dialog was closed meanwhile.
IntentAnswered ==
    /\ loadingIntent # None /\ loadingIntent.at # "going" /\ loadingIntent' = None
    /\ Show(IF loadingIntent.at = "answered" THEN loadingIntent.of ELSE intent, open)
    /\ UNCHANGED <<serverVars, amountInput, utrNumber, opens, confirming, balanceVars>>

MarkAsPaid ==
    /\ open /\ intent # None /\ utrNumber # None /\ confirming = None
    /\ confirming' = [of |-> intent, utr |-> utrNumber, at |-> "going"]
    /\ UNCHANGED <<serverVars, dialogVars, loadingIntent, poll, balanceVars>>

-----------------------------------------------------------------------------
\* get_transaction_by_utr, and the unique UTR at commit.
TakenByNobody(u, t) == FALSE
UtrTaken(u, t) == \E x \in Intents \ {t} : txn[x].utr = u

\* confirm_upi_recharge: a decided row is left alone, a pending one takes the UTR.
ServeConfirm(reaches, answers) ==
    /\ confirming # None /\ confirming.at = "going"
    /\ LET row == txn[confirming.of]
           done == row.status = "COMPLETED"
           takes == row.status = "PENDING" /\ ~UtrTaken(confirming.utr, confirming.of)
       IN  /\ txn' = IF reaches /\ takes THEN [txn EXCEPT ![confirming.of].utr = confirming.utr] ELSE txn
           /\ confirming' = [confirming EXCEPT !.at = IF reaches /\ answers /\ (done \/ takes) THEN "answered" ELSE "failed"]
    /\ UNCHANGED <<changes, others, dialogVars, loadingIntent, poll, balanceVars>>

\* Whatever QR is on the screen by now goes with what was typed for it.
PaymentConfirmed(slot) ==
    /\ confirming # None /\ confirming.at = "answered" /\ confirming' = None
    /\ Show(None, FALSE) /\ utrNumber' = None
    /\ UNCHANGED <<serverVars, amountInput, opens, loadingIntent>>
    /\ WalletUpdated(slot)

ConfirmRefused ==
    /\ confirming # None /\ confirming.at = "failed" /\ confirming' = None
    /\ UNCHANGED <<serverVars, dialogVars, loadingIntent, poll, balanceVars>>

\* Every 2.5 seconds while a QR is shown.
PollTimer ==
    /\ open /\ intent # None /\ poll = None /\ poll' = [of |-> intent, live |-> TRUE, status |-> None]
    /\ UNCHANGED <<serverVars, dialogVars, loadingIntent, confirming, balanceVars>>

ServePoll ==
    /\ poll # None /\ poll.status = None /\ poll' = [poll EXCEPT !.status = txn[poll.of].status]
    /\ UNCHANGED <<serverVars, dialogVars, loadingIntent, confirming, balanceVars>>

LateAnswerCounts == poll.status = "COMPLETED"
PaymentDetected == poll.live /\ poll.status = "COMPLETED"

PaymentCompleted(slot) ==
    /\ poll # None /\ PaymentDetected
    /\ intent' = None /\ open' = FALSE /\ poll' = None /\ utrNumber' = None
    /\ UNCHANGED <<serverVars, amountInput, opens, loadingIntent, confirming>>
    /\ WalletUpdated(slot)

\* Not paid yet, no answer, or nobody waits for it: also after the page around the dialog rendered again.
PollDropped ==
    /\ poll # None /\ poll' = None
    /\ UNCHANGED <<serverVars, dialogVars, loadingIntent, confirming, balanceVars>>

\* An admin credits or rejects a claimed recharge, or another posting moves the balance.
Others ==
    /\ others < MaxOthers /\ others' = others + 1 /\ changes' = changes + 1
    /\ \/ UNCHANGED txn
       \/ \E t \in Intents, s \in {"COMPLETED", "FAILED"} :
             txn[t].status = "PENDING" /\ txn[t].utr # None /\ txn' = [txn EXCEPT ![t].status = s]
    /\ UNCHANGED <<dialogVars, requestVars, balanceVars>>

\* Another screen moved money and told the shell.
ToldElsewhere(slot) ==
    /\ others < MaxOthers /\ others' = others + 1 /\ changes' = changes + 1 /\ WalletUpdated(slot)
    /\ UNCHANGED <<txn, dialogVars, requestVars>>

Next ==
    \/ \E m \in Loads : \/ ReadBalance(m) \/ BalanceAnswered(m) \/ BalanceFails(m)
                        \/ PaymentConfirmed(m) \/ PaymentCompleted(m) \/ ToldElsewhere(m)
    \/ \E answers \in BOOLEAN : ServeIntent(answers) \/ \E reaches \in BOOLEAN : ServeConfirm(reaches, answers)
    \/ Open \/ HandleReset \/ ChangeAmount \/ Type \/ GenerateQr \/ IntentAnswered \/ MarkAsPaid
    \/ ConfirmRefused \/ PollTimer \/ ServePoll \/ PollDropped \/ Others

Spec == Init /\ [][Next]_vars

-----------------------------------------------------------------------------
TypeOK ==
    /\ \A t \in Intents : txn[t].status \in {"none", "PENDING", "COMPLETED", "FAILED"} /\ txn[t].utr \in Utrs \cup {None}
    /\ intent \in Intents \cup {None} /\ utrNumber \in Utrs \cup {None} /\ amountInput \in Amounts
    /\ wallet \in 0..changes \cup {None} /\ Cardinality({m \in Loads : loads[m].live}) <= 1

\* Once the reads have ended, the balance shown is not from before the change the merchant was told
\* of: a read that was under way at that moment does not count.
ActedAsShown == ~InFlight /\ ~hasError => wallet # None /\ wallet >= told

\* A payment is claimed for one recharge, although its UTR stays in the box when the amount is
\* changed and when answers are lost.
OncePerIntent == \A t, x \in Intents : txn[t].utr # None /\ txn[t].utr = txn[x].utr => t = x

\* Reading the balance changes nothing in the dialog, and a payment that is noticed clears only the
\* QR it is for.
KeepsTyping ==
    /\ loads' # loads /\ UNCHANGED <<confirming, poll>> => UNCHANGED <<amountInput, intent, utrNumber>>
    /\ poll # None /\ poll' = None /\ utrNumber' # utrNumber /\ confirming' = confirming => poll.of = intent
=============================================================================
