----------------------------- MODULE SupportDesk -----------------------------
(***************************************************************************)
(* The support tickets page (support/page.tsx) with what the server makes of  *)
(* it: the tabs, the form that raises a ticket, the conversation of a ticket   *)
(* with its reply and its status. Staff and the merchant work on the same      *)
(* tickets; nothing cancels a conversation that is still being loaded.         *)
(***************************************************************************)
EXTENDS Naturals, FiniteSets

CONSTANTS None,
    Tickets, Seed,              \* rows, and those there already: the first is about the AWB "a"
    IsStaff,
    Chips,                      \* the categories offered: "delivery" is about one AWB, "claims" is not
    Openings,                   \* ways in: "menu", or "link" with an AWB in the address
    Ways,                       \* what is used: "tabs", "talk", "raise"
    Loads, Opens, MaxOthers, MaxOpens

VARIABLES
    tickets, reopened, others,                  \* the server: rows, and how often one was opened again
    activeTab, shown, cached, loads,            \* the list
    active, detail, loadingDetail, opens, opened, replyText, send, status, overtaken,   \* the conversation
    raise, create, told                         \* the form of a new ticket

vars == <<tickets, reopened, others, activeTab, shown, cached, loads, active, detail, loadingDetail,
          opens, opened, replyText, send, status, overtaken, raise, create, told>>
serverVars == <<tickets, reopened, others>>
listVars == <<activeTab, shown, cached, loads>>
talkVars == <<active, detail, loadingDetail, opens, opened, replyText, send, status, overtaken>>
raiseVars == <<raise, create>>

StatusTabs == {"OPEN", "RESOLVED", "CLOSED"}
Idle == [tab |-> None, at |-> "idle", rows |-> {}]
NotAsked == [of |-> None, at |-> "idle", seen |-> None]
NothingCached == [tab \in StatusTabs |-> None]
BlankForm == [chip |-> None, subject |-> None, awb |-> FALSE, text |-> FALSE]

\* ticketNeedsAwb.
NeedsAwb(chip) == chip = "delivery"

-----------------------------------------------------------------------------
(* The server.                                                             *)

Exists(t) == tickets[t] # None
OpenFor(awb) == {t \in Tickets : Exists(t) /\ tickets[t].awb = awb /\ tickets[t].status = "OPEN"}

\* _assert_no_open_ticket_for_awb: a ticket without AWB has no such rule.
AnyAwb(awb) == TRUE
NoOpenTicket(awb) == awb = None \/ OpenFor(awb) = {}
MayRaise(awb) == NoOpenTicket(awb)

\* add_ticket_message: the merchant cannot reply to a closed ticket, and reopens a resolved one.
ReplyAnyStatus(t, byMerchant) == TRUE
ReplyUnlessClosed(t, byMerchant) == ~(byMerchant /\ tickets[t].status = "CLOSED")
MayReply(t, byMerchant) == ReplyUnlessClosed(t, byMerchant)
AfterReply(t, byMerchant) == IF byMerchant /\ tickets[t].status # "OPEN" THEN "OPEN" ELSE tickets[t].status
Replied(t, byMerchant) ==
    /\ tickets' = [tickets EXCEPT ![t].status = AfterReply(t, byMerchant)]
    /\ reopened' = IF AfterReply(t, byMerchant) # tickets[t].status THEN reopened + 1 ELSE reopened

ListTickets(tab) == {t \in Tickets : Exists(t) /\ tickets[t].status = tab}

\* The other side: staff set any status, the merchant replies.
OthersAct ==
    /\ others < MaxOthers /\ others' = others + 1
    /\ \E t \in Tickets : Exists(t)
        /\ IF IsStaff THEN MayReply(t, TRUE) /\ Replied(t, TRUE)
           ELSE /\ \E s \in StatusTabs \ {"OPEN", tickets[t].status} : tickets' = [tickets EXCEPT ![t].status = s]
                /\ UNCHANGED reopened
    /\ UNCHANGED <<listVars, talkVars, raiseVars, told>>

-----------------------------------------------------------------------------
(* The list.                                                               *)

\* readTicketPrefill: a link opens the form with its AWB; a category it does not know selects none.
Init ==
    /\ tickets = [t \in Tickets |-> IF t \notin Seed THEN None
                                ELSE [status |-> "OPEN", awb |-> IF t = 1 THEN "a" ELSE None]]
    /\ reopened = 0 /\ others = 0
    /\ activeTab = "OPEN" /\ shown = Seed /\ cached = [NothingCached EXCEPT !["OPEN"] = Seed] /\ loads = [l \in Loads |-> Idle]
    /\ active = None /\ detail = None /\ loadingDetail = FALSE /\ opens = [o \in Opens |-> NotAsked] /\ opened = 0
    /\ replyText = FALSE /\ send = NotAsked /\ status = NotAsked /\ overtaken = FALSE
    /\ \E o \in Openings : raise = IF o = "menu" THEN [open |-> FALSE, form |-> BlankForm]
                                   ELSE [open |-> TRUE, form |-> [BlankForm EXCEPT !.awb = TRUE]]
    /\ create = NotAsked /\ told = None

\* fetchTickets: the cached rows of the tab at once, else those in view stay until it answers. A part
\* without "tabs" keeps its rows.
FetchTickets(tab, l) ==
    IF "tabs" \in Ways
    THEN loads[l].at = "idle" /\ loads' = [loads EXCEPT ![l] = [Idle EXCEPT !.tab = tab, !.at = "going"]]
         /\ shown' = IF cached'[tab] = None THEN shown ELSE cached'[tab]
    ELSE UNCHANGED <<loads, shown>>

\* Every write that may have happened drops the cached rows (api-config.ts).
CacheDropped == cached' = IF "tabs" \in Ways THEN NothingCached ELSE cached
CacheMayDrop == CacheDropped \/ UNCHANGED cached

AtPage == ~raise.open /\ active = None

SetActiveTab(tab, l) ==
    /\ "tabs" \in Ways /\ AtPage /\ tab # activeTab /\ activeTab' = tab /\ UNCHANGED cached /\ FetchTickets(tab, l)
    /\ UNCHANGED <<serverVars, talkVars, raiseVars, told>>

ServeList(l, reaches) ==
    /\ loads[l].at = "going"
    /\ loads' = [loads EXCEPT ![l] = IF reaches THEN [@ EXCEPT !.at = "read", !.rows = ListTickets(loads[l].tab)]
                                     ELSE [@ EXCEPT !.at = "failed"]]
    /\ UNCHANGED <<serverVars, activeTab, shown, cached, talkVars, raiseVars, told>>

\* Nothing asks whether its tab is still the one in view.
ListAnswered(l) ==
    /\ loads[l].at \in {"read", "failed"} /\ loads' = [loads EXCEPT ![l] = Idle]
    /\ IF loads[l].at = "read" THEN shown' = loads[l].rows /\ cached' = [cached EXCEPT ![loads[l].tab] = loads[l].rows]
       ELSE UNCHANGED <<shown, cached>>
    /\ UNCHANGED <<serverVars, activeTab, talkVars, raiseVars, told>>

-----------------------------------------------------------------------------
(* The conversation.                                                       *)

\* A row of the table, or a card on a phone.
RowPressed(t) == AtPage /\ t \in shown

OpenTicketConversation(t, o) ==
    /\ "talk" \in Ways /\ RowPressed(t) /\ opened < MaxOpens /\ opens[o].at = "idle" /\ opened' = opened + 1
    /\ active' = t /\ loadingDetail' = TRUE /\ replyText' = FALSE
    /\ opens' = [opens EXCEPT ![o] = [NotAsked EXCEPT !.of = t, !.at = "going"]]
    /\ UNCHANGED <<serverVars, listVars, detail, send, status, overtaken, raiseVars, told>>

AsRead(t) == [id |-> t, status |-> tickets[t].status]

ServeOpen(o, reaches) ==
    /\ opens[o].at = "going"
    /\ opens' = [opens EXCEPT ![o] = IF reaches THEN [@ EXCEPT !.at = "read", !.seen = AsRead(opens[o].of)] ELSE [@ EXCEPT !.at = "failed"]]
    /\ UNCHANGED <<serverVars, listVars, active, detail, loadingDetail, opened, replyText, send, status, overtaken, raiseVars, told>>

\* A failure closes whatever conversation is open.
OpenAnswered(o) ==
    /\ opens[o].at \in {"read", "failed"} /\ opens' = [opens EXCEPT ![o] = NotAsked] /\ loadingDetail' = FALSE
    /\ IF opens[o].at = "read" THEN detail' = opens[o].seen /\ UNCHANGED <<active, told>>
       ELSE active' = None /\ told' = "failed" /\ UNCHANGED detail
    /\ UNCHANGED <<serverVars, listVars, opened, replyText, send, status, overtaken, raiseVars>>

InFlight == send.at # "idle" \/ status.at # "idle" \/ \E o \in Opens : opens[o].at # "idle"

DetailStays == detail
DetailDropped == None
DetailAfterClose == DetailDropped

CloseConversation ==
    /\ active # None /\ active' = None /\ detail' = DetailAfterClose /\ overtaken' = InFlight
    /\ UNCHANGED <<serverVars, listVars, loadingDetail, opens, opened, replyText, send, status, raiseVars, told>>

\* The box is hidden from a merchant when the ticket is closed.
ThreadShown == active # None /\ detail # None /\ ~loadingDetail
ReplyBox == ThreadShown /\ (IsStaff \/ detail.status # "CLOSED")

WriteReply ==
    /\ ReplyBox /\ ~replyText /\ replyText' = TRUE
    /\ UNCHANGED <<serverVars, listVars, active, detail, loadingDetail, opens, opened, send, status, overtaken, raiseVars, told>>

HandleSendReply ==
    /\ ReplyBox /\ replyText /\ send.at = "idle" /\ send' = [of |-> active, at |-> "going", seen |-> activeTab] /\ told' = None
    /\ UNCHANGED <<serverVars, listVars, active, detail, loadingDetail, opens, opened, replyText, status, overtaken, raiseVars>>

ServeReply(reaches, answers) ==
    /\ send.at = "going"
    /\ LET ok == reaches /\ MayReply(send.of, ~IsStaff)
       IN  /\ IF ok THEN Replied(send.of, ~IsStaff) ELSE UNCHANGED <<tickets, reopened>>
           /\ send' = [send EXCEPT !.at = IF ok /\ answers THEN "answered" ELSE "failed"]
    /\ UNCHANGED <<others, listVars, active, detail, loadingDetail, opens, opened, replyText, status, overtaken, raiseVars, told>>

\* The answer is shown in whatever conversation is open, and its box is cleared.
ReplyAnswered(l) ==
    /\ send.at = "answered" /\ detail' = AsRead(send.of) /\ replyText' = FALSE /\ told' = "replied" /\ send' = NotAsked
    /\ CacheDropped /\ FetchTickets(send.seen, l)
    /\ UNCHANGED <<serverVars, activeTab, active, loadingDetail, opens, opened, status, overtaken, raiseVars>>

ReplyStays == replyText
ReplyOnFailure == ReplyStays

ReplyFailed ==
    /\ send.at = "failed" /\ send' = NotAsked /\ told' = "failed" /\ replyText' = ReplyOnFailure /\ CacheMayDrop
    /\ UNCHANGED <<serverVars, activeTab, shown, loads, active, detail, loadingDetail, opens, opened, status, overtaken, raiseVars>>

\* The buttons are in the heading, there as soon as a conversation is.
StatusButtons == IF IsStaff /\ active # None /\ detail # None THEN {"RESOLVED", "CLOSED"} \ {detail.status} ELSE {}

HandleUpdateTicketStatus(s) ==
    /\ s \in StatusButtons /\ status.at = "idle"
    /\ status' = [of |-> active, at |-> "going", seen |-> s] /\ told' = None
    /\ UNCHANGED <<serverVars, listVars, active, detail, loadingDetail, opens, opened, replyText, send, overtaken, raiseVars>>

ServeStatus(reaches, answers) ==
    /\ status.at = "going"
    /\ tickets' = IF reaches THEN [tickets EXCEPT ![status.of].status = status.seen] ELSE tickets
    /\ status' = [status EXCEPT !.at = IF reaches /\ answers THEN "answered" ELSE "failed"]
    /\ UNCHANGED <<reopened, others, listVars, active, detail, loadingDetail, opens, opened, replyText, send, overtaken, raiseVars, told>>

StatusAnswered(l) ==
    /\ status.at \in {"answered", "failed"} /\ status' = NotAsked
    /\ IF status.at = "failed" THEN told' = "failed" /\ CacheMayDrop /\ UNCHANGED <<detail, shown, loads>>
       ELSE detail' = AsRead(status.of) /\ told' = "updated" /\ CacheDropped /\ FetchTickets(activeTab, l)
    /\ UNCHANGED <<serverVars, activeTab, active, loadingDetail, opens, opened, replyText, send, overtaken, raiseVars>>

-----------------------------------------------------------------------------
(* A new ticket.                                                           *)

HandleOpenRaiseModal ==
    /\ "raise" \in Ways /\ AtPage /\ raise' = [open |-> TRUE, form |-> BlankForm]
    /\ UNCHANGED <<serverVars, listVars, talkVars, create, told>>

\* What was typed stays behind the closed dialog until the button opens it anew.
CloseRaise ==
    /\ raise.open /\ raise' = [raise EXCEPT !.open = FALSE]
    /\ UNCHANGED <<serverVars, listVars, talkVars, create, told>>

ResetCategories ==
    /\ raise.open /\ raise.form # BlankForm /\ raise' = [raise EXCEPT !.form = BlankForm]
    /\ UNCHANGED <<serverVars, listVars, talkVars, create, told>>

\* The first choice names the subject; a later one leaves it.
SubjectAfter(c) == IF raise.form.subject = None THEN c ELSE raise.form.subject

HandleSelectChip(c) ==
    /\ raise.open /\ raise.form.chip # c
    /\ raise' = [raise EXCEPT !.form.chip = c, !.form.subject = SubjectAfter(c)]
    /\ UNCHANGED <<serverVars, listVars, talkVars, create, told>>

TypeTicket ==
    /\ raise.open /\ raise.form.chip # None
    /\ \/ raise' = [raise EXCEPT !.form.awb = ~@]
       \/ ~raise.form.text /\ raise' = [raise EXCEPT !.form.text = TRUE]
    /\ UNCHANGED <<serverVars, listVars, talkVars, create, told>>

\* Submit is offered for a complete form.
MayCreate(form) == form.chip # None /\ (NeedsAwb(form.chip) => form.awb) /\ form.text

HandleCreateTicket ==
    /\ raise.open /\ MayCreate(raise.form) /\ create.at = "idle"
    /\ create' = [of |-> raise.form, at |-> "going", seen |-> activeTab] /\ told' = None
    /\ UNCHANGED <<serverVars, listVars, talkVars, raise>>

AwbOf(form) == IF form.awb THEN "a" ELSE None

ServeCreate(reaches, answers) ==
    /\ create.at = "going"
    /\ LET ok == reaches /\ MayRaise(AwbOf(create.of))
       IN  /\ IF ok THEN \E t \in Tickets : ~Exists(t) /\ tickets' = [tickets EXCEPT ![t] = [status |-> "OPEN", awb |-> AwbOf(create.of)]]
              ELSE UNCHANGED tickets
           /\ create' = [create EXCEPT !.at = IF ok /\ answers THEN "answered" ELSE "failed"]
    /\ UNCHANGED <<reopened, others, listVars, talkVars, raise, told>>

\* The open tickets come into view.
CreateAnswered(l) ==
    /\ create.at = "answered" /\ create' = NotAsked /\ told' = "raised"
    /\ raise' = [open |-> FALSE, form |-> BlankForm] /\ activeTab' = "OPEN" /\ CacheDropped /\ FetchTickets("OPEN", l)
    /\ UNCHANGED <<serverVars, talkVars>>

CreateFailed ==
    /\ create.at = "failed" /\ create' = NotAsked /\ told' = "failed" /\ CacheMayDrop
    /\ UNCHANGED <<serverVars, activeTab, shown, loads, talkVars, raise>>

Next ==
    \/ OthersAct \/ CloseConversation \/ WriteReply \/ HandleSendReply \/ ReplyFailed
    \/ HandleOpenRaiseModal \/ CloseRaise \/ ResetCategories \/ TypeTicket \/ HandleCreateTicket \/ CreateFailed
    \/ \E c \in Chips : HandleSelectChip(c)
    \/ \E s \in StatusTabs : HandleUpdateTicketStatus(s) \/ \E l \in Loads : SetActiveTab(s, l)
    \/ \E l \in Loads : ListAnswered(l) \/ ReplyAnswered(l) \/ StatusAnswered(l) \/ CreateAnswered(l)
    \/ \E o \in Opens : OpenAnswered(o) \/ \E t \in Tickets : OpenTicketConversation(t, o)
    \/ \E a \in BOOLEAN : (\E l \in Loads : ServeList(l, a)) \/ (\E o \in Opens : ServeOpen(o, a))
    \/ \E a, b \in BOOLEAN : ServeReply(a, b) \/ ServeStatus(a, b) \/ ServeCreate(a, b)

Spec == Init /\ [][Next]_vars

-----------------------------------------------------------------------------
TypeOK ==
    /\ \A t \in Tickets : Exists(t) => tickets[t].status \in StatusTabs
    /\ activeTab \in StatusTabs /\ shown \subseteq Tickets /\ loadingDetail \in BOOLEAN
    /\ active \in Tickets \cup {None} /\ replyText \in BOOLEAN /\ raise.form.chip \in Chips \cup {None}

\* The conversation shown, whose heading and box act on the ticket that was opened, is that ticket's,
\* unless the one before was closed while an answer for it was still on its way.
ActedAsShown == ~overtaken /\ active # None /\ detail # None => detail.id = active

\* An AWB has one open ticket, however often Submit is pressed after a lost answer; each reply that
\* opens a resolved one again may add one.
OncePerIntent == Cardinality(OpenFor("a")) <= 1 + reopened

\* A failure leaves what was typed, and a merchant's late reply never opens a closed ticket again.
KeepsTyping ==
    /\ (told' = "failed" /\ told # "failed") => UNCHANGED <<replyText, raise>>
    /\ \A t \in Tickets : (Exists(t) /\ tickets[t].status = "CLOSED" /\ status.at # "going") => tickets'[t].status # "OPEN"
=============================================================================
