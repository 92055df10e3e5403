------------------------------ MODULE MCDesks ------------------------------
(* The screens people work at, side by side: a behaviour is one of a single part, for they share
   no state but the server's, of which each module keeps what it needs. *)
EXTENDS Naturals
CONSTANTS None

\* The area and the part a behaviour is of, and the variables of the part, in the order its module declares them.
VARIABLES area, part, s1, s2, s3, s4, s5, s6, s7, s8, s9, s10, s11, s12, s13, s14, s15, s16,
          s17, s18, s19, s20, s21, s22, s23

vars == <<area, part, s1, s2, s3, s4, s5, s6, s7, s8, s9, s10, s11, s12, s13, s14, s15, s16,
        s17, s18, s19, s20, s21, s22, s23>>

AllKinds == {"forward", "reverse", "b2b"}
AllForms == {"blank", "dear", "billed", "handed"}
AtOne == [p \in {1, 2} |-> "a"]
AtTwo == [p \in {1, 2} |-> IF p = 1 THEN "a" ELSE "b"]
OnOne == [p \in {1, 2} |-> 1]
OnTwo == [p \in {1, 2} |-> p]
Blank == [place |-> None, ids |-> {}]
Everyone == [f \in {"all", "one"} |-> {1}]
OneUser == [f \in {"all", "one"} |-> IF f = "all" THEN {1, 2} ELSE {1}]
Person(r, a) == [role |-> r, active |-> a, contact |-> "old", scope |-> IF r = "CUSTOMER" THEN "B2C" ELSE "BOTH", b2b |-> IF r = "CUSTOMER" THEN "PENDING" ELSE "APPROVED"]
OwnerTeams == {<<Person("OWNER", TRUE), Person(r, TRUE)>> : r \in {"CUSTOMER", "ADMIN"}}
AdminTeams == {<<Person("ADMIN", TRUE), Person("CUSTOMER", TRUE)>>, <<Person("ADMIN", TRUE), Person("OWNER", TRUE)>>, <<Person("ADMIN", TRUE), Person("ADMIN", FALSE)>>}
LaneFiles == {[l \in {3} |-> [rate |-> 2, docket |-> 1, active |-> TRUE]], [l \in {1, 2} |-> [rate |-> 1, docket |-> 1, active |-> TRUE]]}
Kept(o, p, s) == [name |-> p, pin |-> 1, city |-> 1, extra |-> 1, scope |-> s, owner |-> o, saved |-> TRUE]
MyOne == [i \in {1} |-> Kept("me", i, "PRIVATE")]
MyBook == [i \in {1, 2} |-> Kept("me", i, "PRIVATE")]
TeamBook == [i \in {1, 2} |-> IF i = 1 THEN Kept("me", i, "PRIVATE") ELSE Kept("they", i, "TENANT")]
CodParcel == [type |-> "FORWARD", cash |-> "cod", phone |-> "ten digits"]
ToPayParcel == [type |-> "FORWARD", cash |-> "to pay", phone |-> "short"]
ReturnParcel == [type |-> "REVERSE", cash |-> "prepaid", phone |-> "0 and ten digits"]
For1 == [place |-> "a", ids |-> {1}]

BF == INSTANCE Booking WITH Kinds <- AllKinds, Openings <- {"new", "cold", "warm"},
    Forms <- AllForms, Slots <- {1}, MaxTries <- 1, MaxKeys <- 1, MaxPrice <- 1,
    MaxForgets <- 0, kind <- s1, opening <- s2, book <- s3, recovered <- s4, form <- s5,
    door <- s6, flagged <- s7, draft <- s8, step <- s9, asks <- s10, quote <- s11,
    chosen <- s12, waiting <- s13, key <- s14, change <- s15, done <- s16, posts <- s17,
    claims <- s18, booked <- s19, base <- s20, try <- s21, altered <- s22, forgotten <- s23
BR == INSTANCE Booking WITH Kinds <- {"forward"}, Openings <- {"new"}, Forms <- {"blank",
    "billed"}, Slots <- {1}, MaxTries <- 2, MaxKeys <- 2, MaxPrice <- 2, MaxForgets <- 0,
    kind <- s1, opening <- s2, book <- s3, recovered <- s4, form <- s5, door <- s6,
    flagged <- s7, draft <- s8, step <- s9, asks <- s10, quote <- s11, chosen <- s12,
    waiting <- s13, key <- s14, change <- s15, done <- s16, posts <- s17, claims <- s18,
    booked <- s19, base <- s20, try <- s21, altered <- s22, forgotten <- s23
BO == INSTANCE Booking WITH Kinds <- {"forward"}, Openings <- {"new"}, Forms <- {"blank",
    "billed"}, Slots <- {1, 2}, MaxTries <- 2, MaxKeys <- 1, MaxPrice <- 2, MaxForgets <- 0,
    kind <- s1, opening <- s2, book <- s3, recovered <- s4, form <- s5, door <- s6,
    flagged <- s7, draft <- s8, step <- s9, asks <- s10, quote <- s11, chosen <- s12,
    waiting <- s13, key <- s14, change <- s15, done <- s16, posts <- s17, claims <- s18,
    booked <- s19, base <- s20, try <- s21, altered <- s22, forgotten <- s23
BG == INSTANCE Booking WITH Kinds <- {"forward"}, Openings <- {"new"}, Forms <- {"blank",
    "billed"}, Slots <- {1, 2}, MaxTries <- 1, MaxKeys <- 2, MaxPrice <- 2, MaxForgets <- 1,
    kind <- s1, opening <- s2, book <- s3, recovered <- s4, form <- s5, door <- s6,
    flagged <- s7, draft <- s8, step <- s9, asks <- s10, quote <- s11, chosen <- s12,
    waiting <- s13, key <- s14, change <- s15, done <- s16, posts <- s17, claims <- s18,
    booked <- s19, base <- s20, try <- s21, altered <- s22, forgotten <- s23
BQ == INSTANCE Booking WITH Kinds <- {"b2b"}, Openings <- {"new"}, Forms <- AllForms \
    {"handed"}, Slots <- {1}, MaxTries <- 2, MaxKeys <- 1, MaxPrice <- 1, MaxForgets <- 0,
    kind <- s1, opening <- s2, book <- s3, recovered <- s4, form <- s5, door <- s6,
    flagged <- s7, draft <- s8, step <- s9, asks <- s10, quote <- s11, chosen <- s12,
    waiting <- s13, key <- s14, change <- s15, done <- s16, posts <- s17, claims <- s18,
    booked <- s19, base <- s20, try <- s21, altered <- s22, forgotten <- s23
SF == INSTANCE ShipmentForm WITH Sections <- {"payment", "cargo", "papers"}, MaxBoxes <- 2,
    MaxAsks <- 1, page <- s1, section <- s2, value <- s3, valued <- s4, eway <- s5, cod <- s6,
    codAmount <- s7, addShipping <- s8, category <- s9, described <- s10, blind <- s11,
    estimate <- s12, boxes <- s13, door <- s14, address <- s15, invoices <- s16, step <- s17,
    asked <- s18, newest <- s19, quote <- s20, sent <- s21
SQ == INSTANCE ShipmentForm WITH Sections <- {"cargo"}, MaxBoxes <- 2, MaxAsks <- 2, page <- s1,
    section <- s2, value <- s3, valued <- s4, eway <- s5, cod <- s6, codAmount <- s7,
    addShipping <- s8, category <- s9, described <- s10, blind <- s11, estimate <- s12,
    boxes <- s13, door <- s14, address <- s15, invoices <- s16, step <- s17, asked <- s18,
    newest <- s19, quote <- s20, sent <- s21
DD == INSTANCE Doorstep WITH Starts <- {[type |-> "FORWARD", status |-> "OUT_FOR_DELIVERY",
    attempts |-> 0]}, Jobs <- {"pod"}, Loads <- {1}, MaxMoves <- 1, MaxDialogs <- 0,
    parcel <- s1, shown <- s2, loads <- s3, otp <- s4, receiver <- s5, dialog <- s6,
    flights <- s7, told <- s8, delivered <- s9, counted <- s10, opened <- s11, moves <- s12,
    left <- s13, limited <- s14
DL == INSTANCE Doorstep WITH Starts <- {[type |-> "FORWARD", status |-> "OUT_FOR_DELIVERY",
    attempts |-> 0]}, Jobs <- {"pod"}, Loads <- {1, 2}, MaxMoves <- 0, MaxDialogs <- 0,
    parcel <- s1, shown <- s2, loads <- s3, otp <- s4, receiver <- s5, dialog <- s6,
    flights <- s7, told <- s8, delivered <- s9, counted <- s10, opened <- s11, moves <- s12,
    left <- s13, limited <- s14
DN == INSTANCE Doorstep WITH Starts <- [type: {"FORWARD"}, status: {"OUT_FOR_DELIVERY"},
    attempts: {0, 2}], Jobs <- {"ndr"}, Loads <- {1}, MaxMoves <- 1, MaxDialogs <- 1,
    parcel <- s1, shown <- s2, loads <- s3, otp <- s4, receiver <- s5, dialog <- s6,
    flights <- s7, told <- s8, delivered <- s9, counted <- s10, opened <- s11, moves <- s12,
    left <- s13, limited <- s14
DT == INSTANCE Doorstep WITH Starts <- [type: {"FORWARD"}, status: {"OUT_FOR_DELIVERY"},
    attempts: {2}], Jobs <- {"ndr", "out"}, Loads <- {1}, MaxMoves <- 1, MaxDialogs <- 1,
    parcel <- s1, shown <- s2, loads <- s3, otp <- s4, receiver <- s5, dialog <- s6,
    flights <- s7, told <- s8, delivered <- s9, counted <- s10, opened <- s11, moves <- s12,
    left <- s13, limited <- s14
DQ == INSTANCE Doorstep WITH Starts <- {[type |-> "REVERSE", status |-> "ASSIGNED",
    attempts |-> 0]}, Jobs <- {"qc", "out"}, Loads <- {1}, MaxMoves <- 1, MaxDialogs <- 1,
    parcel <- s1, shown <- s2, loads <- s3, otp <- s4, receiver <- s5, dialog <- s6,
    flights <- s7, told <- s8, delivered <- s9, counted <- s10, opened <- s11, moves <- s12,
    left <- s13, limited <- s14
DR == INSTANCE Doorstep WITH Starts <- {[type |-> "FORWARD", status |-> "RTO_INITIATED",
    attempts |-> 0]}, Jobs <- {"return"}, Loads <- {1}, MaxMoves <- 1, MaxDialogs <- 0,
    parcel <- s1, shown <- s2, loads <- s3, otp <- s4, receiver <- s5, dialog <- s6,
    flights <- s7, told <- s8, delivered <- s9, counted <- s10, opened <- s11, moves <- s12,
    left <- s13, limited <- s14
PC == INSTANCE PickupRun WITH Page <- "ops", Kinds <- {"card"}, Parcels <- {1, 2},
    Returns <- {1}, Loads <- {1}, MaxDialogs <- 1, MaxOthers <- 1, pur <- s1, row <- s2,
    known <- s3, loads <- s4, typed <- s5, dialog <- s6, measuring <- s7, flights <- s8,
    collected <- s9, asked <- s10, others <- s11
PO == INSTANCE PickupRun WITH Page <- "ops", Kinds <- {"card", "checklist", "notPicked", "out"},
    Parcels <- {1}, Returns <- {}, Loads <- {1}, MaxDialogs <- 1, MaxOthers <- 0, pur <- s1,
    row <- s2, known <- s3, loads <- s4, typed <- s5, dialog <- s6, measuring <- s7,
    flights <- s8, collected <- s9, asked <- s10, others <- s11
PL == INSTANCE PickupRun WITH Page <- "list", Kinds <- {"checklist"}, Parcels <- {1},
    Returns <- {}, Loads <- {1}, MaxDialogs <- 1, MaxOthers <- 1, pur <- s1, row <- s2,
    known <- s3, loads <- s4, typed <- s5, dialog <- s6, measuring <- s7, flights <- s8,
    collected <- s9, asked <- s10, others <- s11
PT == INSTANCE PickupRun WITH Page <- "list", Kinds <- {"checklist"}, Parcels <- {1, 2},
    Returns <- {}, Loads <- {1}, MaxDialogs <- 1, MaxOthers <- 0, pur <- s1, row <- s2,
    known <- s3, loads <- s4, typed <- s5, dialog <- s6, measuring <- s7, flights <- s8,
    collected <- s9, asked <- s10, others <- s11
PN == INSTANCE PickupRun WITH Page <- "list", Kinds <- {"notPicked", "cancel", "out"},
    Parcels <- {1}, Returns <- {}, Loads <- {1, 2}, MaxDialogs <- 1, MaxOthers <- 1, pur <- s1,
    row <- s2, known <- s3, loads <- s4, typed <- s5, dialog <- s6, measuring <- s7,
    flights <- s8, collected <- s9, asked <- s10, others <- s11
FL == INSTANCE PickupForm WITH Flow <- "b2c", Places <- {"a"}, Parcels <- {1, 2}, At <- AtOne,
    Openings <- {For1}, Warm <- TRUE, Expires <- FALSE, Fields <- {}, Loads <- {1},
    MaxPresses <- 1, MaxOthers <- 0, ready <- s1, made <- s2, others <- s3, cached <- s4,
    saved <- s5, known <- s6, fetching <- s7, opening <- s8, place <- s9, eligible <- s10,
    loadedFor <- s11, selected <- s12, preselect <- s13, loads <- s14, hand <- s15,
    blind <- s16, boxes <- s17, slotPassed <- s18, flight <- s19, presses <- s20
FW == INSTANCE PickupForm WITH Flow <- "b2c", Places <- {"a"}, Parcels <- {1}, At <- AtOne,
    Openings <- {For1}, Warm <- TRUE, Expires <- FALSE, Fields <- {}, Loads <- {1},
    MaxPresses <- 1, MaxOthers <- 1, ready <- s1, made <- s2, others <- s3, cached <- s4,
    saved <- s5, known <- s6, fetching <- s7, opening <- s8, place <- s9, eligible <- s10,
    loadedFor <- s11, selected <- s12, preselect <- s13, loads <- s14, hand <- s15,
    blind <- s16, boxes <- s17, slotPassed <- s18, flight <- s19, presses <- s20
FP == INSTANCE PickupForm WITH Flow <- "b2c", Places <- {"a", "b"}, Parcels <- {1, 2},
    At <- AtTwo, Openings <- {For1}, Warm <- FALSE, Expires <- FALSE, Fields <- {},
    Loads <- {1}, MaxPresses <- 1, MaxOthers <- 0, ready <- s1, made <- s2, others <- s3,
    cached <- s4, saved <- s5, known <- s6, fetching <- s7, opening <- s8, place <- s9,
    eligible <- s10, loadedFor <- s11, selected <- s12, preselect <- s13, loads <- s14,
    hand <- s15, blind <- s16, boxes <- s17, slotPassed <- s18, flight <- s19, presses <- s20
FR == INSTANCE PickupForm WITH Flow <- "b2c", Places <- {"a", "b"}, Parcels <- {1}, At <- AtTwo,
    Openings <- {For1}, Warm <- FALSE, Expires <- FALSE, Fields <- {}, Loads <- {1, 2},
    MaxPresses <- 1, MaxOthers <- 0, ready <- s1, made <- s2, others <- s3, cached <- s4,
    saved <- s5, known <- s6, fetching <- s7, opening <- s8, place <- s9, eligible <- s10,
    loadedFor <- s11, selected <- s12, preselect <- s13, loads <- s14, hand <- s15,
    blind <- s16, boxes <- s17, slotPassed <- s18, flight <- s19, presses <- s20
FF == INSTANCE PickupForm WITH Flow <- "b2b", Places <- {"a"}, Parcels <- {1}, At <- AtOne,
    Openings <- {Blank, For1}, Warm <- FALSE, Expires <- TRUE, Fields <- {"boxes", "mode",
    "slot"}, Loads <- {1}, MaxPresses <- 1, MaxOthers <- 1, ready <- s1, made <- s2,
    others <- s3, cached <- s4, saved <- s5, known <- s6, fetching <- s7, opening <- s8,
    place <- s9, eligible <- s10, loadedFor <- s11, selected <- s12, preselect <- s13,
    loads <- s14, hand <- s15, blind <- s16, boxes <- s17, slotPassed <- s18, flight <- s19,
    presses <- s20
OA == INSTANCE OrdersList WITH Page <- "list", Parcels <- {1, 2}, At <- AtTwo, PageOf <- OnOne,
    Loads <- {1}, MaxAdds <- 1, MaxOthers <- 0, MaxTurns <- 1, state <- s1, linked <- s2,
    pickup <- s3, others <- s4, index <- s5, rows <- s6, rowsOf <- s7, loads <- s8,
    failed <- s9, cached <- s10, ticks <- s11, hidden <- s12, check <- s13, dialog <- s14,
    add <- s15, dismissed <- s16, adds <- s17, turns <- s18, left <- s19
OB == INSTANCE OrdersList WITH Page <- "list", Parcels <- {1, 2}, At <- AtOne, PageOf <- OnTwo,
    Loads <- {1, 2}, MaxAdds <- 0, MaxOthers <- 0, MaxTurns <- 2, state <- s1, linked <- s2,
    pickup <- s3, others <- s4, index <- s5, rows <- s6, rowsOf <- s7, loads <- s8,
    failed <- s9, cached <- s10, ticks <- s11, hidden <- s12, check <- s13, dialog <- s14,
    add <- s15, dismissed <- s16, adds <- s17, turns <- s18, left <- s19
OC == INSTANCE OrdersList WITH Page <- "order", Parcels <- {1}, At <- AtOne, PageOf <- OnOne,
    Loads <- {1}, MaxAdds <- 2, MaxOthers <- 1, MaxTurns <- 0, state <- s1, linked <- s2,
    pickup <- s3, others <- s4, index <- s5, rows <- s6, rowsOf <- s7, loads <- s8,
    failed <- s9, cached <- s10, ticks <- s11, hidden <- s12, check <- s13, dialog <- s14,
    add <- s15, dismissed <- s16, adds <- s17, turns <- s18, left <- s19
RD == INSTANCE Recharge WITH Intents <- {1}, Amounts <- {500}, Utrs <- {"u"}, Loads <- {1},
    MaxOthers <- 1, MaxOpens <- 1, txn <- s1, changes <- s2, open <- s3, amountInput <- s4,
    intent <- s5, utrNumber <- s6, loadingIntent <- s7, confirming <- s8, poll <- s9,
    wallet <- s10, hasError <- s11, loads <- s12, told <- s13, others <- s14, opens <- s15
RE == INSTANCE Recharge WITH Intents <- {1, 2}, Amounts <- {500}, Utrs <- {"u"}, Loads <- {1},
    MaxOthers <- 0, MaxOpens <- 1, txn <- s1, changes <- s2, open <- s3, amountInput <- s4,
    intent <- s5, utrNumber <- s6, loadingIntent <- s7, confirming <- s8, poll <- s9,
    wallet <- s10, hasError <- s11, loads <- s12, told <- s13, others <- s14, opens <- s15
RB == INSTANCE Recharge WITH Intents <- {1}, Amounts <- {500}, Utrs <- {"u"}, Loads <- {1, 2},
    MaxOthers <- 1, MaxOpens <- 1, txn <- s1, changes <- s2, open <- s3, amountInput <- s4,
    intent <- s5, utrNumber <- s6, loadingIntent <- s7, confirming <- s8, poll <- s9,
    wallet <- s10, hasError <- s11, loads <- s12, told <- s13, others <- s14, opens <- s15
WA == INSTANCE WalletPage WITH Txns <- {1}, Mine <- {}, Refs <- {"u"}, Filters <- {"all",
    "one"}, Under <- Everyone, Loads <- {1, 2}, MaxDone <- 2, MaxOthers <- 1, MaxTurns <- 0,
    txn <- s1, credited <- s2, others <- s3, userFilter <- s4, rechargeTxns <- s5,
    pendingApprovals <- s6, loading <- s7, loads <- s8, cached <- s9, turns <- s10,
    approveTarget <- s11, review <- s12, inlineUtr <- s13, rejectReason <- s14, offline <- s15,
    offlineCredit <- s16, done <- s17
WB == INSTANCE WalletPage WITH Txns <- {1, 2}, Mine <- {2}, Refs <- {"u"}, Filters <- {"all",
    "one"}, Under <- OneUser, Loads <- {1, 2}, MaxDone <- 1, MaxOthers <- 0, MaxTurns <- 1,
    txn <- s1, credited <- s2, others <- s3, userFilter <- s4, rechargeTxns <- s5,
    pendingApprovals <- s6, loading <- s7, loads <- s8, cached <- s9, turns <- s10,
    approveTarget <- s11, review <- s12, inlineUtr <- s13, rejectReason <- s14, offline <- s15,
    offlineCredit <- s16, done <- s17
OX == INSTANCE ShipmentPage WITH Starts <- {"ASSIGNED", "IN_TRANSIT"}, Moves <- {"ASSIGNED",
    "IN_TRANSIT", "EXCEPTION", "RTO_INITIATED", "COMPLETED", "CANCELLED"}, MayReturn <- TRUE,
    Dialogs <- {"cancel"}, Bodies <- {}, Loads <- {1, 2}, MaxMoves <- 2, MaxOpens <- 0,
    status <- s1, held <- s2, refunds <- s3, returns <- s4, recorded <- s5, claims <- s6,
    moves <- s7, shown <- s8, cached <- s9, loads <- s10, cancelOpen <- s11, preview <- s12,
    cancelling <- s13, toldCancel <- s14, updateOpen <- s15, form <- s16, updating <- s17,
    measureOpen <- s18, opens <- s19, body <- s20, measuring <- s21
OY == INSTANCE ShipmentPage WITH Starts <- {"ASSIGNED", "IN_TRANSIT"}, Moves <- {"IN_TRANSIT",
    "EXCEPTION", "CANCELLED"}, MayReturn <- FALSE, Dialogs <- {"cancel"}, Bodies <- {},
    Loads <- {1}, MaxMoves <- 1, MaxOpens <- 0, status <- s1, held <- s2, refunds <- s3,
    returns <- s4, recorded <- s5, claims <- s6, moves <- s7, shown <- s8, cached <- s9,
    loads <- s10, cancelOpen <- s11, preview <- s12, cancelling <- s13, toldCancel <- s14,
    updateOpen <- s15, form <- s16, updating <- s17, measureOpen <- s18, opens <- s19,
    body <- s20, measuring <- s21
OU == INSTANCE ShipmentPage WITH Starts <- {"IN_TRANSIT"}, Moves <- {"IN_TRANSIT", "EXCEPTION",
    "COMPLETED"}, MayReturn <- TRUE, Dialogs <- {"update"}, Bodies <- {}, Loads <- {1},
    MaxMoves <- 0, MaxOpens <- 0, status <- s1, held <- s2, refunds <- s3, returns <- s4,
    recorded <- s5, claims <- s6, moves <- s7, shown <- s8, cached <- s9, loads <- s10,
    cancelOpen <- s11, preview <- s12, cancelling <- s13, toldCancel <- s14, updateOpen <- s15,
    form <- s16, updating <- s17, measureOpen <- s18, opens <- s19, body <- s20,
    measuring <- s21
OM == INSTANCE ShipmentPage WITH Starts <- {"IN_TRANSIT"}, Moves <- {}, MayReturn <- TRUE,
    Dialogs <- {"measure"}, Bodies <- {1, 2}, Loads <- {1}, MaxMoves <- 0, MaxOpens <- 1,
    status <- s1, held <- s2, refunds <- s3, returns <- s4, recorded <- s5, claims <- s6,
    moves <- s7, shown <- s8, cached <- s9, loads <- s10, cancelOpen <- s11, preview <- s12,
    cancelling <- s13, toldCancel <- s14, updateOpen <- s15, form <- s16, updating <- s17,
    measureOpen <- s18, opens <- s19, body <- s20, measuring <- s21
ON == INSTANCE ShipmentPage WITH Starts <- {"IN_TRANSIT"}, Moves <- {}, MayReturn <- TRUE,
    Dialogs <- {"measure"}, Bodies <- {1}, Loads <- {1}, MaxMoves <- 0, MaxOpens <- 2,
    status <- s1, held <- s2, refunds <- s3, returns <- s4, recorded <- s5, claims <- s6,
    moves <- s7, shown <- s8, cached <- s9, loads <- s10, cancelOpen <- s11, preview <- s12,
    cancelling <- s13, toldCancel <- s14, updateOpen <- s15, form <- s16, updating <- s17,
    measureOpen <- s18, opens <- s19, body <- s20, measuring <- s21
XB == INSTANCE ExceptionDesk WITH Parcels <- {1, 2}, ReasonOf <- [p \in {1, 2} |-> "DAMAGED"],
    TabOf <- AtOne, PageOf <- OnTwo, IsB2B <- FALSE, MayWrite <- TRUE, CanAcceptCharges <- TRUE,
    Ways <- {"bulk"}, Loads <- {1}, MaxTurns <- 1, MaxHolds <- 1, hold <- s1, holds <- s2,
    answers <- s3, debits <- s4, tab <- s5, narrowed <- s6, page <- s7, turns <- s8,
    listData <- s9, cached <- s10, loads <- s11, newest <- s12, loading <- s13, error <- s14,
    selectedIds <- s15, dialog <- s16, typed <- s17, submitting <- s18, bulk <- s19, told <- s20
XD == INSTANCE ExceptionDesk WITH Parcels <- {1}, ReasonOf <- [p \in {1} |-> "DAMAGED"],
    TabOf <- AtOne, PageOf <- OnOne, IsB2B <- FALSE, MayWrite <- TRUE, CanAcceptCharges <- TRUE,
    Ways <- {"bulk", "dialog"}, Loads <- {1}, MaxTurns <- 0, MaxHolds <- 1, hold <- s1,
    holds <- s2, answers <- s3, debits <- s4, tab <- s5, narrowed <- s6, page <- s7,
    turns <- s8, listData <- s9, cached <- s10, loads <- s11, newest <- s12, loading <- s13,
    error <- s14, selectedIds <- s15, dialog <- s16, typed <- s17, submitting <- s18,
    bulk <- s19, told <- s20
XS == INSTANCE ExceptionDesk WITH Parcels <- {1}, ReasonOf <- [p \in {1} |-> "SHORT_SHIPMENT"],
    TabOf <- AtOne, PageOf <- OnOne, IsB2B <- TRUE, MayWrite <- TRUE, CanAcceptCharges <- FALSE,
    Ways <- {"dialog"}, Loads <- {1}, MaxTurns <- 1, MaxHolds <- 1, hold <- s1, holds <- s2,
    answers <- s3, debits <- s4, tab <- s5, narrowed <- s6, page <- s7, turns <- s8,
    listData <- s9, cached <- s10, loads <- s11, newest <- s12, loading <- s13, error <- s14,
    selectedIds <- s15, dialog <- s16, typed <- s17, submitting <- s18, bulk <- s19, told <- s20
XH == INSTANCE ExceptionDesk WITH Parcels <- {1}, ReasonOf <- [p \in {1} |-> "SHORT_SHIPMENT"],
    TabOf <- AtOne, PageOf <- OnOne, IsB2B <- TRUE, MayWrite <- TRUE, CanAcceptCharges <- FALSE,
    Ways <- {"dialog"}, Loads <- {1}, MaxTurns <- 0, MaxHolds <- 2, hold <- s1, holds <- s2,
    answers <- s3, debits <- s4, tab <- s5, narrowed <- s6, page <- s7, turns <- s8,
    listData <- s9, cached <- s10, loads <- s11, newest <- s12, loading <- s13, error <- s14,
    selectedIds <- s15, dialog <- s16, typed <- s17, submitting <- s18, bulk <- s19, told <- s20
XT == INSTANCE ExceptionDesk WITH Parcels <- {1, 2}, ReasonOf <- [p \in {1, 2} |-> "DAMAGED"],
    TabOf <- AtTwo, PageOf <- OnOne, IsB2B <- TRUE, MayWrite <- FALSE,
    CanAcceptCharges <- FALSE, Ways <- {}, Loads <- {1, 2}, MaxTurns <- 1, MaxHolds <- 1,
    hold <- s1, holds <- s2, answers <- s3, debits <- s4, tab <- s5, narrowed <- s6, page <- s7,
    turns <- s8, listData <- s9, cached <- s10, loads <- s11, newest <- s12, loading <- s13,
    error <- s14, selectedIds <- s15, dialog <- s16, typed <- s17, submitting <- s18,
    bulk <- s19, told <- s20
XA == INSTANCE ExceptionDesk WITH Parcels <- {1, 2}, ReasonOf <- [p \in {1,
    2} |-> "APPOINTMENT_NEEDED"], TabOf <- AtOne, PageOf <- OnOne, IsB2B <- TRUE,
    MayWrite <- TRUE, CanAcceptCharges <- FALSE, Ways <- {"bulk"}, Loads <- {1}, MaxTurns <- 0,
    MaxHolds <- 1, hold <- s1, holds <- s2, answers <- s3, debits <- s4, tab <- s5,
    narrowed <- s6, page <- s7, turns <- s8, listData <- s9, cached <- s10, loads <- s11,
    newest <- s12, loading <- s13, error <- s14, selectedIds <- s15, dialog <- s16,
    typed <- s17, submitting <- s18, bulk <- s19, told <- s20
VA == INSTANCE WeightClaims WITH Parcels <- {1, 2}, Weights <- {1, 2}, CanWrite <- TRUE,
    CanManageFinance <- FALSE, Loads <- {1}, MaxOthers <- 0, MaxTurns <- 0, row <- s1,
    tickets <- s2, settled <- s3, others <- s4, searchQuery <- s5, disputes <- s6, cached <- s7,
    loads <- s8, viewMode <- s9, selected <- s10, grams <- s11, gramsOf <- s12, claim <- s13,
    preview <- s14, resolveTarget <- s15, resolving <- s16, turns <- s17
VB == INSTANCE WeightClaims WITH Parcels <- {1}, Weights <- {1, 2}, CanWrite <- TRUE,
    CanManageFinance <- TRUE, Loads <- {1}, MaxOthers <- 2, MaxTurns <- 0, row <- s1,
    tickets <- s2, settled <- s3, others <- s4, searchQuery <- s5, disputes <- s6, cached <- s7,
    loads <- s8, viewMode <- s9, selected <- s10, grams <- s11, gramsOf <- s12, claim <- s13,
    preview <- s14, resolveTarget <- s15, resolving <- s16, turns <- s17
VC == INSTANCE WeightClaims WITH Parcels <- {1, 2}, Weights <- {1, 2}, CanWrite <- FALSE,
    CanManageFinance <- FALSE, Loads <- {1, 2}, MaxOthers <- 1, MaxTurns <- 2, row <- s1,
    tickets <- s2, settled <- s3, others <- s4, searchQuery <- s5, disputes <- s6, cached <- s7,
    loads <- s8, viewMode <- s9, selected <- s10, grams <- s11, gramsOf <- s12, claim <- s13,
    preview <- s14, resolveTarget <- s15, resolving <- s16, turns <- s17
TO == INSTANCE Team WITH Starts <- OwnerTeams, Uses <- {"role"}, Loads <- {1}, MaxOthers <- 1,
    MaxOpens <- 1, row <- s1, others <- s2, actor <- s3, users <- s4, statusFilter <- s5,
    loads <- s6, modal <- s7, save <- s8, act <- s9, opens <- s10
TA == INSTANCE Team WITH Starts <- AdminTeams, Uses <- {"active", "scope"}, Loads <- {1},
    MaxOthers <- 1, MaxOpens <- 1, row <- s1, others <- s2, actor <- s3, users <- s4,
    statusFilter <- s5, loads <- s6, modal <- s7, save <- s8, act <- s9, opens <- s10
TR == INSTANCE Team WITH Starts <- {<<Person("ADMIN", TRUE), Person("CUSTOMER", TRUE)>>},
    Uses <- {"menus"}, Loads <- {1}, MaxOthers <- 1, MaxOpens <- 0, row <- s1, others <- s2,
    actor <- s3, users <- s4, statusFilter <- s5, loads <- s6, modal <- s7, save <- s8,
    act <- s9, opens <- s10
TF == INSTANCE Team WITH Starts <- {<<Person("ADMIN", TRUE), Person("CUSTOMER", TRUE)>>},
    Uses <- {"menus", "filter"}, Loads <- {1}, MaxOthers <- 0, MaxOpens <- 0, row <- s1,
    others <- s2, actor <- s3, users <- s4, statusFilter <- s5, loads <- s6, modal <- s7,
    save <- s8, act <- s9, opens <- s10
TL == INSTANCE Team WITH Starts <- {<<Person("ADMIN", TRUE), Person("CUSTOMER", TRUE)>>},
    Uses <- {"contact"}, Loads <- {1, 2}, MaxOthers <- 1, MaxOpens <- 2, row <- s1,
    others <- s2, actor <- s3, users <- s4, statusFilter <- s5, loads <- s6, modal <- s7,
    save <- s8, act <- s9, opens <- s10
EA == INSTANCE EditOrder WITH Fields <- {"weight", "ref"}, Editable <- [s \in {1, 2} |-> IF
    s = 1 THEN {"weight", "ref"} ELSE {"ref"}], Asks <- {1}, MaxOthers <- 1, row <- s1,
    stage <- s2, paid <- s3, others <- s4, initialValues <- s5, form <- s6, read <- s7,
    preview <- s8, asks <- s9, upload <- s10, save <- s11, told <- s12
EB == INSTANCE EditOrder WITH Fields <- {"weight", "docs"}, Editable <- [s \in
    {1} |-> {"weight", "docs"}], Asks <- {1}, MaxOthers <- 0, row <- s1, stage <- s2,
    paid <- s3, others <- s4, initialValues <- s5, form <- s6, read <- s7, preview <- s8,
    asks <- s9, upload <- s10, save <- s11, told <- s12
EC == INSTANCE EditOrder WITH Fields <- {"weight"}, Editable <- [s \in {1} |-> {"weight"}],
    Asks <- {1, 2}, MaxOthers <- 1, row <- s1, stage <- s2, paid <- s3, others <- s4,
    initialValues <- s5, form <- s6, read <- s7, preview <- s8, asks <- s9, upload <- s10,
    save <- s11, told <- s12
CA == INSTANCE CargoPage WITH Reasons <- {"DOCUMENT_NEEDED", "APPOINTMENT_NEEDED"},
    Ways <- {"document", "appointment"}, Dates <- {1}, Slots <- {"am"}, Loads <- {1},
    MaxHolds <- 2, MaxMoves <- 2, status <- s1, reason <- s2, heldFor <- s3, answered <- s4,
    window <- s5, moves <- s6, shown <- s7, cached <- s8, loads <- s9, documentType <- s10,
    date <- s11, slot <- s12, uploading <- s13, scheduling <- s14, open <- s15, form <- s16,
    bookings <- s17
CB == INSTANCE CargoPage WITH Reasons <- {"APPOINTMENT_NEEDED", "DAMAGED"}, Ways <- {"dialog"},
    Dates <- {1}, Slots <- {"am", "pm"}, Loads <- {1}, MaxHolds <- 2, MaxMoves <- 2,
    status <- s1, reason <- s2, heldFor <- s3, answered <- s4, window <- s5, moves <- s6,
    shown <- s7, cached <- s8, loads <- s9, documentType <- s10, date <- s11, slot <- s12,
    uploading <- s13, scheduling <- s14, open <- s15, form <- s16, bookings <- s17
MA == INSTANCE Appointments WITH Lrs <- {1, 2}, PageOf <- OnOne, CanBook <- TRUE, Loads <- {1},
    MaxTurns <- 0, MaxOthers <- 1, MaxPresses <- 1, window <- s1, hold <- s2, wrong <- s3,
    others <- s4, tab <- s5, search <- s6, page <- s7, turns <- s8, data <- s9, error <- s10,
    loading <- s11, cached <- s12, loads <- s13, newest <- s14, refreshed <- s15,
    selectedIds <- s16, dialogRows <- s17, form <- s18, presses <- s19, saving <- s20
MB == INSTANCE Appointments WITH Lrs <- {1, 2}, PageOf <- OnTwo, CanBook <- TRUE, Loads <- {1},
    MaxTurns <- 1, MaxOthers <- 0, MaxPresses <- 2, window <- s1, hold <- s2, wrong <- s3,
    others <- s4, tab <- s5, search <- s6, page <- s7, turns <- s8, data <- s9, error <- s10,
    loading <- s11, cached <- s12, loads <- s13, newest <- s14, refreshed <- s15,
    selectedIds <- s16, dialogRows <- s17, form <- s18, presses <- s19, saving <- s20
MC == INSTANCE Appointments WITH Lrs <- {1, 2}, PageOf <- OnOne, CanBook <- FALSE, Loads <- {1,
    2}, MaxTurns <- 1, MaxOthers <- 1, MaxPresses <- 0, window <- s1, hold <- s2, wrong <- s3,
    others <- s4, tab <- s5, search <- s6, page <- s7, turns <- s8, data <- s9, error <- s10,
    loading <- s11, cached <- s12, loads <- s13, newest <- s14, refreshed <- s15,
    selectedIds <- s16, dialogRows <- s17, form <- s18, presses <- s19, saving <- s20
GB == INSTANCE Settings WITH Own <- {"brand"}, Cards <- {}, Cached <- FALSE, Reads <- {1},
    MaxOthers <- 1, MaxVersions <- 3, settings <- s1, history <- s2, priced <- s3, others <- s4,
    form <- s5, lastSavedValues <- s6, cache <- s7, settingsHydrated <- s8,
    settingsHydrateError <- s9, reads <- s10, activeSection <- s11, save <- s12,
    historyOpen <- s13, items <- s14, list <- s15, confirmEntry <- s16, restore <- s17,
    told <- s18
GD == INSTANCE Settings WITH Own <- {"brand"}, Cards <- {}, Cached <- FALSE, Reads <- {1},
    MaxOthers <- 2, MaxVersions <- 2, settings <- s1, history <- s2, priced <- s3, others <- s4,
    form <- s5, lastSavedValues <- s6, cache <- s7, settingsHydrated <- s8,
    settingsHydrateError <- s9, reads <- s10, activeSection <- s11, save <- s12,
    historyOpen <- s13, items <- s14, list <- s15, confirmEntry <- s16, restore <- s17,
    told <- s18
GC == INSTANCE Settings WITH Own <- {"brand", "wallet_config"}, Cards <- {"wallet", "rates"},
    Cached <- FALSE, Reads <- {1}, MaxOthers <- 0, MaxVersions <- 1, settings <- s1,
    history <- s2, priced <- s3, others <- s4, form <- s5, lastSavedValues <- s6, cache <- s7,
    settingsHydrated <- s8, settingsHydrateError <- s9, reads <- s10, activeSection <- s11,
    save <- s12, historyOpen <- s13, items <- s14, list <- s15, confirmEntry <- s16,
    restore <- s17, told <- s18
UA == INSTANCE SupportDesk WITH Tickets <- {1, 2, 3}, Seed <- {1}, IsStaff <- FALSE,
    Ways <- {"raise"}, Chips <- {"delivery", "claims"}, Openings <- {"link"}, Loads <- {1},
    Opens <- {1}, MaxOthers <- 1, MaxOpens <- 0, tickets <- s1, reopened <- s2, others <- s3,
    activeTab <- s4, shown <- s5, cached <- s6, loads <- s7, active <- s8, detail <- s9,
    loadingDetail <- s10, opens <- s11, opened <- s12, replyText <- s13, send <- s14,
    status <- s15, overtaken <- s16, raise <- s17, create <- s18, told <- s19
UB == INSTANCE SupportDesk WITH Tickets <- {1, 2}, Seed <- {1, 2}, IsStaff <- FALSE,
    Ways <- {"talk"}, Chips <- {}, Openings <- {"menu"}, Loads <- {1}, Opens <- {1, 2},
    MaxOthers <- 1, MaxOpens <- 2, tickets <- s1, reopened <- s2, others <- s3, activeTab <- s4,
    shown <- s5, cached <- s6, loads <- s7, active <- s8, detail <- s9, loadingDetail <- s10,
    opens <- s11, opened <- s12, replyText <- s13, send <- s14, status <- s15, overtaken <- s16,
    raise <- s17, create <- s18, told <- s19
UC == INSTANCE SupportDesk WITH Tickets <- {1, 2}, Seed <- {1, 2}, IsStaff <- TRUE,
    Ways <- {"talk"}, Chips <- {}, Openings <- {"menu"}, Loads <- {1}, Opens <- {1},
    MaxOthers <- 0, MaxOpens <- 2, tickets <- s1, reopened <- s2, others <- s3, activeTab <- s4,
    shown <- s5, cached <- s6, loads <- s7, active <- s8, detail <- s9, loadingDetail <- s10,
    opens <- s11, opened <- s12, replyText <- s13, send <- s14, status <- s15, overtaken <- s16,
    raise <- s17, create <- s18, told <- s19
UD == INSTANCE SupportDesk WITH Tickets <- {1}, Seed <- {1}, IsStaff <- FALSE, Ways <- {"talk",
    "tabs"}, Chips <- {}, Openings <- {"menu"}, Loads <- {1}, Opens <- {1}, MaxOthers <- 1,
    MaxOpens <- 1, tickets <- s1, reopened <- s2, others <- s3, activeTab <- s4, shown <- s5,
    cached <- s6, loads <- s7, active <- s8, detail <- s9, loadingDetail <- s10, opens <- s11,
    opened <- s12, replyText <- s13, send <- s14, status <- s15, overtaken <- s16, raise <- s17,
    create <- s18, told <- s19
RA == INSTANCE Remittances WITH Merchants <- {"a", "b"}, Parcels <- {1, 2}, Owner <- <<"a",
    "b">>, Amount <- <<1, 1>>, Pending <- {1, 2}, CanManageFinance <- TRUE, Ways <- {"batch"},
    Loads <- {1}, Previews <- {1, 2}, MaxPreviews <- 2, MaxOthers <- 1, parcel <- s1,
    debt <- s2, batches <- s3, others <- s4, filter <- s5, shown <- s6, cached <- s7,
    loading <- s8, loads <- s9, dialogOpen <- s10, merchantId <- s11, preview <- s12,
    previewLoading <- s13, selectedIds <- s14, typed <- s15, previews <- s16, asked <- s17,
    send <- s18, detail <- s19, csv <- s20, told <- s21
RT == INSTANCE Remittances WITH Merchants <- {"a"}, Parcels <- {1, 2}, Owner <- <<"a", "a">>,
    Amount <- <<1, 2>>, Pending <- {1, 2}, CanManageFinance <- TRUE, Ways <- {"batch"},
    Loads <- {1}, Previews <- {1, 2}, MaxPreviews <- 2, MaxOthers <- 0, parcel <- s1,
    debt <- s2, batches <- s3, others <- s4, filter <- s5, shown <- s6, cached <- s7,
    loading <- s8, loads <- s9, dialogOpen <- s10, merchantId <- s11, preview <- s12,
    previewLoading <- s13, selectedIds <- s14, typed <- s15, previews <- s16, asked <- s17,
    send <- s18, detail <- s19, csv <- s20, told <- s21
RL == INSTANCE Remittances WITH Merchants <- {"a"}, Parcels <- {1}, Owner <- <<"a">>,
    Amount <- <<1>>, Pending <- {1}, CanManageFinance <- TRUE, Ways <- {"batch", "list"},
    Loads <- {1}, Previews <- {1}, MaxPreviews <- 1, MaxOthers <- 0, parcel <- s1, debt <- s2,
    batches <- s3, others <- s4, filter <- s5, shown <- s6, cached <- s7, loading <- s8,
    loads <- s9, dialogOpen <- s10, merchantId <- s11, preview <- s12, previewLoading <- s13,
    selectedIds <- s14, typed <- s15, previews <- s16, asked <- s17, send <- s18, detail <- s19,
    csv <- s20, told <- s21
RP == INSTANCE Remittances WITH Merchants <- {"a"}, Parcels <- {1}, Owner <- <<"a">>,
    Amount <- <<1>>, Pending <- {1}, CanManageFinance <- TRUE, Ways <- {"list", "page"},
    Loads <- {1}, Previews <- {1}, MaxPreviews <- 1, MaxOthers <- 1, parcel <- s1, debt <- s2,
    batches <- s3, others <- s4, filter <- s5, shown <- s6, cached <- s7, loading <- s8,
    loads <- s9, dialogOpen <- s10, merchantId <- s11, preview <- s12, previewLoading <- s13,
    selectedIds <- s14, typed <- s15, previews <- s16, asked <- s17, send <- s18, detail <- s19,
    csv <- s20, told <- s21
NA == INSTANCE PrimeLanes WITH Lanes <- {1}, Seed <- {1}, Values <- {1, 2}, Files <- {},
    CanEdit <- TRUE, MaxEdits <- 1, MaxOthers <- 1, lanes <- s1, others <- s2, activeOnly <- s3,
    lanesShown <- s4, load <- s5, draft <- s6, edits <- s7, row <- s8, open <- s9, file <- s10,
    report <- s11, busy <- s12, told <- s13
NB == INSTANCE PrimeLanes WITH Lanes <- {1, 2}, Seed <- {1, 2}, Values <- {1}, Files <- {},
    CanEdit <- TRUE, MaxEdits <- 2, MaxOthers <- 1, lanes <- s1, others <- s2, activeOnly <- s3,
    lanesShown <- s4, load <- s5, draft <- s6, edits <- s7, row <- s8, open <- s9, file <- s10,
    report <- s11, busy <- s12, told <- s13
NC == INSTANCE PrimeLanes WITH Lanes <- {1, 2, 3}, Seed <- {1, 2}, Values <- {1, 2},
    Files <- LaneFiles, CanEdit <- TRUE, MaxEdits <- 0, MaxOthers <- 1, lanes <- s1,
    others <- s2, activeOnly <- s3, lanesShown <- s4, load <- s5, draft <- s6, edits <- s7,
    row <- s8, open <- s9, file <- s10, report <- s11, busy <- s12, told <- s13
YA == INSTANCE PricingPanel WITH Options <- {"prime"}, Base <- 1, Values <- {0, 1},
    Ways <- {"markup"}, CanEdit <- TRUE, Cached <- TRUE, MaxTypings <- 2, MaxOthers <- 1,
    policy <- s1, others <- s2, saved <- s3, loadError <- s4, fetch <- s5, form <- s6,
    typings <- s7, pending <- s8, changes <- s9, save <- s10, told <- s11
YB == INSTANCE PricingPanel WITH Options <- {"surface"}, Base <- 1, Values <- {0, 1},
    Ways <- {"markup"}, CanEdit <- TRUE, Cached <- TRUE, MaxTypings <- 2, MaxOthers <- 0,
    policy <- s1, others <- s2, saved <- s3, loadError <- s4, fetch <- s5, form <- s6,
    typings <- s7, pending <- s8, changes <- s9, save <- s10, told <- s11
YC == INSTANCE PricingPanel WITH Options <- {"surface"}, Base <- 1, Values <- {1},
    Ways <- {"cod", "services"}, CanEdit <- TRUE, Cached <- FALSE, MaxTypings <- 1,
    MaxOthers <- 1, policy <- s1, others <- s2, saved <- s3, loadError <- s4, fetch <- s5,
    form <- s6, typings <- s7, pending <- s8, changes <- s9, save <- s10, told <- s11
AA == INSTANCE AddressBook WITH Ids <- 1..3, Seed <- MyOne, Admin <- FALSE, Filters <- {"ALL"},
    Ways <- {"add", "remove"}, Reads <- {1}, MaxOpens <- 2, MaxTypings <- 2, MaxOthers <- 1,
    book <- s1, booked <- s2, readded <- s3, edited <- s4, others <- s5, rows <- s6,
    filter <- s7, reads <- s8, dialog <- s9, form <- s10, geo <- s11, typings <- s12,
    saving <- s13, opens <- s14, confirm <- s15, removing <- s16, told <- s17
AE == INSTANCE AddressBook WITH Ids <- 1..3, Seed <- TeamBook, Admin <- TRUE, Filters <- {"ALL",
    "TENANT"}, Ways <- {"edit"}, Reads <- {1}, MaxOpens <- 1, MaxTypings <- 1, MaxOthers <- 1,
    book <- s1, booked <- s2, readded <- s3, edited <- s4, others <- s5, rows <- s6,
    filter <- s7, reads <- s8, dialog <- s9, form <- s10, geo <- s11, typings <- s12,
    saving <- s13, opens <- s14, confirm <- s15, removing <- s16, told <- s17
AF == INSTANCE AddressBook WITH Ids <- 1..3, Seed <- MyBook, Admin <- FALSE, Filters <- {"ALL"},
    Ways <- {"edit"}, Reads <- {1}, MaxOpens <- 2, MaxTypings <- 1, MaxOthers <- 0, book <- s1,
    booked <- s2, readded <- s3, edited <- s4, others <- s5, rows <- s6, filter <- s7,
    reads <- s8, dialog <- s9, form <- s10, geo <- s11, typings <- s12, saving <- s13,
    opens <- s14, confirm <- s15, removing <- s16, told <- s17
AR == INSTANCE AddressBook WITH Ids <- 1..2, Seed <- TeamBook, Admin <- FALSE,
    Filters <- {"ALL"}, Ways <- {"edit", "remove"}, Reads <- {1, 2}, MaxOpens <- 2,
    MaxTypings <- 0, MaxOthers <- 1, book <- s1, booked <- s2, readded <- s3, edited <- s4,
    others <- s5, rows <- s6, filter <- s7, reads <- s8, dialog <- s9, form <- s10, geo <- s11,
    typings <- s12, saving <- s13, opens <- s14, confirm <- s15, removing <- s16, told <- s17
KA == INSTANCE RateCalculator WITH Cargo <- TRUE, Typable <- {"route", "category", "door",
    "blind", "boxes"}, Options <- {1}, Calls <- {1, 2}, MaxTypings <- 3, MaxCalcs <- 1,
    form <- s1, rendered <- s2, touched <- s3, typings <- s4, calls <- s5, calcs <- s6,
    quote <- s7, failed <- s8, selected <- s9, wizard <- s10
KB == INSTANCE RateCalculator WITH Cargo <- FALSE, Typable <- {"route", "category", "cod",
    "value"}, Options <- {1}, Calls <- {1, 2}, MaxTypings <- 5, MaxCalcs <- 1, form <- s1,
    rendered <- s2, touched <- s3, typings <- s4, calls <- s5, calcs <- s6, quote <- s7,
    failed <- s8, selected <- s9, wizard <- s10
KC == INSTANCE RateCalculator WITH Cargo <- TRUE, Typable <- {"route", "category", "risk",
    "value", "door"}, Options <- {1}, Calls <- {1, 2}, MaxTypings <- 4, MaxCalcs <- 2,
    form <- s1, rendered <- s2, touched <- s3, typings <- s4, calls <- s5, calcs <- s6,
    quote <- s7, failed <- s8, selected <- s9, wizard <- s10
KD == INSTANCE RateCalculator WITH Cargo <- FALSE, Typable <- {"route", "category"},
    Options <- {1, 2}, Calls <- {1, 2}, MaxTypings <- 3, MaxCalcs <- 3, form <- s1,
    rendered <- s2, touched <- s3, typings <- s4, calls <- s5, calcs <- s6, quote <- s7,
    failed <- s8, selected <- s9, wizard <- s10
KT == INSTANCE Tracking WITH Reader <- "buyer", MaxMoves <- 5, MaxReads <- 1, row <- s1,
    log <- s2, left <- s3, box <- s4, asked <- s5, reads <- s6, going <- s7, page <- s8
KS == INSTANCE Tracking WITH Reader <- "staff", MaxMoves <- 5, MaxReads <- 1, row <- s1,
    log <- s2, left <- s3, box <- s4, asked <- s5, reads <- s6, going <- s7, page <- s8
KR == INSTANCE Tracking WITH Reader <- "seller", MaxMoves <- 4, MaxReads <- 1, row <- s1,
    log <- s2, left <- s3, box <- s4, asked <- s5, reads <- s6, going <- s7, page <- s8
ZA == INSTANCE OpsBoard WITH Kinds <- {CodParcel}, SeesOtp <- TRUE, Uses <- {"pickups",
    "out for delivery", "exceptions", "cash"}, MaxMoves <- 2, MaxReads <- 1, MaxTaps <- 2,
    kind <- s1, parcel <- s2, pickup <- s3, reading <- s4, reads <- s5, lists <- s6, tab <- s7,
    chip <- s8, filter <- s9, search <- s10, tile <- s11, message <- s12, selected <- s13,
    dialog <- s14, flight <- s15, moves <- s16, taps <- s17
ZM == INSTANCE OpsBoard WITH Kinds <- {CodParcel}, SeesOtp <- TRUE, Uses <- {"out for delivery",
    "messages"}, MaxMoves <- 3, MaxReads <- 1, MaxTaps <- 2, kind <- s1, parcel <- s2,
    pickup <- s3, reading <- s4, reads <- s5, lists <- s6, tab <- s7, chip <- s8, filter <- s9,
    search <- s10, tile <- s11, message <- s12, selected <- s13, dialog <- s14, flight <- s15,
    moves <- s16, taps <- s17
ZB == INSTANCE OpsBoard WITH Kinds <- {ReturnParcel}, SeesOtp <- FALSE, Uses <- {"filters"},
    MaxMoves <- 1, MaxReads <- 1, MaxTaps <- 2, kind <- s1, parcel <- s2, pickup <- s3,
    reading <- s4, reads <- s5, lists <- s6, tab <- s7, chip <- s8, filter <- s9, search <- s10,
    tile <- s11, message <- s12, selected <- s13, dialog <- s14, flight <- s15, moves <- s16,
    taps <- s17
ZC == INSTANCE OpsBoard WITH Kinds <- {ToPayParcel}, SeesOtp <- TRUE, Uses <- {"not picked"},
    MaxMoves <- 2, MaxReads <- 1, MaxTaps <- 2, kind <- s1, parcel <- s2, pickup <- s3,
    reading <- s4, reads <- s5, lists <- s6, tab <- s7, chip <- s8, filter <- s9, search <- s10,
    tile <- s11, message <- s12, selected <- s13, dialog <- s14, flight <- s15, moves <- s16,
    taps <- s17
ZD == INSTANCE OpsBoard WITH Kinds <- {CodParcel}, SeesOtp <- TRUE, Uses <- {}, MaxMoves <- 4,
    MaxReads <- 1, MaxTaps <- 0, kind <- s1, parcel <- s2, pickup <- s3, reading <- s4,
    reads <- s5, lists <- s6, tab <- s7, chip <- s8, filter <- s9, search <- s10, tile <- s11,
    message <- s12, selected <- s13, dialog <- s14, flight <- s15, moves <- s16, taps <- s17
ZE == INSTANCE OpsBoard WITH Kinds <- {ReturnParcel}, SeesOtp <- TRUE, Uses <- {},
    MaxMoves <- 3, MaxReads <- 1, MaxTaps <- 0, kind <- s1, parcel <- s2, pickup <- s3,
    reading <- s4, reads <- s5, lists <- s6, tab <- s7, chip <- s8, filter <- s9, search <- s10,
    tile <- s11, message <- s12, selected <- s13, dialog <- s14, flight <- s15, moves <- s16,
    taps <- s17
HA == INSTANCE CarrierBilling WITH Role <- "admin", InDialog <- TRUE, Ways <- {"book",
    "recover", "price"}, Amounts <- {2, 4}, Weights <- {2}, Gst <- 2, MaxTypings <- 1,
    MaxPresses <- 2, MaxOthers <- 0, MaxOpens <- 1, parcel <- s1, others <- s2, open <- s3,
    opens <- s4, state <- s5, fetch <- s6, status <- s7, editing <- s8, form <- s9,
    addingCharge <- s10, chargeAmount <- s11, typings <- s12, presses <- s13, save <- s14,
    charge <- s15, late <- s16, loose <- s17
HD == INSTANCE CarrierBilling WITH Role <- "admin", InDialog <- TRUE, Ways <- {"recover"},
    Amounts <- {4}, Weights <- {2}, Gst <- 2, MaxTypings <- 0, MaxPresses <- 3, MaxOthers <- 0,
    MaxOpens <- 2, parcel <- s1, others <- s2, open <- s3, opens <- s4, state <- s5,
    fetch <- s6, status <- s7, editing <- s8, form <- s9, addingCharge <- s10,
    chargeAmount <- s11, typings <- s12, presses <- s13, save <- s14, charge <- s15,
    late <- s16, loose <- s17
HB == INSTANCE CarrierBilling WITH Role <- "admin", InDialog <- FALSE, Ways <- {"book",
    "recover", "price"}, Amounts <- {4}, Weights <- {2}, Gst <- 2, MaxTypings <- 1,
    MaxPresses <- 2, MaxOthers <- 1, MaxOpens <- 0, parcel <- s1, others <- s2, open <- s3,
    opens <- s4, state <- s5, fetch <- s6, status <- s7, editing <- s8, form <- s9,
    addingCharge <- s10, chargeAmount <- s11, typings <- s12, presses <- s13, save <- s14,
    charge <- s15, late <- s16, loose <- s17
HO == INSTANCE CarrierBilling WITH Role <- "operations", InDialog <- FALSE, Ways <- {"book",
    "recover", "price"}, Amounts <- {4}, Weights <- {2}, Gst <- 2, MaxTypings <- 1,
    MaxPresses <- 2, MaxOthers <- 1, MaxOpens <- 0, parcel <- s1, others <- s2, open <- s3,
    opens <- s4, state <- s5, fetch <- s6, status <- s7, editing <- s8, form <- s9,
    addingCharge <- s10, chargeAmount <- s11, typings <- s12, presses <- s13, save <- s14,
    charge <- s15, late <- s16, loose <- s17
HN == INSTANCE CarrierBilling WITH Role <- "admin", InDialog <- FALSE, Ways <- {"price"},
    Amounts <- {2}, Weights <- {1, 3}, Gst <- 2, MaxTypings <- 1, MaxPresses <- 1,
    MaxOthers <- 2, MaxOpens <- 0, parcel <- s1, others <- s2, open <- s3, opens <- s4,
    state <- s5, fetch <- s6, status <- s7, editing <- s8, form <- s9, addingCharge <- s10,
    chargeAmount <- s11, typings <- s12, presses <- s13, save <- s14, charge <- s15,
    late <- s16, loose <- s17

Init ==
    \/ /\ area = "booking"
       /\ \/ part = "booking pages" /\ BF!Init
          \/ part = "booking retries" /\ BR!Init
          \/ part = "booking overlaps" /\ BO!Init
          \/ part = "booking forgotten" /\ BG!Init
          \/ part = "booking quotes" /\ BQ!Init
          \/ part = "shipment form" /\ SF!Init /\ s22 = None /\ s23 = None
          \/ part = "shipment quotes" /\ SQ!Init /\ s22 = None /\ s23 = None
          \/ part = "rates for cargo" /\ KA!Init /\ s11 = None /\ s12 = None /\ s13 = None /\
             s14 = None /\ s15 = None /\ s16 = None /\ s17 = None /\ s18 = None /\ s19 = None /\
             s20 = None /\ s21 = None /\ s22 = None /\ s23 = None
          \/ part = "rates for parcels" /\ KB!Init /\ s11 = None /\ s12 = None /\ s13 = None /\
             s14 = None /\ s15 = None /\ s16 = None /\ s17 = None /\ s18 = None /\ s19 = None /\
             s20 = None /\ s21 = None /\ s22 = None /\ s23 = None
          \/ part = "rates and risk" /\ KC!Init /\ s11 = None /\ s12 = None /\ s13 = None /\
             s14 = None /\ s15 = None /\ s16 = None /\ s17 = None /\ s18 = None /\ s19 = None /\
             s20 = None /\ s21 = None /\ s22 = None /\ s23 = None
          \/ part = "rates chosen" /\ KD!Init /\ s11 = None /\ s12 = None /\ s13 = None /\
             s14 = None /\ s15 = None /\ s16 = None /\ s17 = None /\ s18 = None /\ s19 = None /\
             s20 = None /\ s21 = None /\ s22 = None /\ s23 = None
    \/ /\ area = "delivery"
       /\ \/ part = "doorstep deliveries" /\ DD!Init /\ s15 = None /\ s16 = None /\ s17 = None
             /\ s18 = None /\ s19 = None /\ s20 = None /\ s21 = None /\ s22 = None /\ s23 = None
          \/ part = "doorstep reloads" /\ DL!Init /\ s15 = None /\ s16 = None /\ s17 = None /\
             s18 = None /\ s19 = None /\ s20 = None /\ s21 = None /\ s22 = None /\ s23 = None
          \/ part = "doorstep refusals" /\ DN!Init /\ s15 = None /\ s16 = None /\ s17 = None /\
             s18 = None /\ s19 = None /\ s20 = None /\ s21 = None /\ s22 = None /\ s23 = None
          \/ part = "doorstep third attempts" /\ DT!Init /\ s15 = None /\ s16 = None /\
             s17 = None /\ s18 = None /\ s19 = None /\ s20 = None /\ s21 = None /\ s22 = None /\
             s23 = None
          \/ part = "doorstep checks" /\ DQ!Init /\ s15 = None /\ s16 = None /\ s17 = None /\
             s18 = None /\ s19 = None /\ s20 = None /\ s21 = None /\ s22 = None /\ s23 = None
          \/ part = "doorstep returns" /\ DR!Init /\ s15 = None /\ s16 = None /\ s17 = None /\
             s18 = None /\ s19 = None /\ s20 = None /\ s21 = None /\ s22 = None /\ s23 = None
          \/ part = "pickup cards" /\ PC!Init /\ s12 = None /\ s13 = None /\ s14 = None /\
             s15 = None /\ s16 = None /\ s17 = None /\ s18 = None /\ s19 = None /\ s20 = None /\
             s21 = None /\ s22 = None /\ s23 = None
          \/ part = "pickup card dialogs" /\ PO!Init /\ s12 = None /\ s13 = None /\ s14 = None
             /\ s15 = None /\ s16 = None /\ s17 = None /\ s18 = None /\ s19 = None /\ s20 = None
             /\ s21 = None /\ s22 = None /\ s23 = None
          \/ part = "pickup list checklist" /\ PL!Init /\ s12 = None /\ s13 = None /\ s14 = None
             /\ s15 = None /\ s16 = None /\ s17 = None /\ s18 = None /\ s19 = None /\ s20 = None
             /\ s21 = None /\ s22 = None /\ s23 = None
          \/ part = "pickup list ticks" /\ PT!Init /\ s12 = None /\ s13 = None /\ s14 = None /\
             s15 = None /\ s16 = None /\ s17 = None /\ s18 = None /\ s19 = None /\ s20 = None /\
             s21 = None /\ s22 = None /\ s23 = None
          \/ part = "pickup list dialogs" /\ PN!Init /\ s12 = None /\ s13 = None /\ s14 = None
             /\ s15 = None /\ s16 = None /\ s17 = None /\ s18 = None /\ s19 = None /\ s20 = None
             /\ s21 = None /\ s22 = None /\ s23 = None
    \/ /\ area = "pickups"
       /\ \/ part = "pickup form lists" /\ FL!Init /\ s21 = None /\ s22 = None /\ s23 = None
          \/ part = "pickup form rows" /\ FW!Init /\ s21 = None /\ s22 = None /\ s23 = None
          \/ part = "pickup form places" /\ FP!Init /\ s21 = None /\ s22 = None /\ s23 = None
          \/ part = "pickup form reads" /\ FR!Init /\ s21 = None /\ s22 = None /\ s23 = None
          \/ part = "pickup form fields" /\ FF!Init /\ s21 = None /\ s22 = None /\ s23 = None
          \/ part = "orders places" /\ OA!Init /\ s20 = None /\ s21 = None /\ s22 = None /\
             s23 = None
          \/ part = "orders pages" /\ OB!Init /\ s20 = None /\ s21 = None /\ s22 = None /\
             s23 = None
          \/ part = "order banner" /\ OC!Init /\ s20 = None /\ s21 = None /\ s22 = None /\
             s23 = None
          \/ part = "board's tiles" /\ ZA!Init /\ s18 = None /\ s19 = None /\ s20 = None /\
             s21 = None /\ s22 = None /\ s23 = None
          \/ part = "board's messages" /\ ZM!Init /\ s18 = None /\ s19 = None /\ s20 = None /\
             s21 = None /\ s22 = None /\ s23 = None
          \/ part = "board's filters" /\ ZB!Init /\ s18 = None /\ s19 = None /\ s20 = None /\
             s21 = None /\ s22 = None /\ s23 = None
          \/ part = "board's not picked" /\ ZC!Init /\ s18 = None /\ s19 = None /\ s20 = None /\
             s21 = None /\ s22 = None /\ s23 = None
          \/ part = "board's journey" /\ ZD!Init /\ s18 = None /\ s19 = None /\ s20 = None /\
             s21 = None /\ s22 = None /\ s23 = None
          \/ part = "board's return" /\ ZE!Init /\ s18 = None /\ s19 = None /\ s20 = None /\
             s21 = None /\ s22 = None /\ s23 = None
    \/ /\ area = "money"
       /\ \/ part = "recharges" /\ RD!Init /\ s16 = None /\ s17 = None /\ s18 = None /\
             s19 = None /\ s20 = None /\ s21 = None /\ s22 = None /\ s23 = None
          \/ part = "recharges in turn" /\ RE!Init /\ s16 = None /\ s17 = None /\ s18 = None /\
             s19 = None /\ s20 = None /\ s21 = None /\ s22 = None /\ s23 = None
          \/ part = "wallet balance" /\ RB!Init /\ s16 = None /\ s17 = None /\ s18 = None /\
             s19 = None /\ s20 = None /\ s21 = None /\ s22 = None /\ s23 = None
          \/ part = "wallet payments" /\ WA!Init /\ s18 = None /\ s19 = None /\ s20 = None /\
             s21 = None /\ s22 = None /\ s23 = None
          \/ part = "wallet reviews" /\ WB!Init /\ s18 = None /\ s19 = None /\ s20 = None /\
             s21 = None /\ s22 = None /\ s23 = None
          \/ part = "remittances for two" /\ RA!Init /\ s22 = None /\ s23 = None
          \/ part = "remittances ticked" /\ RT!Init /\ s22 = None /\ s23 = None
          \/ part = "remittances listed" /\ RL!Init /\ s22 = None /\ s23 = None
          \/ part = "remittances paged" /\ RP!Init /\ s22 = None /\ s23 = None
    \/ /\ area = "orders"
       /\ \/ part = "order cancelling" /\ OX!Init /\ s22 = None /\ s23 = None
          \/ part = "order by staff" /\ OY!Init /\ s22 = None /\ s23 = None
          \/ part = "order updating" /\ OU!Init /\ s22 = None /\ s23 = None
          \/ part = "order measuring" /\ OM!Init /\ s22 = None /\ s23 = None
          \/ part = "order measured again" /\ ON!Init /\ s22 = None /\ s23 = None
          \/ part = "order edit" /\ EA!Init /\ s13 = None /\ s14 = None /\ s15 = None /\
             s16 = None /\ s17 = None /\ s18 = None /\ s19 = None /\ s20 = None /\ s21 = None /\
             s22 = None /\ s23 = None
          \/ part = "cargo edit" /\ EB!Init /\ s13 = None /\ s14 = None /\ s15 = None /\
             s16 = None /\ s17 = None /\ s18 = None /\ s19 = None /\ s20 = None /\ s21 = None /\
             s22 = None /\ s23 = None
          \/ part = "edit prices" /\ EC!Init /\ s13 = None /\ s14 = None /\ s15 = None /\
             s16 = None /\ s17 = None /\ s18 = None /\ s19 = None /\ s20 = None /\ s21 = None /\
             s22 = None /\ s23 = None
          \/ part = "tracked by the buyer" /\ KT!Init /\ s9 = None /\ s10 = None /\ s11 = None
             /\ s12 = None /\ s13 = None /\ s14 = None /\ s15 = None /\ s16 = None /\ s17 = None
             /\ s18 = None /\ s19 = None /\ s20 = None /\ s21 = None /\ s22 = None /\ s23 = None
          \/ part = "tracked by staff" /\ KS!Init /\ s9 = None /\ s10 = None /\ s11 = None /\
             s12 = None /\ s13 = None /\ s14 = None /\ s15 = None /\ s16 = None /\ s17 = None /\
             s18 = None /\ s19 = None /\ s20 = None /\ s21 = None /\ s22 = None /\ s23 = None
          \/ part = "tracked by the seller" /\ KR!Init /\ s9 = None /\ s10 = None /\ s11 = None
             /\ s12 = None /\ s13 = None /\ s14 = None /\ s15 = None /\ s16 = None /\ s17 = None
             /\ s18 = None /\ s19 = None /\ s20 = None /\ s21 = None /\ s22 = None /\ s23 = None
    \/ /\ area = "holds"
       /\ \/ part = "exceptions ticked" /\ XB!Init /\ s21 = None /\ s22 = None /\ s23 = None
          \/ part = "exceptions answered" /\ XD!Init /\ s21 = None /\ s22 = None /\ s23 = None
          \/ part = "exceptions by staff" /\ XS!Init /\ s21 = None /\ s22 = None /\ s23 = None
          \/ part = "exceptions held again" /\ XH!Init /\ s21 = None /\ s22 = None /\ s23 = None
          \/ part = "exceptions tabs" /\ XT!Init /\ s21 = None /\ s22 = None /\ s23 = None
          \/ part = "exceptions booked" /\ XA!Init /\ s21 = None /\ s22 = None /\ s23 = None
          \/ part = "cargo holds" /\ CA!Init /\ s18 = None /\ s19 = None /\ s20 = None /\
             s21 = None /\ s22 = None /\ s23 = None
          \/ part = "cargo appointments" /\ CB!Init /\ s18 = None /\ s19 = None /\ s20 = None /\
             s21 = None /\ s22 = None /\ s23 = None
    \/ /\ area = "cargo"
       /\ \/ part = "weight claims" /\ VA!Init /\ s18 = None /\ s19 = None /\ s20 = None /\
             s21 = None /\ s22 = None /\ s23 = None
          \/ part = "weight decisions" /\ VB!Init /\ s18 = None /\ s19 = None /\ s20 = None /\
             s21 = None /\ s22 = None /\ s23 = None
          \/ part = "weight searches" /\ VC!Init /\ s18 = None /\ s19 = None /\ s20 = None /\
             s21 = None /\ s22 = None /\ s23 = None
          \/ part = "appointments booked" /\ MA!Init /\ s21 = None /\ s22 = None /\ s23 = None
          \/ part = "appointments pages" /\ MB!Init /\ s21 = None /\ s22 = None /\ s23 = None
          \/ part = "appointments reads" /\ MC!Init /\ s21 = None /\ s22 = None /\ s23 = None
    \/ /\ area = "office"
       /\ \/ part = "team owner" /\ TO!Init /\ s11 = None /\ s12 = None /\ s13 = None /\
             s14 = None /\ s15 = None /\ s16 = None /\ s17 = None /\ s18 = None /\ s19 = None /\
             s20 = None /\ s21 = None /\ s22 = None /\ s23 = None
          \/ part = "team admin" /\ TA!Init /\ s11 = None /\ s12 = None /\ s13 = None /\
             s14 = None /\ s15 = None /\ s16 = None /\ s17 = None /\ s18 = None /\ s19 = None /\
             s20 = None /\ s21 = None /\ s22 = None /\ s23 = None
          \/ part = "team rows" /\ TR!Init /\ s11 = None /\ s12 = None /\ s13 = None /\
             s14 = None /\ s15 = None /\ s16 = None /\ s17 = None /\ s18 = None /\ s19 = None /\
             s20 = None /\ s21 = None /\ s22 = None /\ s23 = None
          \/ part = "team filters" /\ TF!Init /\ s11 = None /\ s12 = None /\ s13 = None /\
             s14 = None /\ s15 = None /\ s16 = None /\ s17 = None /\ s18 = None /\ s19 = None /\
             s20 = None /\ s21 = None /\ s22 = None /\ s23 = None
          \/ part = "team reads" /\ TL!Init /\ s11 = None /\ s12 = None /\ s13 = None /\
             s14 = None /\ s15 = None /\ s16 = None /\ s17 = None /\ s18 = None /\ s19 = None /\
             s20 = None /\ s21 = None /\ s22 = None /\ s23 = None
          \/ part = "settings restored" /\ GB!Init /\ s19 = None /\ s20 = None /\ s21 = None /\
             s22 = None /\ s23 = None
          \/ part = "settings saved" /\ GD!Init /\ s19 = None /\ s20 = None /\ s21 = None /\
             s22 = None /\ s23 = None
          \/ part = "settings refused" /\ GC!Init /\ s19 = None /\ s20 = None /\ s21 = None /\
             s22 = None /\ s23 = None
    \/ /\ area = "help"
       /\ \/ part = "tickets raised" /\ UA!Init /\ s20 = None /\ s21 = None /\ s22 = None /\
             s23 = None
          \/ part = "tickets answered" /\ UB!Init /\ s20 = None /\ s21 = None /\ s22 = None /\
             s23 = None
          \/ part = "tickets handled" /\ UC!Init /\ s20 = None /\ s21 = None /\ s22 = None /\
             s23 = None
          \/ part = "tickets listed" /\ UD!Init /\ s20 = None /\ s21 = None /\ s22 = None /\
             s23 = None
          \/ part = "addresses added" /\ AA!Init /\ s18 = None /\ s19 = None /\ s20 = None /\
             s21 = None /\ s22 = None /\ s23 = None
          \/ part = "addresses shared" /\ AE!Init /\ s18 = None /\ s19 = None /\ s20 = None /\
             s21 = None /\ s22 = None /\ s23 = None
          \/ part = "addresses edited" /\ AF!Init /\ s18 = None /\ s19 = None /\ s20 = None /\
             s21 = None /\ s22 = None /\ s23 = None
          \/ part = "addresses removed" /\ AR!Init /\ s18 = None /\ s19 = None /\ s20 = None /\
             s21 = None /\ s22 = None /\ s23 = None
    \/ /\ area = "prices"
       /\ \/ part = "lanes edited" /\ NA!Init /\ s14 = None /\ s15 = None /\ s16 = None /\
             s17 = None /\ s18 = None /\ s19 = None /\ s20 = None /\ s21 = None /\ s22 = None /\
             s23 = None
          \/ part = "lanes switched" /\ NB!Init /\ s14 = None /\ s15 = None /\ s16 = None /\
             s17 = None /\ s18 = None /\ s19 = None /\ s20 = None /\ s21 = None /\ s22 = None /\
             s23 = None
          \/ part = "lanes imported" /\ NC!Init /\ s14 = None /\ s15 = None /\ s16 = None /\
             s17 = None /\ s18 = None /\ s19 = None /\ s20 = None /\ s21 = None /\ s22 = None /\
             s23 = None
          \/ part = "prime markup" /\ YA!Init /\ s12 = None /\ s13 = None /\ s14 = None /\
             s15 = None /\ s16 = None /\ s17 = None /\ s18 = None /\ s19 = None /\ s20 = None /\
             s21 = None /\ s22 = None /\ s23 = None
          \/ part = "surface markup" /\ YB!Init /\ s12 = None /\ s13 = None /\ s14 = None /\
             s15 = None /\ s16 = None /\ s17 = None /\ s18 = None /\ s19 = None /\ s20 = None /\
             s21 = None /\ s22 = None /\ s23 = None
          \/ part = "fees and services" /\ YC!Init /\ s12 = None /\ s13 = None /\ s14 = None /\
             s15 = None /\ s16 = None /\ s17 = None /\ s18 = None /\ s19 = None /\ s20 = None /\
             s21 = None /\ s22 = None /\ s23 = None
          \/ part = "carrier desk" /\ HA!Init /\ s18 = None /\ s19 = None /\ s20 = None /\
             s21 = None /\ s22 = None /\ s23 = None
          \/ part = "carrier desk closed" /\ HD!Init /\ s18 = None /\ s19 = None /\ s20 = None
             /\ s21 = None /\ s22 = None /\ s23 = None
          \/ part = "carrier card" /\ HB!Init /\ s18 = None /\ s19 = None /\ s20 = None /\
             s21 = None /\ s22 = None /\ s23 = None
          \/ part = "carrier card of operations" /\ HO!Init /\ s18 = None /\ s19 = None /\
             s20 = None /\ s21 = None /\ s22 = None /\ s23 = None
          \/ part = "carrier card repriced" /\ HN!Init /\ s18 = None /\ s19 = None /\ s20 = None
             /\ s21 = None /\ s22 = None /\ s23 = None

Next ==
    /\ UNCHANGED <<area, part>>
    /\ \/ /\ area = "booking"
          /\ \/ part = "booking pages" /\ BF!Next
             \/ part = "booking retries" /\ BR!Next
             \/ part = "booking overlaps" /\ BO!Next
             \/ part = "booking forgotten" /\ BG!Next
             \/ part = "booking quotes" /\ BQ!Next
             \/ part = "shipment form" /\ SF!Next /\ UNCHANGED <<s22, s23>>
             \/ part = "shipment quotes" /\ SQ!Next /\ UNCHANGED <<s22, s23>>
             \/ part = "rates for cargo" /\ KA!Next /\ UNCHANGED <<s11, s12, s13, s14, s15, s16,
                s17, s18, s19, s20, s21, s22, s23>>
             \/ part = "rates for parcels" /\ KB!Next /\ UNCHANGED <<s11, s12, s13, s14, s15,
                s16, s17, s18, s19, s20, s21, s22, s23>>
             \/ part = "rates and risk" /\ KC!Next /\ UNCHANGED <<s11, s12, s13, s14, s15, s16,
                s17, s18, s19, s20, s21, s22, s23>>
             \/ part = "rates chosen" /\ KD!Next /\ UNCHANGED <<s11, s12, s13, s14, s15, s16,
                s17, s18, s19, s20, s21, s22, s23>>
       \/ /\ area = "delivery"
          /\ \/ part = "doorstep deliveries" /\ DD!Next /\ UNCHANGED <<s15, s16, s17, s18, s19,
                s20, s21, s22, s23>>
             \/ part = "doorstep reloads" /\ DL!Next /\ UNCHANGED <<s15, s16, s17, s18, s19,
                s20, s21, s22, s23>>
             \/ part = "doorstep refusals" /\ DN!Next /\ UNCHANGED <<s15, s16, s17, s18, s19,
                s20, s21, s22, s23>>
             \/ part = "doorstep third attempts" /\ DT!Next /\ UNCHANGED <<s15, s16, s17, s18,
                s19, s20, s21, s22, s23>>
             \/ part = "doorstep checks" /\ DQ!Next /\ UNCHANGED <<s15, s16, s17, s18, s19, s20,
                s21, s22, s23>>
             \/ part = "doorstep returns" /\ DR!Next /\ UNCHANGED <<s15, s16, s17, s18, s19,
                s20, s21, s22, s23>>
             \/ part = "pickup cards" /\ PC!Next /\ UNCHANGED <<s12, s13, s14, s15, s16, s17,
                s18, s19, s20, s21, s22, s23>>
             \/ part = "pickup card dialogs" /\ PO!Next /\ UNCHANGED <<s12, s13, s14, s15, s16,
                s17, s18, s19, s20, s21, s22, s23>>
             \/ part = "pickup list checklist" /\ PL!Next /\ UNCHANGED <<s12, s13, s14, s15,
                s16, s17, s18, s19, s20, s21, s22, s23>>
             \/ part = "pickup list ticks" /\ PT!Next /\ UNCHANGED <<s12, s13, s14, s15, s16,
                s17, s18, s19, s20, s21, s22, s23>>
             \/ part = "pickup list dialogs" /\ PN!Next /\ UNCHANGED <<s12, s13, s14, s15, s16,
                s17, s18, s19, s20, s21, s22, s23>>
       \/ /\ area = "pickups"
          /\ \/ part = "pickup form lists" /\ FL!Next /\ UNCHANGED <<s21, s22, s23>>
             \/ part = "pickup form rows" /\ FW!Next /\ UNCHANGED <<s21, s22, s23>>
             \/ part = "pickup form places" /\ FP!Next /\ UNCHANGED <<s21, s22, s23>>
             \/ part = "pickup form reads" /\ FR!Next /\ UNCHANGED <<s21, s22, s23>>
             \/ part = "pickup form fields" /\ FF!Next /\ UNCHANGED <<s21, s22, s23>>
             \/ part = "orders places" /\ OA!Next /\ UNCHANGED <<s20, s21, s22, s23>>
             \/ part = "orders pages" /\ OB!Next /\ UNCHANGED <<s20, s21, s22, s23>>
             \/ part = "order banner" /\ OC!Next /\ UNCHANGED <<s20, s21, s22, s23>>
             \/ part = "board's tiles" /\ ZA!Next /\ UNCHANGED <<s18, s19, s20, s21, s22, s23>>
             \/ part = "board's messages" /\ ZM!Next /\ UNCHANGED <<s18, s19, s20, s21, s22,
                s23>>
             \/ part = "board's filters" /\ ZB!Next /\ UNCHANGED <<s18, s19, s20, s21, s22,
                s23>>
             \/ part = "board's not picked" /\ ZC!Next /\ UNCHANGED <<s18, s19, s20, s21, s22,
                s23>>
             \/ part = "board's journey" /\ ZD!Next /\ UNCHANGED <<s18, s19, s20, s21, s22,
                s23>>
             \/ part = "board's return" /\ ZE!Next /\ UNCHANGED <<s18, s19, s20, s21, s22, s23>>
       \/ /\ area = "money"
          /\ \/ part = "recharges" /\ RD!Next /\ UNCHANGED <<s16, s17, s18, s19, s20, s21, s22,
                s23>>
             \/ part = "recharges in turn" /\ RE!Next /\ UNCHANGED <<s16, s17, s18, s19, s20,
                s21, s22, s23>>
             \/ part = "wallet balance" /\ RB!Next /\ UNCHANGED <<s16, s17, s18, s19, s20, s21,
                s22, s23>>
             \/ part = "wallet payments" /\ WA!Next /\ UNCHANGED <<s18, s19, s20, s21, s22,
                s23>>
             \/ part = "wallet reviews" /\ WB!Next /\ UNCHANGED <<s18, s19, s20, s21, s22, s23>>
             \/ part = "remittances for two" /\ RA!Next /\ UNCHANGED <<s22, s23>>
             \/ part = "remittances ticked" /\ RT!Next /\ UNCHANGED <<s22, s23>>
             \/ part = "remittances listed" /\ RL!Next /\ UNCHANGED <<s22, s23>>
             \/ part = "remittances paged" /\ RP!Next /\ UNCHANGED <<s22, s23>>
       \/ /\ area = "orders"
          /\ \/ part = "order cancelling" /\ OX!Next /\ UNCHANGED <<s22, s23>>
             \/ part = "order by staff" /\ OY!Next /\ UNCHANGED <<s22, s23>>
             \/ part = "order updating" /\ OU!Next /\ UNCHANGED <<s22, s23>>
             \/ part = "order measuring" /\ OM!Next /\ UNCHANGED <<s22, s23>>
             \/ part = "order measured again" /\ ON!Next /\ UNCHANGED <<s22, s23>>
             \/ part = "order edit" /\ EA!Next /\ UNCHANGED <<s13, s14, s15, s16, s17, s18, s19,
                s20, s21, s22, s23>>
             \/ part = "cargo edit" /\ EB!Next /\ UNCHANGED <<s13, s14, s15, s16, s17, s18, s19,
                s20, s21, s22, s23>>
             \/ part = "edit prices" /\ EC!Next /\ UNCHANGED <<s13, s14, s15, s16, s17, s18,
                s19, s20, s21, s22, s23>>
             \/ part = "tracked by the buyer" /\ KT!Next /\ UNCHANGED <<s9, s10, s11, s12, s13,
                s14, s15, s16, s17, s18, s19, s20, s21, s22, s23>>
             \/ part = "tracked by staff" /\ KS!Next /\ UNCHANGED <<s9, s10, s11, s12, s13, s14,
                s15, s16, s17, s18, s19, s20, s21, s22, s23>>
             \/ part = "tracked by the seller" /\ KR!Next /\ UNCHANGED <<s9, s10, s11, s12, s13,
                s14, s15, s16, s17, s18, s19, s20, s21, s22, s23>>
       \/ /\ area = "holds"
          /\ \/ part = "exceptions ticked" /\ XB!Next /\ UNCHANGED <<s21, s22, s23>>
             \/ part = "exceptions answered" /\ XD!Next /\ UNCHANGED <<s21, s22, s23>>
             \/ part = "exceptions by staff" /\ XS!Next /\ UNCHANGED <<s21, s22, s23>>
             \/ part = "exceptions held again" /\ XH!Next /\ UNCHANGED <<s21, s22, s23>>
             \/ part = "exceptions tabs" /\ XT!Next /\ UNCHANGED <<s21, s22, s23>>
             \/ part = "exceptions booked" /\ XA!Next /\ UNCHANGED <<s21, s22, s23>>
             \/ part = "cargo holds" /\ CA!Next /\ UNCHANGED <<s18, s19, s20, s21, s22, s23>>
             \/ part = "cargo appointments" /\ CB!Next /\ UNCHANGED <<s18, s19, s20, s21, s22,
                s23>>
       \/ /\ area = "cargo"
          /\ \/ part = "weight claims" /\ VA!Next /\ UNCHANGED <<s18, s19, s20, s21, s22, s23>>
             \/ part = "weight decisions" /\ VB!Next /\ UNCHANGED <<s18, s19, s20, s21, s22,
                s23>>
             \/ part = "weight searches" /\ VC!Next /\ UNCHANGED <<s18, s19, s20, s21, s22,
                s23>>
             \/ part = "appointments booked" /\ MA!Next /\ UNCHANGED <<s21, s22, s23>>
             \/ part = "appointments pages" /\ MB!Next /\ UNCHANGED <<s21, s22, s23>>
             \/ part = "appointments reads" /\ MC!Next /\ UNCHANGED <<s21, s22, s23>>
       \/ /\ area = "office"
          /\ \/ part = "team owner" /\ TO!Next /\ UNCHANGED <<s11, s12, s13, s14, s15, s16, s17,
                s18, s19, s20, s21, s22, s23>>
             \/ part = "team admin" /\ TA!Next /\ UNCHANGED <<s11, s12, s13, s14, s15, s16, s17,
                s18, s19, s20, s21, s22, s23>>
             \/ part = "team rows" /\ TR!Next /\ UNCHANGED <<s11, s12, s13, s14, s15, s16, s17,
                s18, s19, s20, s21, s22, s23>>
             \/ part = "team filters" /\ TF!Next /\ UNCHANGED <<s11, s12, s13, s14, s15, s16,
                s17, s18, s19, s20, s21, s22, s23>>
             \/ part = "team reads" /\ TL!Next /\ UNCHANGED <<s11, s12, s13, s14, s15, s16, s17,
                s18, s19, s20, s21, s22, s23>>
             \/ part = "settings restored" /\ GB!Next /\ UNCHANGED <<s19, s20, s21, s22, s23>>
             \/ part = "settings saved" /\ GD!Next /\ UNCHANGED <<s19, s20, s21, s22, s23>>
             \/ part = "settings refused" /\ GC!Next /\ UNCHANGED <<s19, s20, s21, s22, s23>>
       \/ /\ area = "help"
          /\ \/ part = "tickets raised" /\ UA!Next /\ UNCHANGED <<s20, s21, s22, s23>>
             \/ part = "tickets answered" /\ UB!Next /\ UNCHANGED <<s20, s21, s22, s23>>
             \/ part = "tickets handled" /\ UC!Next /\ UNCHANGED <<s20, s21, s22, s23>>
             \/ part = "tickets listed" /\ UD!Next /\ UNCHANGED <<s20, s21, s22, s23>>
             \/ part = "addresses added" /\ AA!Next /\ UNCHANGED <<s18, s19, s20, s21, s22,
                s23>>
             \/ part = "addresses shared" /\ AE!Next /\ UNCHANGED <<s18, s19, s20, s21, s22,
                s23>>
             \/ part = "addresses edited" /\ AF!Next /\ UNCHANGED <<s18, s19, s20, s21, s22,
                s23>>
             \/ part = "addresses removed" /\ AR!Next /\ UNCHANGED <<s18, s19, s20, s21, s22,
                s23>>
       \/ /\ area = "prices"
          /\ \/ part = "lanes edited" /\ NA!Next /\ UNCHANGED <<s14, s15, s16, s17, s18, s19,
                s20, s21, s22, s23>>
             \/ part = "lanes switched" /\ NB!Next /\ UNCHANGED <<s14, s15, s16, s17, s18, s19,
                s20, s21, s22, s23>>
             \/ part = "lanes imported" /\ NC!Next /\ UNCHANGED <<s14, s15, s16, s17, s18, s19,
                s20, s21, s22, s23>>
             \/ part = "prime markup" /\ YA!Next /\ UNCHANGED <<s12, s13, s14, s15, s16, s17,
                s18, s19, s20, s21, s22, s23>>
             \/ part = "surface markup" /\ YB!Next /\ UNCHANGED <<s12, s13, s14, s15, s16, s17,
                s18, s19, s20, s21, s22, s23>>
             \/ part = "fees and services" /\ YC!Next /\ UNCHANGED <<s12, s13, s14, s15, s16,
                s17, s18, s19, s20, s21, s22, s23>>
             \/ part = "carrier desk" /\ HA!Next /\ UNCHANGED <<s18, s19, s20, s21, s22, s23>>
             \/ part = "carrier desk closed" /\ HD!Next /\ UNCHANGED <<s18, s19, s20, s21, s22,
                s23>>
             \/ part = "carrier card" /\ HB!Next /\ UNCHANGED <<s18, s19, s20, s21, s22, s23>>
             \/ part = "carrier card of operations" /\ HO!Next /\ UNCHANGED <<s18, s19, s20,
                s21, s22, s23>>
             \/ part = "carrier card repriced" /\ HN!Next /\ UNCHANGED <<s18, s19, s20, s21,
                s22, s23>>

Spec == Init /\ [][Next]_vars

TypeOK ==
    /\ area = "booking" =>
         /\ part = "booking pages" => BF!TypeOK
         /\ part = "booking retries" => BR!TypeOK
         /\ part = "booking overlaps" => BO!TypeOK
         /\ part = "booking forgotten" => BG!TypeOK
         /\ part = "booking quotes" => BQ!TypeOK
         /\ part = "shipment form" => SF!TypeOK
         /\ part = "shipment quotes" => SQ!TypeOK
         /\ part = "rates for cargo" => KA!TypeOK
         /\ part = "rates for parcels" => KB!TypeOK
         /\ part = "rates and risk" => KC!TypeOK
         /\ part = "rates chosen" => KD!TypeOK
    /\ area = "delivery" =>
         /\ part = "doorstep deliveries" => DD!TypeOK
         /\ part = "doorstep reloads" => DL!TypeOK
         /\ part = "doorstep refusals" => DN!TypeOK
         /\ part = "doorstep third attempts" => DT!TypeOK
         /\ part = "doorstep checks" => DQ!TypeOK
         /\ part = "doorstep returns" => DR!TypeOK
         /\ part = "pickup cards" => PC!TypeOK
         /\ part = "pickup card dialogs" => PO!TypeOK
         /\ part = "pickup list checklist" => PL!TypeOK
         /\ part = "pickup list ticks" => PT!TypeOK
         /\ part = "pickup list dialogs" => PN!TypeOK
    /\ area = "pickups" =>
         /\ part = "pickup form lists" => FL!TypeOK
         /\ part = "pickup form rows" => FW!TypeOK
         /\ part = "pickup form places" => FP!TypeOK
         /\ part = "pickup form reads" => FR!TypeOK
         /\ part = "pickup form fields" => FF!TypeOK
         /\ part = "orders places" => OA!TypeOK
         /\ part = "orders pages" => OB!TypeOK
         /\ part = "order banner" => OC!TypeOK
         /\ part = "board's tiles" => ZA!TypeOK
         /\ part = "board's messages" => ZM!TypeOK
         /\ part = "board's filters" => ZB!TypeOK
         /\ part = "board's not picked" => ZC!TypeOK
         /\ part = "board's journey" => ZD!TypeOK
         /\ part = "board's return" => ZE!TypeOK
    /\ area = "money" =>
         /\ part = "recharges" => RD!TypeOK
         /\ part = "recharges in turn" => RE!TypeOK
         /\ part = "wallet balance" => RB!TypeOK
         /\ part = "wallet payments" => WA!TypeOK
         /\ part = "wallet reviews" => WB!TypeOK
         /\ part = "remittances for two" => RA!TypeOK
         /\ part = "remittances ticked" => RT!TypeOK
         /\ part = "remittances listed" => RL!TypeOK
         /\ part = "remittances paged" => RP!TypeOK
    /\ area = "orders" =>
         /\ part = "order cancelling" => OX!TypeOK
         /\ part = "order by staff" => OY!TypeOK
         /\ part = "order updating" => OU!TypeOK
         /\ part = "order measuring" => OM!TypeOK
         /\ part = "order measured again" => ON!TypeOK
         /\ part = "order edit" => EA!TypeOK
         /\ part = "cargo edit" => EB!TypeOK
         /\ part = "edit prices" => EC!TypeOK
         /\ part = "tracked by the buyer" => KT!TypeOK
         /\ part = "tracked by staff" => KS!TypeOK
         /\ part = "tracked by the seller" => KR!TypeOK
    /\ area = "holds" =>
         /\ part = "exceptions ticked" => XB!TypeOK
         /\ part = "exceptions answered" => XD!TypeOK
         /\ part = "exceptions by staff" => XS!TypeOK
         /\ part = "exceptions held again" => XH!TypeOK
         /\ part = "exceptions tabs" => XT!TypeOK
         /\ part = "exceptions booked" => XA!TypeOK
         /\ part = "cargo holds" => CA!TypeOK
         /\ part = "cargo appointments" => CB!TypeOK
    /\ area = "cargo" =>
         /\ part = "weight claims" => VA!TypeOK
         /\ part = "weight decisions" => VB!TypeOK
         /\ part = "weight searches" => VC!TypeOK
         /\ part = "appointments booked" => MA!TypeOK
         /\ part = "appointments pages" => MB!TypeOK
         /\ part = "appointments reads" => MC!TypeOK
    /\ area = "office" =>
         /\ part = "team owner" => TO!TypeOK
         /\ part = "team admin" => TA!TypeOK
         /\ part = "team rows" => TR!TypeOK
         /\ part = "team filters" => TF!TypeOK
         /\ part = "team reads" => TL!TypeOK
         /\ part = "settings restored" => GB!TypeOK
         /\ part = "settings saved" => GD!TypeOK
         /\ part = "settings refused" => GC!TypeOK
    /\ area = "help" =>
         /\ part = "tickets raised" => UA!TypeOK
         /\ part = "tickets answered" => UB!TypeOK
         /\ part = "tickets handled" => UC!TypeOK
         /\ part = "tickets listed" => UD!TypeOK
         /\ part = "addresses added" => AA!TypeOK
         /\ part = "addresses shared" => AE!TypeOK
         /\ part = "addresses edited" => AF!TypeOK
         /\ part = "addresses removed" => AR!TypeOK
    /\ area = "prices" =>
         /\ part = "lanes edited" => NA!TypeOK
         /\ part = "lanes switched" => NB!TypeOK
         /\ part = "lanes imported" => NC!TypeOK
         /\ part = "prime markup" => YA!TypeOK
         /\ part = "surface markup" => YB!TypeOK
         /\ part = "fees and services" => YC!TypeOK
         /\ part = "carrier desk" => HA!TypeOK
         /\ part = "carrier desk closed" => HD!TypeOK
         /\ part = "carrier card" => HB!TypeOK
         /\ part = "carrier card of operations" => HO!TypeOK
         /\ part = "carrier card repriced" => HN!TypeOK

\* What a screen sends is what the person at it saw and chose: the price on the card, the parcels
\* on the list, the row in the dialog, although lists reload, answers come late and other people
\* act meanwhile.
ActedAsShown ==
    /\ area = "booking" =>
         /\ part = "booking pages" => BF!ActedAsShown
         /\ part = "booking retries" => BR!ActedAsShown
         /\ part = "booking overlaps" => BO!ActedAsShown
         /\ part = "booking forgotten" => BG!ActedAsShown
         /\ part = "booking quotes" => BQ!ActedAsShown
         /\ part = "shipment form" => SF!ActedAsShown
         /\ part = "shipment quotes" => SQ!ActedAsShown
         /\ part = "rates for cargo" => KA!ActedAsShown
         /\ part = "rates for parcels" => KB!ActedAsShown
         /\ part = "rates and risk" => KC!ActedAsShown
         /\ part = "rates chosen" => KD!ActedAsShown
    /\ area = "delivery" =>
         /\ part = "doorstep deliveries" => DD!ActedAsShown
         /\ part = "doorstep reloads" => DL!ActedAsShown
         /\ part = "doorstep refusals" => DN!ActedAsShown
         /\ part = "doorstep third attempts" => DT!ActedAsShown
         /\ part = "doorstep checks" => DQ!ActedAsShown
         /\ part = "doorstep returns" => DR!ActedAsShown
         /\ part = "pickup cards" => PC!ActedAsShown
         /\ part = "pickup card dialogs" => PO!ActedAsShown
         /\ part = "pickup list checklist" => PL!ActedAsShown
         /\ part = "pickup list ticks" => PT!ActedAsShown
         /\ part = "pickup list dialogs" => PN!ActedAsShown
    /\ area = "pickups" =>
         /\ part = "pickup form lists" => FL!ActedAsShown
         /\ part = "pickup form rows" => FW!ActedAsShown
         /\ part = "pickup form places" => FP!ActedAsShown
         /\ part = "pickup form reads" => FR!ActedAsShown
         /\ part = "pickup form fields" => FF!ActedAsShown
         /\ part = "orders places" => OA!ActedAsShown
         /\ part = "orders pages" => OB!ActedAsShown
         /\ part = "order banner" => OC!ActedAsShown
         /\ part = "board's tiles" => ZA!ActedAsShown
         /\ part = "board's messages" => ZM!ActedAsShown
         /\ part = "board's filters" => ZB!ActedAsShown
         /\ part = "board's not picked" => ZC!ActedAsShown
         /\ part = "board's journey" => ZD!ActedAsShown
         /\ part = "board's return" => ZE!ActedAsShown
    /\ area = "money" =>
         /\ part = "recharges" => RD!ActedAsShown
         /\ part = "recharges in turn" => RE!ActedAsShown
         /\ part = "wallet balance" => RB!ActedAsShown
         /\ part = "remittances for two" => RA!ActedAsShown
         /\ part = "remittances ticked" => RT!ActedAsShown
         /\ part = "remittances listed" => RL!ActedAsShown
         /\ part = "remittances paged" => RP!ActedAsShown
    /\ area = "orders" =>
         /\ part = "order cancelling" => OX!ActedAsShown
         /\ part = "order by staff" => OY!ActedAsShown
         /\ part = "order updating" => OU!ActedAsShown
         /\ part = "order measuring" => OM!ActedAsShown
         /\ part = "order measured again" => ON!ActedAsShown
         /\ part = "order edit" => EA!ActedAsShown
         /\ part = "cargo edit" => EB!ActedAsShown
         /\ part = "edit prices" => EC!ActedAsShown
         /\ part = "tracked by the buyer" => KT!ActedAsShown
         /\ part = "tracked by staff" => KS!ActedAsShown
         /\ part = "tracked by the seller" => KR!ActedAsShown
    /\ area = "holds" =>
         /\ part = "exceptions ticked" => XB!ActedAsShown
         /\ part = "exceptions answered" => XD!ActedAsShown
         /\ part = "exceptions by staff" => XS!ActedAsShown
         /\ part = "exceptions held again" => XH!ActedAsShown
         /\ part = "exceptions tabs" => XT!ActedAsShown
         /\ part = "exceptions booked" => XA!ActedAsShown
         /\ part = "cargo holds" => CA!ActedAsShown
         /\ part = "cargo appointments" => CB!ActedAsShown
    /\ area = "cargo" =>
         /\ part = "weight claims" => VA!ActedAsShown
         /\ part = "weight decisions" => VB!ActedAsShown
         /\ part = "weight searches" => VC!ActedAsShown
         /\ part = "appointments booked" => MA!ActedAsShown
         /\ part = "appointments pages" => MB!ActedAsShown
         /\ part = "appointments reads" => MC!ActedAsShown
    /\ area = "office" =>
         /\ part = "team owner" => TO!ActedAsShown
         /\ part = "team admin" => TA!ActedAsShown
         /\ part = "team rows" => TR!ActedAsShown
         /\ part = "team filters" => TF!ActedAsShown
         /\ part = "team reads" => TL!ActedAsShown
         /\ part = "settings restored" => GB!ActedAsShown
         /\ part = "settings saved" => GD!ActedAsShown
         /\ part = "settings refused" => GC!ActedAsShown
    /\ area = "help" =>
         /\ part = "tickets raised" => UA!ActedAsShown
         /\ part = "tickets answered" => UB!ActedAsShown
         /\ part = "tickets handled" => UC!ActedAsShown
         /\ part = "tickets listed" => UD!ActedAsShown
         /\ part = "addresses added" => AA!ActedAsShown
         /\ part = "addresses shared" => AE!ActedAsShown
         /\ part = "addresses edited" => AF!ActedAsShown
         /\ part = "addresses removed" => AR!ActedAsShown
    /\ area = "prices" =>
         /\ part = "lanes edited" => NA!ActedAsShown
         /\ part = "lanes switched" => NB!ActedAsShown
         /\ part = "lanes imported" => NC!ActedAsShown
         /\ part = "prime markup" => YA!ActedAsShown
         /\ part = "surface markup" => YB!ActedAsShown
         /\ part = "fees and services" => YC!ActedAsShown
         /\ part = "carrier desk" => HA!ActedAsShown
         /\ part = "carrier desk closed" => HD!ActedAsShown
         /\ part = "carrier card" => HB!ActedAsShown
         /\ part = "carrier card of operations" => HO!ActedAsShown
         /\ part = "carrier card repriced" => HN!ActedAsShown

\* What a person means to do once happens once, although buttons are pressed again, answers are
\* lost and requests are repeated.
OncePerIntent ==
    /\ area = "booking" =>
         /\ part = "booking pages" => BF!OncePerIntent
         /\ part = "booking retries" => BR!OncePerIntent
         /\ part = "booking overlaps" => BO!OncePerIntent
         /\ part = "booking forgotten" => BG!OncePerIntent
         /\ part = "booking quotes" => BQ!OncePerIntent
         /\ part = "rates for cargo" => KA!OncePerIntent
         /\ part = "rates for parcels" => KB!OncePerIntent
         /\ part = "rates and risk" => KC!OncePerIntent
         /\ part = "rates chosen" => KD!OncePerIntent
    /\ area = "delivery" =>
         /\ part = "doorstep deliveries" => DD!OncePerIntent
         /\ part = "doorstep reloads" => DL!OncePerIntent
         /\ part = "doorstep refusals" => DN!OncePerIntent
         /\ part = "doorstep third attempts" => DT!OncePerIntent
         /\ part = "doorstep checks" => DQ!OncePerIntent
         /\ part = "doorstep returns" => DR!OncePerIntent
         /\ part = "pickup cards" => PC!OncePerIntent
         /\ part = "pickup card dialogs" => PO!OncePerIntent
         /\ part = "pickup list checklist" => PL!OncePerIntent
         /\ part = "pickup list ticks" => PT!OncePerIntent
         /\ part = "pickup list dialogs" => PN!OncePerIntent
    /\ area = "pickups" =>
         /\ part = "orders places" => OA!OncePerIntent
         /\ part = "orders pages" => OB!OncePerIntent
         /\ part = "order banner" => OC!OncePerIntent
    /\ area = "money" =>
         /\ part = "recharges" => RD!OncePerIntent
         /\ part = "recharges in turn" => RE!OncePerIntent
         /\ part = "wallet balance" => RB!OncePerIntent
         /\ part = "wallet payments" => WA!OncePerIntent
         /\ part = "wallet reviews" => WB!OncePerIntent
         /\ part = "remittances for two" => RA!OncePerIntent
         /\ part = "remittances ticked" => RT!OncePerIntent
         /\ part = "remittances listed" => RL!OncePerIntent
         /\ part = "remittances paged" => RP!OncePerIntent
    /\ area = "orders" =>
         /\ part = "order cancelling" => OX!OncePerIntent
         /\ part = "order by staff" => OY!OncePerIntent
         /\ part = "order updating" => OU!OncePerIntent
         /\ part = "order measuring" => OM!OncePerIntent
         /\ part = "order measured again" => ON!OncePerIntent
         /\ part = "order edit" => EA!OncePerIntent
         /\ part = "cargo edit" => EB!OncePerIntent
         /\ part = "edit prices" => EC!OncePerIntent
    /\ area = "holds" =>
         /\ part = "exceptions ticked" => XB!OncePerIntent
         /\ part = "exceptions answered" => XD!OncePerIntent
         /\ part = "exceptions by staff" => XS!OncePerIntent
         /\ part = "exceptions held again" => XH!OncePerIntent
         /\ part = "exceptions tabs" => XT!OncePerIntent
         /\ part = "exceptions booked" => XA!OncePerIntent
         /\ part = "cargo holds" => CA!OncePerIntent
         /\ part = "cargo appointments" => CB!OncePerIntent
    /\ area = "cargo" =>
         /\ part = "weight claims" => VA!OncePerIntent
         /\ part = "weight decisions" => VB!OncePerIntent
         /\ part = "weight searches" => VC!OncePerIntent
         /\ part = "appointments booked" => MA!OncePerIntent
         /\ part = "appointments pages" => MB!OncePerIntent
         /\ part = "appointments reads" => MC!OncePerIntent
    /\ area = "office" =>
         /\ part = "team owner" => TO!OncePerIntent
         /\ part = "team admin" => TA!OncePerIntent
         /\ part = "team rows" => TR!OncePerIntent
         /\ part = "team filters" => TF!OncePerIntent
         /\ part = "team reads" => TL!OncePerIntent
         /\ part = "settings restored" => GB!OncePerIntent
         /\ part = "settings saved" => GD!OncePerIntent
         /\ part = "settings refused" => GC!OncePerIntent
    /\ area = "help" =>
         /\ part = "tickets raised" => UA!OncePerIntent
         /\ part = "tickets answered" => UB!OncePerIntent
         /\ part = "tickets handled" => UC!OncePerIntent
         /\ part = "tickets listed" => UD!OncePerIntent
         /\ part = "addresses added" => AA!OncePerIntent
         /\ part = "addresses shared" => AE!OncePerIntent
         /\ part = "addresses edited" => AF!OncePerIntent
         /\ part = "addresses removed" => AR!OncePerIntent
    /\ area = "prices" =>
         /\ part = "lanes edited" => NA!OncePerIntent
         /\ part = "lanes switched" => NB!OncePerIntent
         /\ part = "lanes imported" => NC!OncePerIntent
         /\ part = "carrier desk" => HA!OncePerIntent
         /\ part = "carrier desk closed" => HD!OncePerIntent
         /\ part = "carrier card" => HB!OncePerIntent
         /\ part = "carrier card of operations" => HO!OncePerIntent
         /\ part = "carrier card repriced" => HN!OncePerIntent

KeepsTyping ==
    /\ area = "booking" =>
         /\ part = "booking pages" => BF!KeepsTyping
         /\ part = "booking retries" => BR!KeepsTyping
         /\ part = "booking overlaps" => BO!KeepsTyping
         /\ part = "booking forgotten" => BG!KeepsTyping
         /\ part = "booking quotes" => BQ!KeepsTyping
         /\ part = "rates for cargo" => KA!KeepsTyping
         /\ part = "rates for parcels" => KB!KeepsTyping
         /\ part = "rates and risk" => KC!KeepsTyping
         /\ part = "rates chosen" => KD!KeepsTyping
    /\ area = "delivery" =>
         /\ part = "doorstep deliveries" => DD!KeepsTyping
         /\ part = "doorstep reloads" => DL!KeepsTyping
         /\ part = "doorstep refusals" => DN!KeepsTyping
         /\ part = "doorstep third attempts" => DT!KeepsTyping
         /\ part = "doorstep checks" => DQ!KeepsTyping
         /\ part = "doorstep returns" => DR!KeepsTyping
         /\ part = "pickup cards" => PC!KeepsTyping
         /\ part = "pickup card dialogs" => PO!KeepsTyping
         /\ part = "pickup list checklist" => PL!KeepsTyping
         /\ part = "pickup list ticks" => PT!KeepsTyping
         /\ part = "pickup list dialogs" => PN!KeepsTyping
    /\ area = "pickups" =>
         /\ part = "pickup form lists" => FL!KeepsTyping
         /\ part = "pickup form rows" => FW!KeepsTyping
         /\ part = "pickup form places" => FP!KeepsTyping
         /\ part = "pickup form reads" => FR!KeepsTyping
         /\ part = "pickup form fields" => FF!KeepsTyping
         /\ part = "orders places" => OA!KeepsTyping
         /\ part = "orders pages" => OB!KeepsTyping
         /\ part = "order banner" => OC!KeepsTyping
    /\ area = "money" =>
         /\ part = "recharges" => RD!KeepsTyping
         /\ part = "recharges in turn" => RE!KeepsTyping
         /\ part = "wallet balance" => RB!KeepsTyping
         /\ part = "wallet payments" => WA!KeepsTyping
         /\ part = "wallet reviews" => WB!KeepsTyping
         /\ part = "remittances for two" => RA!KeepsTyping
         /\ part = "remittances ticked" => RT!KeepsTyping
         /\ part = "remittances listed" => RL!KeepsTyping
         /\ part = "remittances paged" => RP!KeepsTyping
    /\ area = "orders" =>
         /\ part = "order cancelling" => OX!KeepsTyping
         /\ part = "order by staff" => OY!KeepsTyping
         /\ part = "order updating" => OU!KeepsTyping
         /\ part = "order measuring" => OM!KeepsTyping
         /\ part = "order measured again" => ON!KeepsTyping
         /\ part = "order edit" => EA!KeepsTyping
         /\ part = "cargo edit" => EB!KeepsTyping
         /\ part = "edit prices" => EC!KeepsTyping
    /\ area = "holds" =>
         /\ part = "exceptions ticked" => XB!KeepsTyping
         /\ part = "exceptions answered" => XD!KeepsTyping
         /\ part = "exceptions by staff" => XS!KeepsTyping
         /\ part = "exceptions held again" => XH!KeepsTyping
         /\ part = "exceptions tabs" => XT!KeepsTyping
         /\ part = "exceptions booked" => XA!KeepsTyping
         /\ part = "cargo holds" => CA!KeepsTyping
         /\ part = "cargo appointments" => CB!KeepsTyping
    /\ area = "cargo" =>
         /\ part = "weight claims" => VA!KeepsTyping
         /\ part = "weight decisions" => VB!KeepsTyping
         /\ part = "weight searches" => VC!KeepsTyping
         /\ part = "appointments booked" => MA!KeepsTyping
         /\ part = "appointments pages" => MB!KeepsTyping
         /\ part = "appointments reads" => MC!KeepsTyping
    /\ area = "office" =>
         /\ part = "team owner" => TO!KeepsTyping
         /\ part = "team admin" => TA!KeepsTyping
         /\ part = "team rows" => TR!KeepsTyping
         /\ part = "team filters" => TF!KeepsTyping
         /\ part = "team reads" => TL!KeepsTyping
         /\ part = "settings restored" => GB!KeepsTyping
         /\ part = "settings saved" => GD!KeepsTyping
         /\ part = "settings refused" => GC!KeepsTyping
    /\ area = "help" =>
         /\ part = "tickets raised" => UA!KeepsTyping
         /\ part = "tickets answered" => UB!KeepsTyping
         /\ part = "tickets handled" => UC!KeepsTyping
         /\ part = "tickets listed" => UD!KeepsTyping
         /\ part = "addresses added" => AA!KeepsTyping
         /\ part = "addresses shared" => AE!KeepsTyping
         /\ part = "addresses edited" => AF!KeepsTyping
         /\ part = "addresses removed" => AR!KeepsTyping
    /\ area = "prices" =>
         /\ part = "lanes edited" => NA!KeepsTyping
         /\ part = "lanes switched" => NB!KeepsTyping
         /\ part = "lanes imported" => NC!KeepsTyping
         /\ part = "prime markup" => YA!KeepsTyping
         /\ part = "surface markup" => YB!KeepsTyping
         /\ part = "fees and services" => YC!KeepsTyping
         /\ part = "carrier desk" => HA!KeepsTyping
         /\ part = "carrier desk closed" => HD!KeepsTyping
         /\ part = "carrier card" => HB!KeepsTyping
         /\ part = "carrier card of operations" => HO!KeepsTyping
         /\ part = "carrier card repriced" => HN!KeepsTyping

\* What a person has typed or chosen and not yet sent is theirs to change: no answer, refresh or
\* other request takes it away.
TypingKept == [][KeepsTyping]_vars
=============================================================================
