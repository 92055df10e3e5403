--------------------------- MODULE DeskProofs ---------------------------
(* What the screens of MCDesks promise, for every value of their constants:    *)
(* each is proved by itself, as a part of TypeOK, OncePerIntent, ActedAsShown  *)
(* and TypingKept of MCDesks. A section declares the constants and variables   *)
(* its screen adds and names its operators with a prefix; ...Constants is what *)
(* a proof asks of the constants, and every instance of MCDesks satisfies it.  *)

EXTENDS Naturals, Sequences, FiniteSetTheorems, TLAPS

-----------------------------------------------------------------------------
(* Delivery exceptions: an answer counts only for a parcel that waits for its  *)
(* merchant, and takes it off; the list is of the tab unless its read is not   *)
(* in or has failed.                                                           *)

CONSTANTS None, Parcels, ReasonOf, TabOf, PageOf, IsB2B, MayWrite, CanAcceptCharges, Ways, Loads, MaxTurns,
    MaxHolds
VARIABLES hold, holds, answers, debits, tab, narrowed, page, turns, listData, cached, loads, newest, loading,
    error, selectedIds, dialog, typed, submitting, bulk, told
XD == INSTANCE ExceptionDesk

XdActions == {"BOOK_APPOINTMENT"} \cup XD!BulkEndpointActions \cup
    UNION {XD!AllowedActions(ReasonOf[p], "FORWARD", IsB2B, XD!HeldFrom(p)) : p \in Parcels}
XdRows == [actionable : BOOLEAN, allowed : SUBSET XdActions]
XdLists == UNION {[s -> XdRows] : s \in SUBSET Parcels}
XdReads == [of : XD!Keys \cup {None}, rows : XdLists \cup {None}, cold : BOOLEAN]
XdDialogs == [ids : SUBSET Parcels, action : XdActions, many : BOOLEAN, offered : BOOLEAN]
XdAnswers == [ids : SUBSET Parcels, action : XdActions, many : BOOLEAN, offered : BOOLEAN, todo : SUBSET Parcels,
              said : Nat, done : Nat, lost : BOOLEAN]
XdBulks == [ids : SUBSET Parcels, action : XdActions, offered : BOOLEAN, at : {"going", "answered", "failed"},
            done : SUBSET Parcels]
XdToasts == [said : Nat, done : Nat]

\* There is a first page, and None is nothing else.
XdConstants ==
    /\ IsFiniteSet(Parcels) /\ 1 \in XD!Pages
    /\ None \notin XD!Keys /\ None \notin XdLists /\ None \notin XdDialogs /\ None \notin XdAnswers /\ None \notin XdBulks

XdServerTypes ==
    /\ hold \in [Parcels -> {"merchant", "ops", "none"}] /\ holds \in [Parcels -> Nat]
    /\ answers \in [Parcels -> Nat] /\ debits \in [Parcels -> Nat]
XdListTypes ==
    /\ tab \in XD!Tabs /\ narrowed \in BOOLEAN /\ page \in XD!Pages
    /\ listData \in XdLists /\ cached \in [XD!Keys -> XdLists \cup {None}] /\ loads \in [Loads -> XdReads]
    /\ newest \in Loads /\ loading \in BOOLEAN /\ error \in BOOLEAN
XdPersonTypes ==
    /\ selectedIds \subseteq Parcels /\ typed \in BOOLEAN /\ dialog \in XdDialogs \cup {None}
    /\ submitting \in XdAnswers \cup {None} /\ bulk \in XdBulks \cup {None} /\ told \in XdToasts

\* A parcel that waits for its merchant has a hold that is not answered.
XdHolds == \A p \in Parcels :
    /\ answers[p] + (IF hold[p] = "merchant" THEN 1 ELSE 0) <= holds[p]
    /\ debits[p] <= answers[p]

\* Rows are of the tab they were read for; the newest read is of the place the person is at; and what
\* is shown is of the tab unless that read has nothing to show before it answers.
XdOfTab(rows, t) == rows # None => \A p \in DOMAIN rows : TabOf[p] = t
XdFits ==
    /\ \A key \in XD!Keys : XdOfTab(cached[key], key[1])
    /\ \A m \in Loads : loads[m].of # None => XdOfTab(loads[m].rows, loads[m].of[1])
    /\ \A m \in Loads : loads[m].of = None => loads[m].rows = None
    /\ loads[newest].of \in {None, XD!Here}
    /\ XdOfTab(listData, tab) \/ error \/ (loading /\ loads[newest].of # None /\ loads[newest].cold)

\* What the person was offered.
XdMay(b) == b.offered /\ MayWrite /\ (b.action \in XD!WalletDebitActions => CanAcceptCharges)
XdOffers ==
    /\ dialog # None => XdMay(dialog)
    /\ submitting # None => XdMay(submitting) /\ submitting.said <= submitting.done
    /\ bulk # None => XdMay(bulk)
    /\ told.said <= told.done

XdInv == XdServerTypes /\ XdListTypes /\ XdPersonTypes /\ XdHolds /\ XdFits /\ XdOffers

\* The instance counts as the library does.
LEMMA XdCounts == \A S : XD!Cardinality(S) = Cardinality(S)
BY DEF XD!Cardinality, Cardinality

LEMMA XdListed ==
    /\ \A l \in XdLists : DOMAIN l \subseteq Parcels /\ \A p \in DOMAIN l : l[p] \in XdRows
    /\ \A s \in SUBSET Parcels : \A f \in [s -> XdRows] : f \in XdLists
BY DEF XdLists

LEMMA XdHere ==
    ASSUME XdConstants, XdListTypes
    PROVE  XD!Here \in XD!Keys /\ XD!Here[1] = tab
BY DEF XdListTypes, XD!Here, XD!Keys

LEMMA XdInit == XdConstants /\ XD!Init => XdInv
<1> SUFFICES ASSUME XdConstants, XD!Init PROVE XdInv
  OBVIOUS
<1>1. XdServerTypes /\ XdHolds
  BY DEF XD!Init, XdServerTypes, XdHolds
<1>2. XdPersonTypes /\ XdOffers
  <2>1. XD!NoToast \in XdToasts /\ XD!NoToast.said <= XD!NoToast.done
    BY DEF XD!NoToast, XdToasts
  <2> QED BY <2>1 DEF XD!Init, XdPersonTypes, XdOffers
<1>3. PICK slot \in Loads :
          newest = slot /\ loads = [m \in Loads |-> IF m = slot THEN [XD!Idle EXCEPT !.of = XD!Here, !.cold = TRUE] ELSE XD!Idle]
  BY DEF XD!Init
<1>4. listData \in XdLists
  BY XdListed DEF XD!Init
<1>5. XD!Here \in XD!Keys /\ tab \in XD!Tabs /\ narrowed \in BOOLEAN /\ page \in XD!Pages
  BY DEF XD!Init, XdConstants, XD!Here, XD!Keys
<1>6. XdListTypes
  BY <1>3, <1>4, <1>5 DEF XD!Init, XdListTypes, XdReads, XD!Idle, XD!NothingCached
<1>7. XdFits
  BY <1>3, <1>5 DEF XD!Init, XdFits, XdOfTab, XD!Idle, XD!NothingCached, XdConstants
<1> QED BY <1>1, <1>2, <1>6, <1>7 DEF XdInv

\* The server.
LEMMA XdAnswered ==
    ASSUME XdServerTypes, XdHolds, NEW counted \in SUBSET Parcels, NEW action,
           \A p \in counted : XD!Accepted(p, action), XD!Answer(counted, action)
    PROVE  XdServerTypes' /\ XdHolds'
<1>1. \A p \in counted : hold[p] = "merchant"
  BY DEF XD!Accepted, XD!CheckedHold, XD!StillHeld
<1>2. XdServerTypes'
  BY DEF XD!Answer, XdServerTypes
<1>3. \A p \in Parcels : p \in counted => hold'[p] # "merchant" /\ answers'[p] = answers[p] + 1 /\ debits'[p] <= debits[p] + 1
  BY DEF XD!Answer, XdServerTypes
<1>4. \A p \in Parcels : p \notin counted => hold'[p] = hold[p] /\ answers'[p] = answers[p] /\ debits'[p] = debits[p]
  BY DEF XD!Answer
<1>5. holds' = holds
  BY DEF XD!Answer
<1> QED BY <1>1, <1>2, <1>3, <1>4, <1>5 DEF XdHolds, XdServerTypes

LEMMA XdOthers ==
    ASSUME XdInv, XD!OthersAct
    PROVE  XdInv'
<1>1. UNCHANGED <<answers, debits, tab, narrowed, page, listData, cached, loads, newest, loading, error, selectedIds,
                  dialog, typed, submitting, bulk, told>>
  BY DEF XD!OthersAct, XD!placeVars, XD!listVars, XD!dialogVars
<1>2. XdServerTypes' /\ XdHolds'
  <2>1. PICK p \in Parcels :
            \/ hold[p] # "none" /\ hold' = [hold EXCEPT ![p] = "none"] /\ UNCHANGED holds
            \/ /\ hold[p] = "none" /\ holds[p] < MaxHolds
               /\ hold' = [hold EXCEPT ![p] = "merchant"] /\ holds' = [holds EXCEPT ![p] = @ + 1]
    BY DEF XD!OthersAct
  <2>2. CASE hold[p] # "none" /\ hold' = [hold EXCEPT ![p] = "none"] /\ UNCHANGED holds
    BY <1>1, <2>2 DEF XdInv, XdServerTypes, XdHolds
  <2>3. CASE hold[p] = "none" /\ hold' = [hold EXCEPT ![p] = "merchant"] /\ holds' = [holds EXCEPT ![p] = @ + 1]
    BY <1>1, <2>3 DEF XdInv, XdServerTypes, XdHolds
  <2> QED BY <2>1, <2>2, <2>3
<1> QED BY <1>1, <1>2 DEF XdInv, XdListTypes, XdPersonTypes, XdFits, XdOfTab, XD!Here, XdOffers, XdMay

\* Going somewhere: the list there is shown at once or waited for.
LEMMA XdFetched ==
    ASSUME XdConstants, XdListTypes, XdFits, NEW slot \in Loads,
           tab' \in XD!Tabs, narrowed' \in BOOLEAN, page' \in XD!Pages,
           cached' = cached \/ cached' = XD!NothingCached,
           XD!Fetch(<<tab', narrowed', page'>>, slot)
    PROVE  XdListTypes' /\ XdFits'
<1> DEFINE key == <<tab', narrowed', page'>>
<1>1. key \in XD!Keys /\ key[1] = tab' /\ key = XD!Here'
  BY DEF XD!Keys, XD!Here
<1> HIDE DEF key
<1>2. cached' \in [XD!Keys -> XdLists \cup {None}] /\ \A k \in XD!Keys : XdOfTab(cached'[k], k[1])
  BY DEF XdListTypes, XdFits, XD!NothingCached, XdOfTab
<1>3. /\ loads[slot] = XD!Idle /\ newest' = slot /\ error' = error
      /\ loads' = [loads EXCEPT ![slot] = [of |-> key, rows |-> None, cold |-> cached'[key] = None]]
      /\ IF cached'[key] = None THEN loading' = TRUE /\ UNCHANGED listData
         ELSE listData' = cached'[key] /\ UNCHANGED loading
  BY DEF XD!Fetch, key
<1>4. XdListTypes'
  BY <1>1, <1>2, <1>3 DEF XdListTypes, XdReads
<1>5. loads'[newest'] = [of |-> key, rows |-> None, cold |-> cached'[key] = None] /\ \A m \in Loads \ {slot} : loads'[m] = loads[m]
  BY <1>3 DEF XdListTypes
<1>6. XdOfTab(listData', tab') \/ error' \/ (loading' /\ loads'[newest'].of # None /\ loads'[newest'].cold)
  <2>1. CASE cached'[key] = None
    <3>1. loads'[newest'] = [of |-> key, rows |-> None, cold |-> TRUE] /\ key # None
      BY <1>1, <1>5, <2>1 DEF XdConstants
    <3> QED BY <1>3, <2>1, <3>1
  <2>2. CASE cached'[key] # None
    BY <1>1, <1>2, <1>3, <2>2
  <2> QED BY <2>1, <2>2
<1>7. XdFits'
  BY <1>1, <1>2, <1>3, <1>5, <1>6 DEF XdFits, XdOfTab, XdConstants
<1> QED BY <1>4, <1>7

LEMMA XdBrowsed ==
    ASSUME XdConstants, XdInv, NEW m \in Loads,
           \/ \E c \in XD!Tabs : XD!HandleCategoryChange(c, m)
           \/ \E g \in XD!Pages : XD!TurnPage(g, m)
           \/ XD!Narrow(m) \/ XD!Refresh(m)
    PROVE  XdInv'
<1>1. /\ UNCHANGED <<hold, holds, answers, debits, dialog, typed, submitting, bulk, told, cached>>
      /\ selectedIds' \in {selectedIds, {}}
  BY DEF XD!HandleCategoryChange, XD!TurnPage, XD!Narrow, XD!Refresh, XD!serverVars, XD!dialogVars
<1>2. /\ tab' \in XD!Tabs /\ narrowed' \in BOOLEAN /\ page' \in XD!Pages
      /\ XD!Fetch(<<tab', narrowed', page'>>, m)
  <2>1. CASE \E c \in XD!Tabs : XD!HandleCategoryChange(c, m)
    BY <2>1 DEF XD!HandleCategoryChange, XdInv, XdListTypes, XdConstants
  <2>2. CASE \E g \in XD!Pages : XD!TurnPage(g, m)
    BY <2>2 DEF XD!TurnPage, XdInv, XdListTypes
  <2>3. CASE XD!Narrow(m)
    BY <2>3 DEF XD!Narrow, XdInv, XdListTypes, XdConstants
  <2>4. CASE XD!Refresh(m)
    BY <2>4 DEF XD!Refresh, XD!Here, XdInv, XdListTypes
  <2> QED BY <2>1, <2>2, <2>3, <2>4
<1>3. XdListTypes' /\ XdFits'
  BY <1>1, <1>2, XdFetched DEF XdInv
<1> QED BY <1>1, <1>3 DEF XdInv, XdServerTypes, XdPersonTypes, XdHolds, XdOffers, XdMay

\* A read and its answer.
LEMMA XdRead ==
    ASSUME XdConstants, XdInv, NEW m \in Loads, XD!ReadList(m) \/ XD!ListAnswered(m) \/ XD!ListFails(m)
    PROVE  XdInv'
<1>1. UNCHANGED <<hold, holds, answers, debits, tab, narrowed, page, newest, selectedIds, dialog, typed, submitting, bulk, told>>
  BY DEF XD!ReadList, XD!ListAnswered, XD!ListFails, XD!FieldsOnReload, XD!serverVars, XD!placeVars, XD!dialogVars
<1>2. loads[m] \in XdReads /\ loads[m].of \in XD!Keys \cup {None}
  BY DEF XdInv, XdListTypes, XdReads
<1>3. CASE XD!ReadList(m)
  <2> DEFINE rows == XD!Listed(loads[m].of)
  <2>1. loads[m].of \in XD!Keys /\ loads' = [loads EXCEPT ![m] = [@ EXCEPT !.rows = rows]]
    BY <1>2, <1>3 DEF XD!ReadList, XdInv, XdListTypes
  <2>2. rows \in XdLists /\ \A p \in DOMAIN rows : TabOf[p] = loads[m].of[1]
    <3> DEFINE s == {q \in Parcels : /\ hold[q] # "none" /\ TabOf[q] = loads[m].of[1] /\ PageOf[q] = loads[m].of[3]
                                     /\ loads[m].of[2] => hold[q] = "merchant"}
    <3>1. \A p \in Parcels : XD!Row(p) \in XdRows
      BY DEF XD!Row, XdRows, XdActions
    <3>2. rows = [p \in s |-> XD!Row(p)]
      BY DEF XD!Listed
    <3>3. s \in SUBSET Parcels /\ \A p \in s : TabOf[p] = loads[m].of[1]
      OBVIOUS
    <3> HIDE DEF s, rows
    <3>4. rows \in [s -> XdRows] /\ DOMAIN rows = s
      BY <3>1, <3>2, <3>3
    <3> QED BY <3>3, <3>4, XdListed
  <2> HIDE DEF rows
  <2>3. /\ loads' \in [Loads -> XdReads] /\ loads'[m].rows = rows /\ loads'[m].of = loads[m].of
        /\ loads'[m].cold = loads[m].cold /\ \A n \in Loads \ {m} : loads'[n] = loads[n]
    BY <1>2, <2>1, <2>2 DEF XdInv, XdListTypes, XdReads
  <2>4. UNCHANGED <<listData, cached, loading, error>>
    BY <1>3 DEF XD!ReadList
  <2>5. XdListTypes'
    BY <1>1, <2>3, <2>4 DEF XdInv, XdListTypes
  <2>6. XdFits'
    BY <1>1, <2>1, <2>2, <2>3, <2>4 DEF XdInv, XdListTypes, XdFits, XdOfTab, XD!Here, XdConstants
  <2> QED BY <1>1, <2>5, <2>6 DEF XdInv, XdServerTypes, XdPersonTypes, XdHolds, XdOffers, XdMay
<1>4. CASE XD!ListAnswered(m)
  <2>1. /\ loads[m].rows \in XdLists /\ loads[m].of \in XD!Keys /\ XdOfTab(loads[m].rows, loads[m].of[1])
    BY <1>2, <1>4 DEF XD!ListAnswered, XdInv, XdListTypes, XdFits, XdReads
  <2>2. /\ loads' = [loads EXCEPT ![m] = XD!Idle] /\ cached' = [cached EXCEPT ![loads[m].of] = loads[m].rows]
        /\ IF m = newest THEN listData' = loads[m].rows /\ loading' = FALSE /\ error' = FALSE
           ELSE UNCHANGED <<listData, loading, error>>
    BY <1>4 DEF XD!ListAnswered, XD!Shows, XD!ShowNewest
  <2>3. XD!Idle \in XdReads /\ XD!Idle.of = None /\ XD!Idle.rows = None
    BY DEF XD!Idle, XdReads
  <2>4. /\ loads' \in [Loads -> XdReads] /\ loads'[m] = XD!Idle /\ \A n \in Loads \ {m} : loads'[n] = loads[n]
    BY <2>2, <2>3 DEF XdInv, XdListTypes
  <2>5. /\ cached' \in [XD!Keys -> XdLists \cup {None}] /\ \A k \in XD!Keys : XdOfTab(cached'[k], k[1])
    BY <2>1, <2>2 DEF XdInv, XdListTypes, XdFits
  <2>6. XdListTypes'
    BY <1>1, <2>1, <2>2, <2>4, <2>5 DEF XdInv, XdListTypes
  <2>7. XdOfTab(listData', tab') \/ error' \/ (loading' /\ loads'[newest'].of # None /\ loads'[newest'].cold)
    <3>1. CASE m = newest
      <4>1. loads[m].of = XD!Here
        BY <2>1, <3>1 DEF XdInv, XdFits, XdConstants
      <4>2. loads[m].of[1] = tab
        BY <4>1, XdHere DEF XdInv
      <4> QED BY <1>1, <2>1, <2>2, <3>1, <4>2
    <3>2. CASE m # newest
      BY <1>1, <2>2, <2>4, <3>2 DEF XdInv, XdFits, XdListTypes
    <3> QED BY <3>1, <3>2
  <2>8. XdFits'
    BY <1>1, <2>3, <2>4, <2>5, <2>7 DEF XdInv, XdListTypes, XdFits, XdOfTab, XD!Here
  <2> QED BY <1>1, <2>6, <2>8 DEF XdInv, XdServerTypes, XdPersonTypes, XdHolds, XdOffers, XdMay
<1>5. CASE XD!ListFails(m)
  <2>1. /\ loads' = [loads EXCEPT ![m] = XD!Idle] /\ UNCHANGED <<listData, cached>>
        /\ IF m = newest THEN loading' = FALSE /\ error' = (error \/ loads[m].cold) ELSE UNCHANGED <<loading, error>>
    BY <1>5 DEF XD!ListFails
  <2>2. XD!Idle \in XdReads /\ XD!Idle.of = None /\ XD!Idle.rows = None
    BY DEF XD!Idle, XdReads
  <2>3. /\ loads' \in [Loads -> XdReads] /\ loads'[m] = XD!Idle /\ \A n \in Loads \ {m} : loads'[n] = loads[n]
    BY <2>1, <2>2 DEF XdInv, XdListTypes
  <2>4. XdListTypes'
    BY <1>1, <1>2, <2>1, <2>3 DEF XdInv, XdListTypes, XdReads
  <2>5. XdFits'
    BY <1>1, <2>1, <2>2, <2>3 DEF XdInv, XdListTypes, XdFits, XdOfTab, XD!Here
  <2> QED BY <1>1, <2>4, <2>5 DEF XdInv, XdServerTypes, XdPersonTypes, XdHolds, XdOffers, XdMay
<1> QED BY <1>3, <1>4, <1>5

\* What is offered on a row that is shown.
LEMMA XdVisible ==
    ASSUME XdInv, NEW p \in DOMAIN listData, NEW action, action \in XD!Visible(listData[p])
    PROVE  /\ p \in Parcels /\ action \in XdActions /\ MayWrite
           /\ action \in XD!WalletDebitActions => CanAcceptCharges
<1>1. p \in Parcels /\ listData[p].allowed \subseteq XdActions
  BY XdListed DEF XdInv, XdListTypes, XdRows
<1> QED BY <1>1 DEF XD!Visible

LEMMA XdOpened ==
    ASSUME XdInv, XD!OpenSingleActionDialog \/ XD!OpenBulkAppointment
    PROVE  XdInv'
<1>1. /\ UNCHANGED <<hold, holds, answers, debits, tab, narrowed, page, listData, cached, loads, newest, loading, error,
                     submitting, bulk, told>>
      /\ typed' = FALSE
  BY DEF XD!OpenSingleActionDialog, XD!OpenBulkAppointment, XD!Open, XD!serverVars, XD!placeVars, XD!listVars
<1>2. DOMAIN listData \subseteq Parcels
  BY XdListed DEF XdInv, XdListTypes
<1>3. /\ selectedIds' \subseteq Parcels
      /\ \E ids \in SUBSET Parcels, action \in XdActions, many \in BOOLEAN :
            /\ ids # {} /\ \A p \in ids : p \in DOMAIN listData /\ action \in XD!Visible(listData[p])
            /\ dialog' = [ids |-> ids, action |-> action, many |-> many, offered |-> XD!Offer(ids, action)]
  <2>1. CASE XD!OpenSingleActionDialog
    <3>1. PICK p \in XD!ActionableRows : \E action \in XD!Visible(listData[p]) : XD!Open({p}, action, FALSE)
      BY <2>1 DEF XD!OpenSingleActionDialog
    <3>2. PICK action \in XD!Visible(listData[p]) : XD!Open({p}, action, FALSE)
      BY <3>1
    <3>3. p \in DOMAIN listData /\ p \in Parcels /\ action \in XdActions
      BY <3>1, <3>2, XdVisible DEF XD!ActionableRows
    <3>4. dialog' = [ids |-> {p}, action |-> action, many |-> FALSE, offered |-> XD!Offer({p}, action)] /\ selectedIds' = selectedIds
      BY <2>1, <3>2 DEF XD!Open, XD!OpenSingleActionDialog
    <3> QED BY <3>2, <3>3, <3>4 DEF XdInv, XdPersonTypes
  <2>2. CASE XD!OpenBulkAppointment
    <3>1. "BOOK_APPOINTMENT" \in XdActions
      BY DEF XdActions
    <3>2. PICK ids : /\ ids \in {XD!BulkIds("BOOK_APPOINTMENT"), XD!Eligible(XD!ActionableRows, "BOOK_APPOINTMENT")} /\ ids # {}
                     /\ XD!Open(ids, "BOOK_APPOINTMENT", TRUE) /\ selectedIds' \in {selectedIds, ids}
      BY <2>2 DEF XD!OpenBulkAppointment
    <3>3. \A p \in ids : p \in DOMAIN listData /\ "BOOK_APPOINTMENT" \in XD!Visible(listData[p])
      BY <3>2 DEF XD!BulkIds, XD!EligibleTicks, XD!Eligible
    <3>4. dialog' = [ids |-> ids, action |-> "BOOK_APPOINTMENT", many |-> TRUE, offered |-> XD!Offer(ids, "BOOK_APPOINTMENT")]
      BY <3>2 DEF XD!Open
    <3> QED BY <1>2, <3>1, <3>2, <3>3, <3>4 DEF XdInv, XdPersonTypes
  <2> QED BY <2>1, <2>2
<1>4. dialog' \in XdDialogs /\ XdMay(dialog')
  <2>1. PICK ids \in SUBSET Parcels, action \in XdActions, many \in BOOLEAN :
            /\ ids # {} /\ \A p \in ids : p \in DOMAIN listData /\ action \in XD!Visible(listData[p])
            /\ dialog' = [ids |-> ids, action |-> action, many |-> many, offered |-> XD!Offer(ids, action)]
    BY <1>3
  <2>2. XD!Offer(ids, action) = TRUE
    BY <2>1 DEF XD!Offer
  <2>3. MayWrite /\ (action \in XD!WalletDebitActions => CanAcceptCharges)
    BY <2>1, XdVisible
  <2> QED BY <2>1, <2>2, <2>3 DEF XdDialogs, XdMay
<1> QED BY <1>1, <1>3, <1>4 DEF XdInv, XdServerTypes, XdListTypes, XdPersonTypes, XdHolds, XdFits, XdOfTab, XD!Here, XdOffers, XdMay

LEMMA XdPerson ==
    ASSUME XdConstants, XdInv,
           \/ XD!Tick \/ XD!TypeInDialog \/ XD!CloseDialog \/ XD!HandleSubmit \/ XD!SubmitFailed
           \/ \E action \in XD!BulkEndpointActions : XD!HandleBulkActionClick(action)
    PROVE  XdInv'
<1>1. UNCHANGED <<hold, holds, answers, debits, tab, narrowed, page, listData, cached, loads, newest, loading, error, told>>
  BY DEF XD!Tick, XD!TypeInDialog, XD!CloseDialog, XD!HandleSubmit, XD!SubmitFailed, XD!HandleBulkActionClick,
     XD!serverVars, XD!placeVars, XD!listVars
<1>2. DOMAIN listData \subseteq Parcels
  BY XdListed DEF XdInv, XdListTypes
<1>3. XdPersonTypes' /\ XdOffers'
  <2>1. CASE XD!Tick
    BY <1>1, <1>2, <2>1 DEF XD!Tick, XD!ActionableRows, XD!dialogVars, XdInv, XdPersonTypes, XdOffers, XdMay
  <2>2. CASE XD!TypeInDialog
    BY <1>1, <2>2 DEF XD!TypeInDialog, XdInv, XdPersonTypes, XdOffers, XdMay
  <2>3. CASE XD!CloseDialog
    BY <1>1, <2>3 DEF XD!CloseDialog, XdInv, XdPersonTypes, XdOffers, XdMay
  <2>4. CASE XD!HandleSubmit
    <3>1. dialog \in XdDialogs /\ XdMay(dialog)
      BY <2>4 DEF XD!HandleSubmit, XdInv, XdPersonTypes, XdOffers
    <3>2. submitting' = [ids |-> dialog.ids, action |-> dialog.action, many |-> dialog.many, offered |-> dialog.offered,
                         todo |-> dialog.ids, said |-> 0, done |-> 0, lost |-> FALSE]
      BY <2>4 DEF XD!HandleSubmit
    <3>3. submitting' \in XdAnswers /\ XdMay(submitting') /\ submitting'.said <= submitting'.done
      BY <3>1, <3>2 DEF XdDialogs, XdAnswers, XdMay
    <3>4. UNCHANGED <<selectedIds, dialog, typed, bulk>>
      BY <2>4 DEF XD!HandleSubmit
    <3> QED BY <1>1, <3>3, <3>4 DEF XdInv, XdPersonTypes, XdOffers, XdMay
  <2>5. CASE XD!SubmitFailed
    BY <1>1, <2>5 DEF XD!SubmitFailed, XdInv, XdPersonTypes, XdOffers, XdMay
  <2>6. CASE \E action \in XD!BulkEndpointActions : XD!HandleBulkActionClick(action)
    <3>1. PICK action \in XD!BulkEndpointActions : XD!HandleBulkActionClick(action)
      BY <2>6
    <3>2. PICK p \in DOMAIN listData : action \in XD!Visible(listData[p])
      BY <3>1 DEF XD!HandleBulkActionClick, XD!Eligible
    <3>3. action \in XdActions /\ MayWrite /\ (action \in XD!WalletDebitActions => CanAcceptCharges)
      BY <3>2, XdVisible
    <3>4. XD!BulkIds(action) \subseteq Parcels /\ XD!Offer(XD!BulkIds(action), action) = TRUE
      BY <1>2 DEF XD!BulkIds, XD!EligibleTicks, XD!Eligible, XD!Offer
    <3>5. bulk' = [ids |-> XD!BulkIds(action), action |-> action, offered |-> XD!Offer(XD!BulkIds(action), action),
                   at |-> "going", done |-> {}]
      BY <3>1 DEF XD!HandleBulkActionClick
    <3>6. bulk' \in XdBulks /\ XdMay(bulk')
      BY <3>3, <3>4, <3>5 DEF XdBulks, XdMay
    <3>7. UNCHANGED <<selectedIds, dialog, typed, submitting>>
      BY <3>1 DEF XD!HandleBulkActionClick, XD!dialogVars
    <3> QED BY <1>1, <3>6, <3>7 DEF XdInv, XdPersonTypes, XdOffers, XdMay
  <2> QED BY <2>1, <2>2, <2>3, <2>4, <2>5, <2>6
<1> QED BY <1>1, <1>3 DEF XdInv, XdServerTypes, XdListTypes, XdHolds, XdFits, XdOfTab, XD!Here

\* The answers on the server.
LEMMA XdSubmitted ==
    ASSUME XdConstants, XdInv, NEW a \in BOOLEAN, NEW b \in BOOLEAN, NEW p \in Parcels, XD!SubmitNext(p, a, b)
    PROVE  XdInv'
<1> DEFINE counted == IF a /\ XD!Accepted(p, submitting.action) THEN {p} ELSE {}
           n == XD!Cardinality(counted)
<1>1. /\ XD!Answer(counted, submitting.action) /\ submitting # None
      /\ submitting' = [submitting EXCEPT !.todo = @ \ {p}, !.done = @ + n, !.said = IF b THEN @ + n ELSE @,
                                          !.lost = @ \/ ~b \/ n = 0]
      /\ cached' \in {cached, XD!NothingCached}
      /\ UNCHANGED <<tab, narrowed, page, listData, loads, newest, loading, error, selectedIds, dialog, typed, bulk, told>>
  BY DEF XD!SubmitNext, XD!placeVars
<1>2. XdServerTypes' /\ XdHolds'
  BY <1>1, XdAnswered DEF XdInv
<1>3. n \in Nat
  BY XdCounts, FS_EmptySet, FS_Singleton
<1> HIDE DEF n, counted
<1>4. submitting \in XdAnswers /\ XdMay(submitting) /\ submitting.said <= submitting.done
  BY <1>1 DEF XdInv, XdPersonTypes, XdOffers
<1>5. /\ submitting' \in XdAnswers /\ submitting'.said <= submitting'.done
      /\ submitting'.action = submitting.action /\ submitting'.offered = submitting.offered
  <2>1. submitting.said \in Nat /\ submitting.done \in Nat /\ submitting.todo \in SUBSET Parcels
    BY <1>4 DEF XdAnswers
  <2> DEFINE said == IF b THEN submitting.said + n ELSE submitting.said
             lost == submitting.lost \/ ~b \/ n = 0
             did == submitting.done + n
             todo == submitting.todo \ {p}
  <2>2. said \in Nat /\ did \in Nat /\ said <= did /\ todo \in SUBSET Parcels /\ lost \in BOOLEAN
    BY <1>3, <1>4, <2>1
  <2>3. submitting' = [submitting EXCEPT !.todo = todo, !.done = did, !.said = said, !.lost = lost]
    BY <1>1
  <2> HIDE DEF said, lost, did, todo
  <2> QED BY <1>4, <2>2, <2>3 DEF XdAnswers
<1>6. XdPersonTypes' /\ XdOffers'
  BY <1>1, <1>4, <1>5 DEF XdInv, XdPersonTypes, XdOffers, XdMay
<1>7. cached' \in [XD!Keys -> XdLists \cup {None}] /\ \A k \in XD!Keys : XdOfTab(cached'[k], k[1])
  BY <1>1 DEF XdInv, XdListTypes, XdFits, XdOfTab, XD!NothingCached
<1>8. XdListTypes' /\ XdFits'
  BY <1>1, <1>7 DEF XdInv, XdListTypes, XdFits, XdOfTab, XD!Here
<1> QED BY <1>2, <1>6, <1>8 DEF XdInv

LEMMA XdServed ==
    ASSUME XdConstants, XdInv, NEW a \in BOOLEAN, NEW b \in BOOLEAN, XD!ServeBulk(a, b)
    PROVE  XdInv'
<1> DEFINE counted == IF a THEN {p \in bulk.ids : XD!Accepted(p, bulk.action)} ELSE {}
<1>1. PICK x \in {"answered", "failed"} :
          /\ XD!Answer(counted, bulk.action) /\ bulk # None /\ bulk' = [bulk EXCEPT !.at = x, !.done = counted]
          /\ UNCHANGED <<tab, narrowed, page, listData, cached, loads, newest, loading, error, selectedIds, dialog, typed,
                         submitting, told>>
  BY DEF XD!ServeBulk, XD!placeVars, XD!listVars, XD!dialogVars
<1>2. bulk \in XdBulks /\ XdMay(bulk) /\ bulk.ids \subseteq Parcels
  BY <1>1 DEF XdInv, XdPersonTypes, XdOffers, XdBulks
<1>3. counted \in SUBSET Parcels /\ \A p \in counted : XD!Accepted(p, bulk.action)
  BY <1>2
<1>4. XdServerTypes' /\ XdHolds'
  BY <1>1, <1>3, XdAnswered DEF XdInv
<1> HIDE DEF counted
<1>5. bulk' \in XdBulks /\ bulk'.action = bulk.action /\ bulk'.offered = bulk.offered
  BY <1>1, <1>2, <1>3 DEF XdBulks
<1>6. XdPersonTypes' /\ XdOffers'
  BY <1>1, <1>2, <1>5 DEF XdInv, XdPersonTypes, XdOffers, XdMay
<1>7. XdListTypes' /\ XdFits'
  BY <1>1 DEF XdInv, XdListTypes, XdFits, XdOfTab, XD!Here
<1> QED BY <1>4, <1>6, <1>7 DEF XdInv

\* The answers on the screen.
LEMMA XdTold ==
    ASSUME XdConstants, XdInv, (\E m \in Loads : XD!Submitted(m) \/ XD!BulkAnswered(m)) \/ XD!BulkFailed
    PROVE  XdInv'
<1>1. UNCHANGED <<hold, holds, answers, debits, tab, narrowed, page, typed>>
  BY DEF XD!Submitted, XD!BulkAnswered, XD!BulkFailed, XD!serverVars, XD!placeVars, XD!dialogVars
<1>2. ASSUME NEW m \in Loads, XD!Submitted(m)
      PROVE  XdInv'
  <2>1. /\ submitting # None /\ submitting' = None /\ told' = [said |-> submitting.said, done |-> submitting.done]
        /\ dialog' = None /\ selectedIds' = {} /\ cached' = cached /\ bulk' = bulk /\ XD!Fetch(XD!Here, m)
    BY <1>2 DEF XD!Submitted
  <2>2. told' \in XdToasts /\ told'.said <= told'.done
    BY <2>1 DEF XdInv, XdPersonTypes, XdOffers, XdAnswers, XdToasts
  <2>3. XdListTypes' /\ XdFits'
    BY <1>1, <2>1, XdFetched DEF XdInv, XdListTypes, XD!Here
  <2> QED BY <1>1, <2>1, <2>2, <2>3 DEF XdInv, XdServerTypes, XdPersonTypes, XdHolds, XdOffers, XdMay
<1>3. ASSUME NEW m \in Loads, XD!BulkAnswered(m)
      PROVE  XdInv'
  <2>1. /\ bulk # None /\ bulk' = None /\ told' = [said |-> XD!Cardinality(bulk.done), done |-> XD!Cardinality(bulk.done)]
        /\ selectedIds' = {} /\ cached' = XD!NothingCached /\ XD!Fetch(XD!Here, m) /\ UNCHANGED <<dialog, submitting>>
    BY <1>3 DEF XD!BulkAnswered, XD!OkCount, XD!SaysSucceeded, XD!dialogVars
  <2>2. XD!Cardinality(bulk.done) \in Nat
    BY <2>1, XdCounts, FS_Subset, FS_CardinalityType DEF XdConstants, XdInv, XdPersonTypes, XdBulks
  <2>3. told' \in XdToasts /\ told'.said <= told'.done
    BY <2>1, <2>2 DEF XdToasts
  <2>4. XdListTypes' /\ XdFits'
    BY <1>1, <2>1, XdFetched DEF XdInv, XdListTypes, XD!Here
  <2> QED BY <1>1, <2>1, <2>3, <2>4 DEF XdInv, XdServerTypes, XdPersonTypes, XdHolds, XdOffers, XdMay
<1>4. CASE XD!BulkFailed
  <2>1. /\ bulk' = None /\ cached' \in {cached, XD!NothingCached}
        /\ UNCHANGED <<listData, loads, newest, loading, error, selectedIds, dialog, submitting, told>>
    BY <1>4 DEF XD!BulkFailed, XD!dialogVars
  <2>2. cached' \in [XD!Keys -> XdLists \cup {None}] /\ \A k \in XD!Keys : XdOfTab(cached'[k], k[1])
    BY <2>1 DEF XdInv, XdListTypes, XdFits, XdOfTab, XD!NothingCached
  <2>3. XdListTypes' /\ XdFits'
    BY <1>1, <2>1, <2>2 DEF XdInv, XdListTypes, XdFits, XdOfTab, XD!Here
  <2> QED BY <1>1, <2>1, <2>3 DEF XdInv, XdServerTypes, XdPersonTypes, XdHolds, XdOffers, XdMay
<1> QED BY <1>2, <1>3, <1>4

LEMMA XdNext == XdConstants /\ XdInv /\ [XD!Next]_XD!vars => XdInv'
<1> SUFFICES ASSUME XdConstants, XdInv, [XD!Next]_XD!vars PROVE XdInv'
  OBVIOUS
<1>1. CASE XD!Next
  BY <1>1, XdOthers, XdBrowsed, XdRead, XdOpened, XdPerson, XdSubmitted, XdServed, XdTold DEF XD!Next
<1>2. CASE UNCHANGED XD!vars
  BY <1>2 DEF XD!vars, XdInv, XdServerTypes, XdListTypes, XdPersonTypes, XdHolds, XdFits, XdOfTab, XD!Here, XdOffers, XdMay
<1> QED BY <1>1, <1>2

\* With a dialog open nobody browses; what remains reads the list, or is an answer.
LEMMA XdTyping ==
    ASSUME XD!Next
    PROVE  XD!KeepsTyping
<1>1. CASE \E m \in Loads : XD!ReadList(m) \/ XD!ListAnswered(m) \/ XD!ListFails(m)
  BY <1>1 DEF XD!ReadList, XD!ListAnswered, XD!ListFails, XD!FieldsOnReload, XD!dialogVars, XD!KeepsTyping
<1>2. CASE \E m \in Loads : \/ XD!Narrow(m) \/ XD!Refresh(m) \/ \E c \in XD!Tabs : XD!HandleCategoryChange(c, m)
                            \/ \E g \in XD!Pages : XD!TurnPage(g, m)
  BY <1>2 DEF XD!Narrow, XD!Refresh, XD!HandleCategoryChange, XD!TurnPage, XD!Browsing, XD!KeepsTyping
<1>3. CASE \E m \in Loads : XD!Submitted(m) \/ XD!BulkAnswered(m)
  BY <1>3 DEF XD!Submitted, XD!BulkAnswered, XD!KeepsTyping
<1>4. CASE ~ \E m \in Loads : \/ XD!ReadList(m) \/ XD!ListAnswered(m) \/ XD!ListFails(m) \/ XD!Narrow(m) \/ XD!Refresh(m)
                              \/ XD!Submitted(m) \/ XD!BulkAnswered(m)
                              \/ \E c \in XD!Tabs : XD!HandleCategoryChange(c, m)
                              \/ \E g \in XD!Pages : XD!TurnPage(g, m)
  <2>1. UNCHANGED loads
    BY <1>4 DEF XD!Next, XD!OthersAct, XD!Tick, XD!OpenSingleActionDialog, XD!OpenBulkAppointment, XD!Open,
       XD!TypeInDialog, XD!CloseDialog, XD!HandleSubmit, XD!SubmitFailed, XD!BulkFailed, XD!HandleBulkActionClick,
       XD!ServeBulk, XD!SubmitNext, XD!listVars
  <2> QED BY <2>1 DEF XD!KeepsTyping
<1> QED BY <1>1, <1>2, <1>3, <1>4

\* Types; a hold is answered and charged once; and the list, the answers and what is told of them are
\* what they say they are.
THEOREM ExceptionsAnsweredOnce ==
    ASSUME XdConstants
    PROVE  XD!Spec => [](XD!TypeOK /\ XD!OncePerIntent /\ XD!ActedAsShown)
<1>1. XD!Init => XdInv
  BY XdInit
<1>2. XdInv /\ [XD!Next]_XD!vars => XdInv'
  BY XdNext
<1>3. XdInv => XD!TypeOK /\ XD!OncePerIntent /\ XD!ActedAsShown
  <2> SUFFICES ASSUME XdInv PROVE XD!TypeOK /\ XD!OncePerIntent /\ XD!ActedAsShown
    OBVIOUS
  <2>1. XD!TypeOK
    BY XdListed DEF XdInv, XdServerTypes, XdListTypes, XdPersonTypes, XD!TypeOK
  <2>2. XD!OncePerIntent
    BY DEF XdInv, XdServerTypes, XdHolds, XD!OncePerIntent
  <2>3. XD!ActedAsShown
    BY DEF XdInv, XdListTypes, XdFits, XdOfTab, XdOffers, XdMay, XD!ActedAsShown, XdConstants
  <2> QED BY <2>1, <2>2, <2>3
<1> QED BY <1>1, <1>2, <1>3, PTL DEF XD!Spec

\* A list that is read again leaves the open dialog, its fields and the ticks alone.
THEOREM ExceptionTypingKept == XD!Spec => [][XD!KeepsTyping]_XD!vars
<1>1. [XD!Next]_XD!vars => [XD!KeepsTyping]_XD!vars
  BY XdTyping
<1> QED BY <1>1, PTL DEF XD!Spec

-----------------------------------------------------------------------------
(* The page of one shipment: a parcel that was picked up never counts as not   *)
(* picked up again, so a return the dialog was confirmed for is never told as  *)
(* a refund, and the money moves once.                                         *)

CONSTANTS Starts, Moves, MayReturn, Dialogs, Bodies, MaxMoves, MaxOpens
VARIABLES status, held, refunds, returns, recorded, claims, moves, shown, cancelOpen, preview, cancelling,
    toldCancel, updateOpen, form, updating, measureOpen, opens, body, measuring
SP == INSTANCE ShipmentPage

SpGone == SP!OnTheWay \cup SP!RtoStatuses \cup {"COMPLETED", "LOST"}
SpForms == [first : SP!Statuses, status : SP!Statuses, reason : SP!Reasons, charge : BOOLEAN, otp : BOOLEAN]
SpSent == [first : {None}, status : SP!Statuses, otp : BOOLEAN, reason : SP!Reasons, charge : BOOLEAN]
SpPreviews == {"idle", "loading", "answered", "failed"}
SpCancels == [return : BOOLEAN, price : SpPreviews, at : {"going", "failed", "RTO_INITIATED", "CANCELLED"}]
SpUpdates == [sent : SpSent, at : {"going", "answered", "failed"}]
SpLoads == [live : BOOLEAN, read : SP!Statuses \cup {None}]

SpConstants ==
    /\ Starts \subseteq SP!PrePickup \cup SP!OnTheWay
    /\ None \notin SP!Statuses /\ None \notin SP!ChargeReasons /\ None \notin {"refund", "return"} /\ None \notin SpForms
    /\ MaxOpens \in Nat

SpPicked == status \in SpGone \/ (status = "EXCEPTION" /\ held \in SpGone)

SpServer ==
    /\ status \in SP!Statuses /\ held \in SP!Statuses \cup {SP!NoStatus}
    /\ status = "EXCEPTION" => held \in SP!PrePickup \cup SP!OnTheWay \cup SP!RtoLeg
    /\ refunds \in {0, 1} /\ returns \in {0, 1}
    /\ refunds = 1 => status = "CANCELLED"
    /\ returns = 1 => SpPicked
SpRecorded == \A k \in SP!Keys : recorded[k] = <<>> \/ \E b \in Bodies : recorded[k] = <<b>>
SpPage ==
    /\ shown \in SP!Statuses \cup {None} /\ cached \in SP!Statuses \cup {None} /\ loads \in [Loads -> SpLoads]
    /\ shown \in SP!OnTheWay => SpPicked
    /\ cached \in SP!OnTheWay => SpPicked
    /\ \A m \in Loads : loads[m].read \in SP!OnTheWay => SpPicked
SpCancel ==
    /\ cancelOpen \in BOOLEAN /\ preview \in SpPreviews
    /\ cancelOpen /\ shown \in SP!OnTheWay /\ MayReturn => preview # "idle"
    /\ toldCancel \in {None, "refund", "return"}
    /\ toldCancel = "refund" => refunds = 1
    /\ toldCancel = "return" => returns = 1 /\ refunds = 0
    /\ cancelling # None =>
           /\ cancelling \in SpCancels
           /\ cancelling.return => MayReturn /\ cancelling.price \in {"answered", "failed"} /\ SpPicked
           /\ cancelling.at = "RTO_INITIATED" => returns = 1 /\ refunds = 0
           /\ cancelling.at = "CANCELLED" => refunds = 1
SpUpdate ==
    /\ form \in SpForms \cup {None} /\ ((form = None) <=> (shown = None)) /\ (updateOpen => shown # None)
    /\ updating # None =>
           /\ shown # None /\ updating \in SpUpdates
           /\ updating.sent.otp <=> updating.sent.status = "COMPLETED"
           /\ (updating.sent.reason # None) <=> (updating.sent.status = "EXCEPTION")
           /\ updating.sent.charge <=> (updating.sent.reason \in SP!ChargeReasons)
SpMeasured ==
    /\ opens \in Nat /\ opens <= MaxOpens /\ body \in Bodies \cup {None} /\ (measureOpen => opens > 0)
    /\ DOMAIN measuring = SP!Keys /\ measuring = [k \in SP!Keys |-> measuring[k]]
    /\ DOMAIN recorded = SP!Keys /\ recorded = [k \in SP!Keys |-> recorded[k]]
    /\ \A k \in SP!Keys : measuring[k] # None =>
           measuring[k] \in [body : Bodies, at : {"going", "answered", "failed"}]

SpInv == SpServer /\ SpRecorded /\ SpPage /\ SpCancel /\ SpUpdate /\ SpMeasured

\* A parcel on the way is with the carrier, and so is a held one that was.
LEMMA SpWay ==
    /\ SpServer => (SP!AfterPickup <=> (SpPicked /\ status # "LOST"))
    /\ SP!OnTheWay \subseteq SpGone /\ SpGone \subseteq SP!Statuses
<1>1. SpServer /\ status = "EXCEPTION" => (SP!IsPickedUp(held) <=> held \in SpGone)
  BY DEF SpServer, SP!IsPickedUp, SpGone, SP!PrePickup, SP!OnTheWay, SP!RtoLeg, SP!RtoStatuses, SP!NoStatus
<1>2. SpServer => (SP!AfterPickup <=> (SpPicked /\ status # "LOST"))
  BY <1>1 DEF SP!AfterPickup, SpPicked, SpGone, SP!OnTheWay, SP!RtoLeg, SP!RtoStatuses
<1>3. SP!OnTheWay \subseteq SpGone /\ SpGone \subseteq SP!Statuses
  BY DEF SpGone, SP!Statuses, SP!Terminal
<1> QED BY <1>2, <1>3

\* Where the table, the hold and a cancel lead: what was picked up stays so, and is never refunded.
LEMMA SpLeads ==
    ASSUME SpConstants, SpServer, NEW s,
           \/ SP!Accepts(s) /\ (s = "CANCELLED" => ~SP!AfterPickup)
           \/ s = SP!CancelledAs /\ s # None
    PROVE  /\ s \in SP!Statuses /\ status # "CANCELLED"
           /\ SpPicked => s \in SpGone \cup {"EXCEPTION"}
           /\ s = "EXCEPTION" => status \in {"ASSIGNED"} \cup SP!OnTheWay \cup SP!RtoLeg
           /\ s = "EXCEPTION" /\ SpPicked => status \in SpGone
<1>1. CASE s = SP!CancelledAs /\ s # None
  <2>1. status \notin SP!Terminal /\ (s = "RTO_INITIATED" \/ (s = "CANCELLED" /\ ~SP!AfterPickup /\ status \in SP!PrePickup))
    BY <1>1 DEF SP!CancelledAs
  <2> QED BY <2>1, SpWay DEF SP!Terminal, SP!PrePickup, SP!Statuses, SP!RtoStatuses, SP!RtoLeg, SpGone, SpPicked, SP!OnTheWay
<1>2. CASE SP!Accepts(s) /\ (s = "CANCELLED" => ~SP!AfterPickup)
  <2>1. s # status /\ status \notin SP!Terminal /\ s \in SP!Allowed[status]
    BY <1>2 DEF SP!Accepts, SP!ValidTransition
  <2>2. s \in SP!Statuses /\ status # "CANCELLED"
    BY <2>1 DEF SpServer, SP!Allowed, SP!Statuses, SP!Terminal, SP!PrePickup, SP!OnTheWay, SP!RtoStatuses, SP!RtoLeg
  <2>3. s = "EXCEPTION" => status \in {"ASSIGNED"} \cup SP!OnTheWay \cup SP!RtoLeg
    BY <2>1 DEF SpServer, SP!Allowed, SP!OnTheWay, SP!RtoLeg
  <2>4. CASE status = "EXCEPTION"
    <3>1. s \in {"RTO_INITIATED", "CANCELLED"} \/ s = SP!ResumeStatus("DAMAGED", "FORWARD", TRUE, held)
      BY <1>2, <2>4 DEF SP!Accepts
    <3>2. held \in SpGone => SP!ResumeStatus("DAMAGED", "FORWARD", TRUE, held) \in SpGone
      BY DEF SP!ResumeStatus, SpGone, SP!OnTheWay, SP!RtoStatuses, SP!RtoLeg, SP!PrePickup, SP!NoStatus
    <3>3. SpPicked => s # "CANCELLED" /\ held \in SpGone
      BY <1>2, <2>4, SpWay DEF SpPicked, SpGone, SP!OnTheWay, SP!RtoStatuses, SP!RtoLeg
    <3>4. s # "EXCEPTION"
      BY <2>1, <2>4
    <3> QED BY <2>2, <3>1, <3>2, <3>3, <3>4 DEF SpGone, SP!RtoStatuses, SP!RtoLeg
  <2>5. CASE status # "EXCEPTION"
    <3>1. SpPicked => status \in SpGone /\ s \in SpGone \cup {"EXCEPTION"}
      BY <2>1, <2>5 DEF SpServer, SpPicked, SP!Allowed, SpGone, SP!OnTheWay, SP!RtoStatuses, SP!RtoLeg, SP!Terminal
    <3> QED BY <2>2, <2>3, <3>1
  <2> QED BY <2>4, <2>5
<1> QED BY <1>1, <1>2

\* So the money of a parcel moves once, to the shipper or for the return.
LEMMA SpBecomes ==
    ASSUME SpConstants, SpServer, NEW s, SP!Becomes(s),
           \/ SP!Accepts(s) /\ (s = "CANCELLED" => ~SP!AfterPickup)
           \/ s = SP!CancelledAs /\ s # None
    PROVE  /\ SpServer' /\ (SpPicked => SpPicked')
           /\ refunds = 1 => refunds' = 1
           /\ returns = 1 => returns' = 1
           /\ returns = 1 /\ refunds = 0 => refunds' = 0
           /\ s = "RTO_INITIATED" => returns' = 1 /\ refunds' = 0
           /\ s = "CANCELLED" => refunds' = 1
<1>1. /\ s \in SP!Statuses /\ status # "CANCELLED" /\ refunds = 0
      /\ SpPicked => s \in SpGone \cup {"EXCEPTION"}
      /\ s = "EXCEPTION" => status \in {"ASSIGNED"} \cup SP!OnTheWay \cup SP!RtoLeg
      /\ s = "EXCEPTION" /\ SpPicked => status \in SpGone
  BY SpLeads DEF SpServer
<1>2. /\ status' = s /\ held' = IF s = "EXCEPTION" THEN status ELSE SP!NoStatus
      /\ returns' = IF s = "RTO_INITIATED" /\ returns = 0 THEN returns + 1 ELSE returns
      /\ refunds' = IF s = "CANCELLED" THEN refunds + 1 ELSE refunds
  BY DEF SP!Becomes, SP!RtoDue
<1>3. SpPicked => SpPicked'
  BY <1>1, <1>2 DEF SpPicked
<1>4. /\ "RTO_INITIATED" \in SpGone /\ "CANCELLED" \notin SpGone
  BY DEF SpGone, SP!OnTheWay, SP!RtoStatuses, SP!RtoLeg
<1>5. returns' = 1 => SpPicked'
  BY <1>2, <1>3, <1>4 DEF SpServer, SpPicked
<1>6. held' \in SP!Statuses \cup {SP!NoStatus} /\ (status' = "EXCEPTION" => held' \in SP!PrePickup \cup SP!OnTheWay \cup SP!RtoLeg)
  BY <1>1, <1>2 DEF SpServer, SP!PrePickup
<1>7. s = "CANCELLED" => ~SpPicked
  BY <1>1, <1>4
<1> QED BY <1>1, <1>2, <1>3, <1>5, <1>6, <1>7 DEF SpServer

LEMMA SpInit == SpConstants /\ SP!Init => SpInv
<1> SUFFICES ASSUME SpConstants, SP!Init PROVE SpInv
  OBVIOUS
<1>1. status \in SP!PrePickup \cup SP!OnTheWay /\ held = SP!NoStatus /\ refunds = 0 /\ returns = 0
      /\ status \in SP!Statuses /\ status # "EXCEPTION"
  BY DEF SP!Init, SpConstants, SP!Statuses, SP!PrePickup, SP!OnTheWay
<1>2. SpServer
  BY <1>1 DEF SpServer
<1>3. (shown = None \/ shown = status) /\ cached = shown
  BY DEF SP!Init
<1>4. loads \in [Loads -> SpLoads] /\ \A m \in Loads : loads[m].read = None
  BY DEF SP!Init, SP!Idle, SpLoads
<1>5. SpPage
  BY <1>1, <1>3, <1>4, SpWay DEF SpPage, SpPicked, SpConstants, SP!Statuses
<1>6. SpCancel
  BY DEF SP!Init, SpCancel, SpPreviews, SpConstants
<1>7. SpUpdate
  <2>1. status \in SP!Statuses => SP!FormOf(status) \in SpForms
    BY DEF SP!FormOf, SpForms, SP!Reasons
  <2> QED BY <1>1, <1>3, <2>1 DEF SP!Init, SpUpdate, SpConstants
<1>8. SpRecorded /\ SpMeasured
  BY DEF SP!Init, SpRecorded, SpMeasured, SpConstants
<1> QED BY <1>2, <1>5, <1>6, <1>7, <1>8 DEF SpInv

\* What follows the server when it moves.
LEMMA SpFollows ==
    ASSUME SpInv, SpPicked => SpPicked',
           refunds = 1 => refunds' = 1, returns = 1 => returns' = 1, returns = 1 /\ refunds = 0 => refunds' = 0
    PROVE  /\ UNCHANGED SP!pageVars => SpPage'
           /\ UNCHANGED <<SP!cancelVars, shown>> => SpCancel'
BY DEF SpInv, SpPage, SpCancel, SP!pageVars, SP!cancelVars

\* The order is moved by others, by a cancel, by an update.
LEMMA SpMoved ==
    ASSUME SpConstants, SpInv,
           SP!OthersMove \/ \E a, b \in BOOLEAN : SP!ServeCancel(a, b) \/ SP!ServeUpdate(a, b)
    PROVE  SpInv'
<1>1. UNCHANGED <<recorded, SP!pageVars, SP!measureVars, cancelOpen, preview, toldCancel, updateOpen, form>>
  BY DEF SP!OthersMove, SP!ServeCancel, SP!ServeUpdate, SP!pageVars, SP!measureVars, SP!cancelVars, SP!updateVars
<1> DEFINE Going(s) == \/ SP!Accepts(s) /\ (s = "CANCELLED" => ~SP!AfterPickup)
                       \/ s = SP!CancelledAs /\ s # None
<1>2. \/ UNCHANGED <<status, held, refunds, returns>>
      \/ \E s : SP!Becomes(s) /\ Going(s)
  <2>1. CASE SP!OthersMove
    BY <2>1 DEF SP!OthersMove
  <2>2. ASSUME NEW a \in BOOLEAN, NEW b \in BOOLEAN, SP!ServeCancel(a, b)
        PROVE  UNCHANGED <<status, held, refunds, returns>> \/ \E s : SP!Becomes(s) /\ Going(s)
    BY <2>2 DEF SP!ServeCancel
  <2>3. ASSUME NEW a \in BOOLEAN, NEW b \in BOOLEAN, SP!ServeUpdate(a, b)
        PROVE  UNCHANGED <<status, held, refunds, returns>> \/ \E s : SP!Becomes(s) /\ Going(s)
    <3> DEFINE s == IF updating.sent.status = "CANCELLED" /\ SP!AfterPickup THEN "RTO_INITIATED" ELSE updating.sent.status
    <3>1. UNCHANGED <<status, held, refunds, returns>> \/ (SP!Becomes(s) /\ SP!Accepts(s))
      BY <2>3 DEF SP!ServeUpdate
    <3>2. s = "CANCELLED" => ~SP!AfterPickup
      OBVIOUS
    <3> QED BY <3>1, <3>2
  <2> QED BY <2>1, <2>2, <2>3
<1>3. /\ SpServer' /\ (SpPicked => SpPicked')
      /\ (refunds = 1 => refunds' = 1) /\ (returns = 1 => returns' = 1)
      /\ (returns = 1 /\ refunds = 0 => refunds' = 0)
  <2>1. CASE UNCHANGED <<status, held, refunds, returns>>
    BY <2>1 DEF SpInv, SpServer, SpPicked
  <2>2. ASSUME NEW s, SP!Becomes(s), Going(s)
        PROVE  /\ SpServer' /\ (SpPicked => SpPicked')
               /\ (refunds = 1 => refunds' = 1) /\ (returns = 1 => returns' = 1)
               /\ (returns = 1 /\ refunds = 0 => refunds' = 0)
    BY <2>2, SpBecomes DEF SpInv
  <2> QED BY <1>2, <2>1, <2>2
<1>4. SpPage'
  BY <1>1, <1>3, SpFollows
<1>5. SpCancel'
  <2>1. CASE cancelling' = cancelling
    BY <1>1, <1>3, <2>1, SpFollows DEF SP!cancelVars, SP!pageVars
  <2>2. ASSUME NEW a \in BOOLEAN, NEW b \in BOOLEAN, SP!ServeCancel(a, b), cancelling' # cancelling PROVE SpCancel'
    <3>1. PICK x : /\ cancelling # None /\ cancelling' = [cancelling EXCEPT !.at = x]
                   /\ \/ x = "failed"
                      \/ x = SP!CancelledAs /\ x # None /\ SP!Becomes(x)
      BY <2>2 DEF SP!ServeCancel
    <3>2. /\ x \in {"failed", "RTO_INITIATED", "CANCELLED"}
          /\ x = "RTO_INITIATED" => returns' = 1 /\ refunds' = 0
          /\ x = "CANCELLED" => refunds' = 1
      <4>1. CASE x = "failed"
        BY <4>1
      <4>2. CASE x = SP!CancelledAs /\ x # None /\ SP!Becomes(x)
        <5>1. x \in {"RTO_INITIATED", "CANCELLED"}
          BY <4>2 DEF SP!CancelledAs
        <5> QED BY <4>2, <5>1, SpBecomes DEF SpInv
      <4> QED BY <3>1, <4>1, <4>2
    <3>3. /\ cancelling' \in SpCancels /\ cancelling'.at = x
          /\ cancelling'.return = cancelling.return /\ cancelling'.price = cancelling.price
      BY <3>1, <3>2 DEF SpInv, SpCancel, SpCancels
    <3> QED BY <1>1, <1>3, <3>1, <3>2, <3>3 DEF SpInv, SpCancel, SP!pageVars
  <2>3. ASSUME NEW a \in BOOLEAN, NEW b \in BOOLEAN, SP!ServeUpdate(a, b) PROVE cancelling' = cancelling
    BY <2>3 DEF SP!ServeUpdate, SP!cancelVars
  <2>4. SP!OthersMove => cancelling' = cancelling
    BY DEF SP!OthersMove, SP!cancelVars
  <2> QED BY <2>1, <2>2, <2>3, <2>4
<1>6. SpUpdate'
  <2>1. CASE updating' = updating
    BY <1>1, <2>1 DEF SpInv, SpUpdate, SP!pageVars
  <2>2. ASSUME NEW x \in {"answered", "failed"}, updating # None, updating' = [updating EXCEPT !.at = x] PROVE SpUpdate'
    <3>1. updating' \in SpUpdates /\ updating'.sent = updating.sent
      BY <2>2 DEF SpInv, SpUpdate, SpUpdates
    <3> QED BY <1>1, <2>2, <3>1 DEF SpInv, SpUpdate, SP!pageVars
  <2> QED BY <2>1, <2>2 DEF SP!OthersMove, SP!ServeCancel, SP!ServeUpdate, SP!updateVars
<1> QED BY <1>1, <1>3, <1>4, <1>5, <1>6 DEF SpInv, SpRecorded, SpMeasured, SP!measureVars

\* The page shows a status: a return that is asked to be priced waits for its price.
LEMMA SpShow ==
    ASSUME SpConstants, SpInv, NEW s \in SP!Statuses, NEW open \in BOOLEAN, SP!Show(s, open), updating' = updating, updateOpen' = updateOpen
    PROVE  /\ SpUpdate' /\ shown' = s /\ cancelOpen' = open /\ preview' \in SpPreviews
           /\ cancelOpen' /\ shown' \in SP!OnTheWay /\ MayReturn => preview' # "idle"
<1>1. shown' = s /\ cancelOpen' = open /\ preview' = SP!PreviewOf(open, s) /\ form' = IF form = None THEN SP!FormOf(s) ELSE form
  BY DEF SP!Show, SP!FormKept
<1>2. SP!FormOf(s) \in SpForms
  BY DEF SP!FormOf, SpForms, SP!Reasons
<1>3. s # None /\ form' \in SpForms /\ form' # None
  BY <1>1, <1>2 DEF SpConstants, SpInv, SpUpdate
<1>4. preview' \in SpPreviews /\ (open /\ s \in SP!OnTheWay /\ MayReturn => preview' # "idle")
  BY <1>1 DEF SP!PreviewOf, SP!IsPostPickupCancel, SpInv, SpCancel, SpPreviews
<1>5. SpUpdate'
  BY <1>1, <1>3 DEF SpInv, SpUpdate
<1> QED BY <1>1, <1>4, <1>5

\* Reads of the page.
LEMMA SpReads ==
    ASSUME SpConstants, SpInv, NEW m \in Loads, SP!ReadDetails(m) \/ SP!DetailsAnswered(m) \/ SP!DetailsFail(m)
    PROVE  SpInv'
<1>1. UNCHANGED <<SP!serverVars, SP!measureVars, cancelling, toldCancel, updateOpen, updating>>
  BY DEF SP!ReadDetails, SP!DetailsAnswered, SP!DetailsFail, SP!cancelVars, SP!updateVars
<1>2. SpServer' /\ SpRecorded' /\ SpMeasured' /\ (SpPicked' <=> SpPicked)
  BY <1>1 DEF SpInv, SpServer, SpRecorded, SpMeasured, SpPicked, SP!serverVars, SP!measureVars
<1>3. SP!Idle \in SpLoads /\ SP!Idle.read = None
  BY DEF SP!Idle, SpLoads
<1>4. CASE SP!ReadDetails(m)
  <2>1. loads' = [loads EXCEPT ![m].read = status] /\ UNCHANGED <<shown, cached, cancelOpen, preview, form>>
    BY <1>4 DEF SP!ReadDetails, SP!cancelVars, SP!updateVars
  <2>2. loads' \in [Loads -> SpLoads] /\ \A n \in Loads : loads'[n].read = IF n = m THEN status ELSE loads[n].read
    BY <2>1 DEF SpInv, SpServer, SpPage, SpLoads
  <2>3. status \in SP!OnTheWay => SpPicked
    BY SpWay DEF SpPicked
  <2>4. SpPage'
    BY <1>2, <2>1, <2>2, <2>3 DEF SpInv, SpPage
  <2> QED BY <1>1, <1>2, <2>1, <2>4 DEF SpInv, SpCancel, SpUpdate, SP!serverVars
<1>5. CASE SP!DetailsAnswered(m)
  <2>1. loads[m].read \in SP!Statuses /\ SP!Show(loads[m].read, cancelOpen) /\ cached' = loads[m].read
    BY <1>5 DEF SP!DetailsAnswered, SpInv, SpPage, SpLoads
  <2>2. loads' \in [Loads -> SpLoads] /\ \A n \in Loads : loads'[n].read = IF n = m THEN None ELSE loads[n].read
    BY <1>3, <1>5 DEF SP!DetailsAnswered, SpInv, SpPage
  <2>3. cancelOpen \in BOOLEAN
    BY DEF SpInv, SpCancel
  <2>4. /\ SpUpdate' /\ shown' = loads[m].read /\ cancelOpen' = cancelOpen /\ preview' \in SpPreviews
        /\ cancelOpen' /\ shown' \in SP!OnTheWay /\ MayReturn => preview' # "idle"
    BY <1>1, <2>1, <2>3, SpShow
  <2>5. SpPage'
    BY <1>2, <2>1, <2>2, <2>4, SpWay DEF SpInv, SpPage, SpConstants
  <2> QED BY <1>1, <1>2, <2>4, <2>5 DEF SpInv, SpCancel, SP!serverVars
<1>6. CASE SP!DetailsFail(m)
  <2>1. UNCHANGED <<shown, cached, cancelOpen, preview, form>>
    BY <1>6 DEF SP!DetailsFail, SP!cancelVars, SP!updateVars
  <2>2. loads' \in [Loads -> SpLoads] /\ \A n \in Loads : loads'[n].read = IF n = m THEN None ELSE loads[n].read
    BY <1>3, <1>6 DEF SP!DetailsFail, SpInv, SpPage
  <2>3. SpPage'
    BY <1>2, <2>1, <2>2, SpWay DEF SpInv, SpPage, SpConstants
  <2> QED BY <1>1, <1>2, <2>1, <2>3 DEF SpInv, SpCancel, SpUpdate, SP!serverVars
<1> QED BY <1>4, <1>5, <1>6

\* The cancel dialog: what it is confirmed for, and what is told of it.
LEMMA SpCancelled ==
    ASSUME SpConstants, SpInv,
           \/ SP!ToggleCancel \/ SP!PreviewAnswered \/ SP!HandleCancelOrder \/ SP!CancelFailed
           \/ \E m \in Loads : SP!CancelAnswered(m)
    PROVE  SpInv'
<1>1. UNCHANGED <<SP!serverVars, SP!measureVars, updateOpen, updating>>
  BY DEF SP!ToggleCancel, SP!PreviewAnswered, SP!HandleCancelOrder, SP!CancelFailed, SP!CancelAnswered, SP!updateVars
<1>2. SpServer' /\ SpRecorded' /\ SpMeasured' /\ (SpPicked' <=> SpPicked) /\ UNCHANGED <<refunds, returns>>
  BY <1>1 DEF SpInv, SpServer, SpRecorded, SpMeasured, SpPicked, SP!serverVars, SP!measureVars
<1>3. CASE SP!ToggleCancel
  <2>1. SP!Show(shown, ~cancelOpen) /\ UNCHANGED <<cached, loads, cancelling, toldCancel>> /\ SP!OffersCancel
    BY <1>3 DEF SP!ToggleCancel
  <2>2. shown \in SP!Statuses /\ (~cancelOpen) \in BOOLEAN
    BY <2>1 DEF SP!OffersCancel, SP!Statuses
  <2>3. /\ SpUpdate' /\ shown' = shown /\ cancelOpen' \in BOOLEAN /\ preview' \in SpPreviews
        /\ cancelOpen' /\ shown' \in SP!OnTheWay /\ MayReturn => preview' # "idle"
    BY <1>1, <2>1, <2>2, SpShow
  <2> QED BY <1>2, <2>1, <2>3 DEF SpInv, SpPage, SpCancel
<1>4. CASE SP!PreviewAnswered
  <2>1. UNCHANGED <<SP!pageVars, cancelOpen, cancelling, toldCancel, form>> /\ preview' \in {"answered", "failed"}
    BY <1>4 DEF SP!PreviewAnswered, SP!updateVars
  <2> QED BY <1>1, <1>2, <2>1 DEF SpInv, SpPage, SpCancel, SpUpdate, SpPreviews, SP!pageVars
<1>5. CASE SP!HandleCancelOrder
  <2> DEFINE request == [return |-> SP!IsPostPickupCancel(shown), price |-> preview, at |-> "going"]
  <2>1. SP!IsPostPickupCancel(shown) \in BOOLEAN
    BY DEF SP!IsPostPickupCancel
  <2>2. request \in SpCancels /\ request.at = "going" /\ request.price = preview
        /\ (request.return <=> SP!IsPostPickupCancel(shown))
    BY <2>1 DEF SpCancels, SpInv, SpCancel
  <2>3. /\ UNCHANGED <<SP!pageVars, cancelOpen, preview, form>> /\ cancelling' = request /\ toldCancel' = None
        /\ cancelOpen /\ SP!MayConfirm
    BY <1>5 DEF SP!HandleCancelOrder, SP!updateVars
  <2> HIDE DEF request
  <2>4. request.return => MayReturn /\ preview \in {"answered", "failed"} /\ SpPicked
    BY <2>2, <2>3 DEF SP!MayConfirm, SP!IsPostPickupCancel, SpInv, SpPage, SpCancel, SpPreviews
  <2>5. SpCancel'
    BY <1>2, <2>2, <2>3, <2>4 DEF SpInv, SpCancel, SP!pageVars, SpConstants
  <2> QED BY <1>1, <1>2, <2>3, <2>5 DEF SpInv, SpPage, SpUpdate, SP!pageVars
<1>6. CASE SP!CancelFailed
  <2>1. UNCHANGED <<shown, loads, cancelOpen, preview, toldCancel, form>> /\ cancelling' = None /\ cached' \in {cached, None}
    BY <1>6 DEF SP!CancelFailed, SP!updateVars
  <2>2. SpPage'
    BY <1>2, <2>1, SpWay DEF SpInv, SpPage, SpConstants
  <2> QED BY <1>1, <1>2, <2>1, <2>2 DEF SpInv, SpCancel, SpUpdate
<1>7. ASSUME NEW m \in Loads, SP!CancelAnswered(m) PROVE SpInv'
  <2> DEFINE s == cancelling.at
  <2>1. /\ cancelling # None /\ s \in {"RTO_INITIATED", "CANCELLED"} /\ s \in SP!Statuses
        /\ s \notin SP!OnTheWay
    BY <1>7 DEF SP!CancelAnswered, SpInv, SpCancel, SpCancels, SP!Statuses, SP!PrePickup, SP!OnTheWay, SP!RtoStatuses, SP!RtoLeg, SP!Terminal
  <2>2. cancelling' = None /\ cached' = None /\ SP!Show(s, FALSE)
        /\ loads' = [loads EXCEPT ![m] = [live |-> TRUE, read |-> None]]
        /\ toldCancel' = IF SP!ConvertedToRto THEN "return" ELSE "refund"
    BY <1>7 DEF SP!CancelAnswered, SP!Fetch
  <2>3. loads' \in [Loads -> SpLoads] /\ \A n \in Loads : loads'[n].read = IF n = m THEN None ELSE loads[n].read
    BY <2>2 DEF SpInv, SpPage, SpLoads
  <2>4. /\ SpUpdate' /\ shown' = s /\ cancelOpen' = FALSE /\ preview' \in SpPreviews
    BY <1>1, <2>1, <2>2, SpShow
  <2>5. SpPage'
    BY <1>2, <2>1, <2>2, <2>3, <2>4, SpWay DEF SpInv, SpPage, SpConstants
  <2>6. cancelling.return => s = "RTO_INITIATED"
    BY <2>1 DEF SpInv, SpServer, SpCancel, SpPicked, SpGone, SP!OnTheWay, SP!RtoStatuses, SP!RtoLeg
  <2>7. (toldCancel' = "refund" => refunds = 1) /\ (toldCancel' = "return" => returns = 1 /\ refunds = 0)
        /\ toldCancel' \in {None, "refund", "return"}
    BY <2>1, <2>2, <2>6 DEF SP!ConvertedToRto, SpInv, SpCancel
  <2>8. SpCancel'
    BY <1>2, <2>2, <2>4, <2>7 DEF SpCancel
  <2> QED BY <1>2, <2>4, <2>5, <2>8 DEF SpInv
<1> QED BY <1>3, <1>4, <1>5, <1>6, <1>7

\* The update dialog: only what its status asks for is sent.
LEMMA SpUpdated ==
    ASSUME SpConstants, SpInv,
           \/ SP!ToggleUpdate \/ SP!ChooseStatus \/ SP!TypeDetails \/ SP!SubmitStatus \/ SP!UpdateFailed
           \/ \E m \in Loads : SP!UpdateAnswered(m)
    PROVE  SpInv'
<1>1. UNCHANGED <<SP!serverVars, SP!measureVars, SP!cancelVars, shown>>
  BY DEF SP!ToggleUpdate, SP!ChooseStatus, SP!TypeDetails, SP!SubmitStatus, SP!UpdateFailed, SP!UpdateAnswered, SP!pageVars
<1>2. SpServer' /\ SpRecorded' /\ SpMeasured' /\ (SpPicked' <=> SpPicked) /\ SpCancel'
  BY <1>1 DEF SpInv, SpServer, SpRecorded, SpMeasured, SpPicked, SpCancel, SP!serverVars, SP!measureVars, SP!cancelVars
<1>3. SpPage'
  <2>1. CASE UNCHANGED <<cached, loads>>
    BY <1>1, <1>2, <2>1 DEF SpInv, SpPage
  <2>2. CASE SP!UpdateFailed
    <3>1. cached' \in {cached, None} /\ loads' = loads
      BY <2>2 DEF SP!UpdateFailed
    <3> QED BY <1>1, <1>2, <3>1, SpWay DEF SpInv, SpPage, SpConstants
  <2>3. ASSUME NEW m \in Loads, SP!UpdateAnswered(m) PROVE SpPage'
    <3>1. cached' = None /\ loads' = [loads EXCEPT ![m].live = TRUE]
      BY <2>3 DEF SP!UpdateAnswered
    <3>2. loads' \in [Loads -> SpLoads] /\ \A n \in Loads : loads'[n].read = loads[n].read
      BY <3>1 DEF SpInv, SpPage, SpLoads
    <3> QED BY <1>1, <1>2, <3>1, <3>2, SpWay DEF SpInv, SpPage, SpConstants
  <2> QED BY <2>1, <2>2, <2>3 DEF SP!ToggleUpdate, SP!ChooseStatus, SP!TypeDetails, SP!SubmitStatus, SP!pageVars
<1>4. SpUpdate'
  <2>1. CASE SP!ToggleUpdate
    BY <1>1, <2>1 DEF SP!ToggleUpdate, SpInv, SpUpdate
  <2>2. CASE SP!ChooseStatus
    <3>1. shown # None /\ shown \in SP!Statuses /\ form \in SpForms
      BY <2>2 DEF SP!ChooseStatus, SpInv, SpUpdate, SpPage
    <3>2. PICK s \in SP!Offered : form' = [form EXCEPT !.status = s]
      BY <2>2 DEF SP!ChooseStatus
    <3>3. SP!Allowed[shown] \subseteq SP!Statuses
      BY <3>1 DEF SP!Allowed, SP!Statuses, SP!PrePickup, SP!OnTheWay, SP!RtoStatuses, SP!RtoLeg, SP!Terminal
    <3>4. s \in SP!Statuses
      BY <3>1, <3>2, <3>3 DEF SP!Offered
    <3>5. form' \in SpForms
      BY <3>1, <3>2, <3>4 DEF SpForms
    <3> QED BY <1>1, <2>2, <3>1, <3>5 DEF SP!ChooseStatus, SpInv, SpUpdate, SpConstants
  <2>3. CASE SP!TypeDetails
    <3>1. shown # None /\ form \in SpForms
      BY <2>3 DEF SP!TypeDetails, SpInv, SpUpdate
    <3>2. /\ (~form.otp) \in BOOLEAN /\ (~form.charge) \in BOOLEAN
          /\ \A b \in BOOLEAN : [form EXCEPT !.otp = b] \in SpForms /\ [form EXCEPT !.charge = b] \in SpForms
          /\ \A r \in SP!Reasons : [form EXCEPT !.reason = r] \in SpForms
      BY <3>1 DEF SpForms
    <3>3. \/ form' = [form EXCEPT !.otp = ~form.otp] \/ form' = [form EXCEPT !.charge = ~form.charge]
          \/ \E r \in SP!Reasons : form' = [form EXCEPT !.reason = r]
      BY <2>3 DEF SP!TypeDetails
    <3>4. form' \in SpForms
      BY <3>2, <3>3
    <3> QED BY <1>1, <2>3, <3>1, <3>4 DEF SP!TypeDetails, SpInv, SpUpdate, SpConstants
  <2>4. CASE SP!SubmitStatus
    <3>1. shown # None /\ form \in SpForms /\ SP!Complete /\ UNCHANGED <<updateOpen, form>>
          /\ updating' = [sent |-> SP!Sent, at |-> "going"]
      BY <2>4 DEF SP!SubmitStatus, SpInv, SpUpdate
    <3> DEFINE charged == form.charge /\ form.status = "EXCEPTION" /\ form.reason \in SP!ChargeReasons
               confirmed == form.otp /\ form.status = "COMPLETED"
               why == IF form.status = "EXCEPTION" THEN form.reason ELSE None
    <3>2. SP!Sent = [first |-> None, status |-> form.status, otp |-> confirmed, reason |-> why, charge |-> charged]
      BY DEF SP!Sent
    <3>3. /\ charged \in BOOLEAN /\ confirmed \in BOOLEAN /\ why \in SP!Reasons /\ form.status \in SP!Statuses
          /\ confirmed <=> form.status = "COMPLETED"
          /\ (why # None) <=> (form.status = "EXCEPTION")
          /\ charged <=> why \in SP!ChargeReasons
      BY <3>1 DEF SP!Complete, SpForms, SP!Reasons, SpConstants
    <3> HIDE DEF charged, confirmed, why
    <3>4. /\ SP!Sent \in SpSent /\ SP!Sent.status = form.status /\ SP!Sent.reason = why
          /\ SP!Sent.otp = confirmed /\ SP!Sent.charge = charged
      BY <3>2, <3>3 DEF SpSent
    <3>5. updating' \in SpUpdates /\ updating'.sent = SP!Sent
      BY <3>1, <3>4 DEF SpUpdates
    <3> QED BY <1>1, <3>1, <3>3, <3>4, <3>5 DEF SpInv, SpUpdate
  <2>5. CASE SP!UpdateFailed
    BY <1>1, <2>5 DEF SP!UpdateFailed, SP!FormAfterRefusal, SpInv, SpUpdate
  <2>6. ASSUME NEW m \in Loads, SP!UpdateAnswered(m) PROVE SpUpdate'
    <3>1. updating # None /\ updating' = None /\ updateOpen' = FALSE /\ form' = SP!FormOf(form.first)
      BY <2>6 DEF SP!UpdateAnswered
    <3>2. shown # None /\ form \in SpForms
      BY <3>1 DEF SpInv, SpUpdate
    <3>3. SP!FormOf(form.first) \in SpForms
      BY <3>2 DEF SP!FormOf, SpForms, SP!Reasons
    <3> QED BY <1>1, <3>1, <3>2, <3>3 DEF SpUpdate, SpConstants
  <2> QED BY <2>1, <2>2, <2>3, <2>4, <2>5, <2>6
<1> QED BY <1>2, <1>3, <1>4 DEF SpInv

\* The measurement dialog: a key of its own for each opening, and one body for each key.
LEMMA SpMeasure ==
    ASSUME SpConstants, SpInv,
           \/ SP!OpenMeasurement \/ SP!CloseMeasurement \/ SP!TypeMeasurement \/ SP!SubmitMeasurement
           \/ \E k \in SP!Keys : \/ SP!MeasurementFailed(k) \/ \E m \in Loads : SP!MeasurementAnswered(k, m)
                               \/ \E a, b \in BOOLEAN : SP!ServeMeasurement(k, a, b)
    PROVE  SpInv'
<1>1. UNCHANGED <<status, held, refunds, returns, SP!cancelVars, SP!updateVars, shown>>
  BY DEF SP!OpenMeasurement, SP!CloseMeasurement, SP!TypeMeasurement, SP!SubmitMeasurement, SP!MeasurementFailed, SP!MeasurementAnswered,
     SP!ServeMeasurement, SP!serverVars, SP!pageVars
<1>2. SpServer' /\ (SpPicked' <=> SpPicked) /\ SpCancel' /\ SpUpdate'
  BY <1>1 DEF SpInv, SpServer, SpPicked, SpCancel, SpUpdate, SP!cancelVars, SP!updateVars
<1>3. SpPage'
  <2>1. CASE UNCHANGED <<cached, loads>>
    BY <1>1, <1>2, <2>1 DEF SpInv, SpPage
  <2>2. ASSUME NEW k \in SP!Keys, SP!MeasurementFailed(k) PROVE SpPage'
    <3>1. cached' \in {cached, None} /\ loads' = loads
      BY <2>2 DEF SP!MeasurementFailed
    <3> QED BY <1>1, <1>2, <3>1, SpWay DEF SpInv, SpPage, SpConstants
  <2>3. ASSUME NEW k \in SP!Keys, NEW m \in Loads, SP!MeasurementAnswered(k, m) PROVE SpPage'
    <3>1. cached' = None /\ loads' = [loads EXCEPT ![m].live = TRUE]
      BY <2>3 DEF SP!MeasurementAnswered
    <3>2. loads' \in [Loads -> SpLoads] /\ \A n \in Loads : loads'[n].read = loads[n].read
      BY <3>1 DEF SpInv, SpPage, SpLoads
    <3> QED BY <1>1, <1>2, <3>1, <3>2, SpWay DEF SpInv, SpPage, SpConstants
  <2> QED BY <2>1, <2>2, <2>3 DEF SP!OpenMeasurement, SP!CloseMeasurement, SP!TypeMeasurement, SP!SubmitMeasurement, SP!ServeMeasurement, SP!pageVars
<1>4. SpRecorded' /\ SpMeasured'
  <2>1. CASE SP!OpenMeasurement
    BY <2>1 DEF SP!OpenMeasurement, SP!serverVars, SpInv, SpRecorded, SpMeasured, SpConstants, SP!Keys
  <2>2. CASE SP!CloseMeasurement \/ SP!TypeMeasurement
    BY <2>2 DEF SP!CloseMeasurement, SP!TypeMeasurement, SP!serverVars, SpInv, SpRecorded, SpMeasured, SP!Keys
  <2>3. CASE SP!SubmitMeasurement
    <3>1. body \in Bodies /\ recorded' = recorded /\ UNCHANGED <<opens, body, measureOpen>>
          /\ measuring' = [measuring EXCEPT ![opens] = [body |-> body, at |-> "going"]]
      BY <2>3 DEF SP!SubmitMeasurement, SP!serverVars, SpInv, SpMeasured
    <3>2. DOMAIN measuring' = SP!Keys /\ measuring' = [k \in SP!Keys |-> measuring'[k]]
          /\ \A k \in SP!Keys : measuring'[k] = measuring[k] \/ measuring'[k] = [body |-> body, at |-> "going"]
      BY <3>1 DEF SpInv, SpMeasured
    <3> QED BY <3>1, <3>2 DEF SpInv, SpRecorded, SpMeasured, SP!Keys
  <2>4. ASSUME NEW k \in SP!Keys, SP!MeasurementFailed(k) \/ \E m \in Loads : SP!MeasurementAnswered(k, m)
        PROVE  SpRecorded' /\ SpMeasured'
    <3>1. /\ measuring' = [measuring EXCEPT ![k] = None] /\ UNCHANGED <<recorded, opens, body>>
          /\ measureOpen' = FALSE \/ measureOpen' = measureOpen
      BY <2>4 DEF SP!MeasurementFailed, SP!MeasurementAnswered, SP!serverVars
    <3>2. DOMAIN measuring' = SP!Keys /\ measuring' = [j \in SP!Keys |-> measuring'[j]]
          /\ \A j \in SP!Keys : measuring'[j] = measuring[j] \/ measuring'[j] = None
      BY <3>1 DEF SpInv, SpMeasured
    <3> QED BY <3>1, <3>2 DEF SpInv, SpRecorded, SpMeasured, SP!Keys
  <2>5. ASSUME NEW k \in SP!Keys, NEW a \in BOOLEAN, NEW b \in BOOLEAN, SP!ServeMeasurement(k, a, b)
        PROVE  SpRecorded' /\ SpMeasured'
    <3>1. measuring[k] \in [body : Bodies, at : {"going", "answered", "failed"}] /\ UNCHANGED <<opens, body, measureOpen>>
      BY <2>5 DEF SP!ServeMeasurement, SpInv, SpMeasured
    <3>2. PICK x \in {"answered", "failed"} : measuring' = [measuring EXCEPT ![k].at = x]
      BY <2>5 DEF SP!ServeMeasurement
    <3>3. /\ DOMAIN measuring' = SP!Keys /\ measuring' = [j \in SP!Keys |-> measuring'[j]]
          /\ \A j \in SP!Keys : j # k => measuring'[j] = measuring[j]
          /\ measuring'[k] \in [body : Bodies, at : {"going", "answered", "failed"}]
      BY <3>1, <3>2 DEF SpInv, SpMeasured
    <3>4. \/ recorded' = recorded
          \/ recorded[k] = <<>> /\ recorded' = [recorded EXCEPT ![k] = Append(recorded[k], measuring[k].body)]
      BY <2>5 DEF SP!ServeMeasurement, SP!Unbilled
    <3>5. Append(<<>>, measuring[k].body) = <<measuring[k].body>> /\ measuring[k].body \in Bodies
      BY <3>1
    <3>6. /\ DOMAIN recorded' = SP!Keys /\ recorded' = [j \in SP!Keys |-> recorded'[j]]
          /\ \A j \in SP!Keys : recorded'[j] = recorded[j] \/ recorded'[j] = <<measuring[k].body>>
      BY <3>4, <3>5 DEF SpInv, SpMeasured
    <3> QED BY <3>1, <3>3, <3>5, <3>6 DEF SpInv, SpRecorded, SpMeasured, SP!Keys
  <2> QED BY <2>1, <2>2, <2>3, <2>4, <2>5
<1> QED BY <1>2, <1>3, <1>4 DEF SpInv

LEMMA SpStep == SpConstants /\ SpInv /\ [SP!Next]_(SP!vars) => SpInv'
<1> SUFFICES ASSUME SpConstants, SpInv, [SP!Next]_(SP!vars) PROVE SpInv'
  OBVIOUS
<1>1. CASE UNCHANGED SP!vars
  BY <1>1 DEF SP!vars, SpInv, SpServer, SpRecorded, SpPage, SpCancel, SpUpdate, SpMeasured, SpPicked
<1>2. CASE SP!Next
  BY <1>2, SpMoved, SpReads, SpCancelled, SpUpdated, SpMeasure DEF SP!Next
<1> QED BY <1>1, <1>2

\* At every moment, of an order that is booked or on its way and whatever others move it to, the money
\* went back to the shipper or on a return, once, and a measurement is billed once for each opening of
\* its dialog; a return was confirmed by someone who may, with its price at hand; the toast tells what
\* became of the money, also when the parcel was picked up while the dialog was open; and an update
\* carries only what its status asks for.
THEOREM MoneyMovedOnce ==
    ASSUME SpConstants
    PROVE  SP!Spec => [](SP!TypeOK /\ SP!OncePerIntent /\ SP!ActedAsShown)
<1>1. SpInv => SP!TypeOK
  BY DEF SpInv, SpServer, SpPage, SpCancel, SpUpdate, SpMeasured, SpPreviews, SP!TypeOK
<1>2. SpInv => SP!OncePerIntent
  <2>1. SpInv => refunds + returns <= 1
    BY DEF SpInv, SpServer, SpPicked, SpGone, SP!OnTheWay, SP!RtoStatuses, SP!RtoLeg
  <2>2. SpInv => \A k \in SP!Keys : Len(recorded[k]) <= 1
    <3>1. Len(<<>>) = 0 /\ \A b : Len(<<b>>) = 1
      OBVIOUS
    <3>2. ASSUME SpInv, NEW k \in SP!Keys PROVE Len(recorded[k]) <= 1
      <4>1. Len(recorded[k]) = 0 \/ Len(recorded[k]) = 1
        BY <3>1, <3>2 DEF SpInv, SpRecorded
      <4>2. \A n : n = 0 \/ n = 1 => n <= 1
        OBVIOUS
      <4> QED BY <4>1, <4>2, Zenon
    <3> QED BY <3>2
  <2> QED BY <2>1, <2>2 DEF SP!OncePerIntent
<1>3. SpInv => SP!ActedAsShown
  BY DEF SpInv, SpCancel, SpUpdate, SpUpdates, SpSent, SP!ActedAsShown
<1> QED BY <1>1, <1>2, <1>3, SpInit, SpStep, PTL DEF SP!Spec

\* Neither a read of the page nor a request that fails changes an open form.
THEOREM ShipmentTypingKept ==
    ASSUME SpConstants
    PROVE  SP!Spec => [][SP!KeepsTyping]_(SP!vars)
<1>1. SpInv /\ [SP!Next]_(SP!vars) => [SP!KeepsTyping]_(SP!vars)
  <2> SUFFICES ASSUME SpInv, SP!Next PROVE SP!KeepsTyping
    OBVIOUS
  <2>1. ASSUME loads' # loads \/ (updating # None /\ updating' = None /\ updating.at = "failed"),
               form # None, UNCHANGED <<cancelling, measuring>>, updating' = updating \/ updating.at = "failed"
        PROVE  UNCHANGED <<form, body, updateOpen, measureOpen>>
    <3>1. \/ SP!UpdateFailed
          \/ \E m \in Loads : SP!ReadDetails(m) \/ SP!DetailsAnswered(m) \/ SP!DetailsFail(m) \/ SP!CancelAnswered(m) \/ SP!UpdateAnswered(m)
          \/ \E k \in SP!Keys : \E m \in Loads : SP!MeasurementAnswered(k, m)
      BY <2>1 DEF SP!Next, SP!OthersMove, SP!ToggleCancel, SP!PreviewAnswered, SP!HandleCancelOrder, SP!CancelFailed, SP!ToggleUpdate,
         SP!ChooseStatus, SP!TypeDetails, SP!SubmitStatus, SP!OpenMeasurement, SP!CloseMeasurement, SP!TypeMeasurement, SP!SubmitMeasurement,
         SP!ServeCancel, SP!ServeUpdate, SP!ServeMeasurement, SP!MeasurementFailed, SP!pageVars, SP!updateVars
    <3>2. ~\E k \in SP!Keys : \E m \in Loads : SP!MeasurementAnswered(k, m)
      BY <2>1 DEF SP!MeasurementAnswered, SpInv, SpMeasured
    <3>3. ~\E m \in Loads : SP!CancelAnswered(m) \/ SP!UpdateAnswered(m)
      BY <2>1 DEF SP!CancelAnswered, SP!UpdateAnswered
    <3> QED BY <2>1, <3>1, <3>2, <3>3 DEF SP!UpdateFailed, SP!FormAfterRefusal, SP!ReadDetails, SP!DetailsAnswered, SP!DetailsFail, SP!Show, SP!FormKept,
            SP!updateVars, SP!measureVars
  <2> QED BY <2>1 DEF SP!KeepsTyping
<1> QED BY <1>1, SpInit, SpStep, PTL DEF SP!Spec

-----------------------------------------------------------------------------
(* Support tickets: an AWB has one open ticket but for those opened again; the *)
(* conversation in view is that of the ticket opened, as long as none was      *)
(* closed with an answer on its way.                                           *)

CONSTANTS Tickets, Seed, IsStaff, Chips, Openings, Opens, MaxOthers
VARIABLES tickets, reopened, others, activeTab, active, detail, loadingDetail, opened, replyText, send,
    overtaken, raise, create
SD == INSTANCE SupportDesk

SdRows == [status : SD!StatusTabs, awb : {None, "a"}]
SdSeen == [id : Tickets, status : SD!StatusTabs]
SdAsked == [of : Tickets \cup {None}, at : {"idle", "going", "answered", "failed"}, seen : SD!StatusTabs \cup {None}]
SdOpens == [of : Tickets \cup {None}, at : {"idle", "going", "read", "failed"}, seen : SdSeen \cup {None}]
SdLoads == [tab : SD!StatusTabs \cup {None}, at : {"idle", "going", "read", "failed"}, rows : SUBSET Tickets]
SdForms == [chip : Chips \cup {None}, subject : Chips \cup {None}, awb : BOOLEAN, text : BOOLEAN]

SdConstants ==
    /\ Seed \subseteq Tickets /\ IsFiniteSet(Tickets)
    /\ None \notin Tickets /\ None # "a" /\ None # "failed" /\ None \notin SdRows

SdThere(t) == t \in Tickets /\ SD!Exists(t)

SdServer ==
    /\ tickets \in [Tickets -> SdRows \cup {None}] /\ reopened \in Nat
    /\ Cardinality(SD!OpenFor("a")) <= 1 + reopened
SdList ==
    /\ activeTab \in SD!StatusTabs /\ shown \subseteq Tickets /\ cached \in [SD!StatusTabs -> (SUBSET Tickets) \cup {None}]
    /\ loads \in [Loads -> SdLoads] /\ \A l \in Loads : loads[l].at # "idle" => loads[l].tab \in SD!StatusTabs
    /\ \A t \in shown : SD!Exists(t)
    /\ \A tb \in SD!StatusTabs : cached[tb] # None => \A t \in cached[tb] : SdThere(t)
    /\ \A l \in Loads : \A t \in loads[l].rows : SD!Exists(t)
SdTalk ==
    /\ loadingDetail \in BOOLEAN /\ replyText \in BOOLEAN
    /\ active \in Tickets \cup {None} /\ (active # None => SD!Exists(active))
    /\ opens \in [Opens -> SdOpens] /\ send \in SdAsked /\ status \in SdAsked
    /\ \A o \in Opens : /\ opens[o].at # "idle" => SdThere(opens[o].of)
                        /\ opens[o].at = "read" => opens[o].seen.id = opens[o].of
    /\ send.at # "idle" => SdThere(send.of) /\ send.seen \in SD!StatusTabs
    /\ status.at # "idle" => SdThere(status.of) /\ status.seen \in {"RESOLVED", "CLOSED"}
SdQuiet == send.at = "idle" /\ status.at = "idle"
SdFits ==
    ~overtaken =>
        /\ active = None => detail = None /\ SdQuiet /\ \A o \in Opens : opens[o].at = "idle"
        /\ \A o \in Opens : opens[o].at # "idle" =>
               /\ detail = None /\ active = opens[o].of /\ SdQuiet
               /\ \A p \in Opens : opens[p].at # "idle" => p = o
        /\ detail # None => detail.id = active
        /\ send.at # "idle" => send.of = active
        /\ status.at # "idle" => status.of = active
SdRaise == raise \in [open : BOOLEAN, form : SdForms]

SdInv == SdServer /\ SdList /\ SdTalk /\ SdFits /\ SdRaise

\* The instance counts as the library does.
LEMMA SdCounts == \A S : SD!Cardinality(S) = Cardinality(S)
BY DEF SD!Cardinality, Cardinality

LEMMA SdInit == SdConstants /\ SD!Init => SdInv
<1> SUFFICES ASSUME SdConstants, SD!Init PROVE SdInv
  OBVIOUS
<1>1. /\ tickets \in [Tickets -> SdRows \cup {None}] /\ reopened = 0
      /\ \A t \in Tickets : (SD!Exists(t) <=> t \in Seed) /\ (SD!Exists(t) /\ tickets[t].awb = "a" => t = 1)
  BY DEF SD!Init, SD!Exists, SD!StatusTabs, SdConstants, SdRows
<1>2. SD!OpenFor("a") \subseteq {1} /\ Cardinality({1}) = 1 /\ IsFiniteSet({1})
  BY <1>1, FS_Singleton DEF SD!OpenFor
<1>3. Cardinality(SD!OpenFor("a")) <= 1 /\ Cardinality(SD!OpenFor("a")) \in Nat
  BY <1>2, FS_Subset, FS_CardinalityType
<1>4. SdServer
  BY <1>1, <1>3 DEF SdServer
<1>5. SdList
  BY <1>1 DEF SD!Init, SdList, SdThere, SD!NothingCached, SD!Idle, SD!StatusTabs, SdLoads, SdConstants
<1>6. SdTalk /\ SdFits
  BY <1>1 DEF SD!Init, SdTalk, SdFits, SdQuiet, SdThere, SD!NotAsked, SdOpens, SdAsked, SdConstants
<1>7. SdRaise
  <2>1. SD!BlankForm \in SdForms /\ [SD!BlankForm EXCEPT !.awb = TRUE] \in SdForms
    BY DEF SdForms, SD!BlankForm
  <2>2. PICK o \in Openings : raise = IF o = "menu" THEN [open |-> FALSE, form |-> SD!BlankForm]
                                      ELSE [open |-> TRUE, form |-> [SD!BlankForm EXCEPT !.awb = TRUE]]
    BY DEF SD!Init
  <2> QED BY <2>1, <2>2 DEF SdRaise
<1> QED BY <1>4, <1>5, <1>6, <1>7 DEF SdInv

\* A ticket that is there stays, so what the page knows of stays too.
SdGrown == \A t \in Tickets : SD!Exists(t) => SD!Exists(t)'

LEMMA SdKept ==
    ASSUME SdInv, SdGrown, UNCHANGED <<activeTab, shown, cached, loads>>
    PROVE  SdList'
<1>1. \A t \in Tickets : SD!Exists(t) => SD!Exists(t)'
  BY DEF SdGrown
<1>2. \A S \in SUBSET Tickets : (\A t \in S : SD!Exists(t)) => (\A t \in S : SD!Exists(t)')
  BY <1>1
<1>3. \A tb \in SD!StatusTabs : cached[tb] # None => \A t \in cached[tb] : t \in Tickets /\ SD!Exists(t)'
  BY <1>1 DEF SdInv, SdList, SdThere
<1>4. \A l \in Loads : loads[l].rows \subseteq Tickets
  BY DEF SdInv, SdList, SdLoads
<1> QED BY <1>2, <1>3, <1>4 DEF SdInv, SdList, SdThere

LEMMA SdAdded ==
    ASSUME NEW S, NEW x, IsFiniteSet(S)
    PROVE  /\ IsFiniteSet(S \cup {x}) /\ Cardinality(S \cup {x}) <= Cardinality(S) + 1
           /\ Cardinality(S \cup {x}) \in Nat
<1>1. IsFiniteSet(S \cup {x}) /\ (Cardinality(S \cup {x}) = Cardinality(S) \/ Cardinality(S \cup {x}) = Cardinality(S) + 1)
  BY FS_AddElement, Zenon
<1> QED BY <1>1, FS_CardinalityType

\* A reply opens a ticket again at most once for each time that is counted; a status that staff sets opens none.
LEMMA SdReplied ==
    ASSUME SdConstants, SdServer, NEW t \in Tickets, SD!Exists(t), NEW m, SD!Replied(t, m)
    PROVE  SdServer' /\ SdGrown
<1> DEFINE after == SD!AfterReply(t, m)
<1>1. /\ tickets[t] \in SdRows /\ after \in SD!StatusTabs
      /\ tickets' = [tickets EXCEPT ![t].status = after]
      /\ reopened' = IF after # tickets[t].status THEN reopened + 1 ELSE reopened
      /\ after = tickets[t].status \/ after = "OPEN"
  BY DEF SdServer, SD!Exists, SdRows, SD!AfterReply, SD!Replied, SD!StatusTabs
<1> HIDE DEF after
<1>2. /\ tickets'[t] = [tickets[t] EXCEPT !.status = after] /\ tickets'[t] \in SdRows
      /\ tickets'[t].status = after /\ tickets'[t].awb = tickets[t].awb
      /\ \A u \in Tickets : u # t => tickets'[u] = tickets[u]
  BY <1>1 DEF SdServer, SdRows
<1>3. tickets' \in [Tickets -> SdRows \cup {None}] /\ SdGrown
  BY <1>1, <1>2 DEF SdServer, SdGrown, SD!Exists, SdConstants
<1>4. IsFiniteSet(SD!OpenFor("a")) /\ Cardinality(SD!OpenFor("a")) \in Nat
  BY FS_Subset, FS_CardinalityType DEF SD!OpenFor, SdConstants
<1>5. CASE after = tickets[t].status
  <2>1. SD!OpenFor("a")' = SD!OpenFor("a") /\ reopened' = reopened
    BY <1>1, <1>2, <1>5 DEF SD!OpenFor, SD!Exists, SdConstants
  <2> QED BY <1>3, <2>1 DEF SdServer
<1>6. CASE after # tickets[t].status
  <2>1. SD!OpenFor("a")' \subseteq SD!OpenFor("a") \cup {t} /\ reopened' = reopened + 1
    BY <1>1, <1>2, <1>6 DEF SD!OpenFor, SD!Exists, SdConstants
  <2>2. /\ IsFiniteSet(SD!OpenFor("a") \cup {t})
        /\ Cardinality(SD!OpenFor("a") \cup {t}) <= Cardinality(SD!OpenFor("a")) + 1
        /\ Cardinality(SD!OpenFor("a") \cup {t}) \in Nat
    BY <1>4, SdAdded
  <2>3. Cardinality(SD!OpenFor("a")') <= Cardinality(SD!OpenFor("a") \cup {t}) /\ Cardinality(SD!OpenFor("a")') \in Nat
    BY <2>1, <2>2, FS_Subset, FS_CardinalityType
  <2> QED BY <1>3, <1>4, <2>1, <2>2, <2>3 DEF SdServer
<1> QED BY <1>5, <1>6

LEMMA SdSettled ==
    ASSUME SdConstants, SdServer, NEW t \in Tickets, SD!Exists(t), NEW s \in {"RESOLVED", "CLOSED"},
           tickets' = [tickets EXCEPT ![t].status = s], reopened' = reopened
    PROVE  SdServer' /\ SdGrown
<1>1. /\ tickets[t] \in SdRows /\ tickets'[t] = [tickets[t] EXCEPT !.status = s]
      /\ tickets'[t] \in SdRows /\ tickets'[t].status = s
      /\ \A u \in Tickets : u # t => tickets'[u] = tickets[u]
  BY DEF SdServer, SdRows, SD!Exists, SD!StatusTabs
<1>2. tickets' \in [Tickets -> SdRows \cup {None}] /\ SdGrown
  BY <1>1 DEF SdServer, SdGrown, SD!Exists, SdConstants
<1>3. SD!OpenFor("a")' \subseteq SD!OpenFor("a")
  BY <1>1 DEF SD!OpenFor, SD!Exists
<1>4. IsFiniteSet(SD!OpenFor("a")) /\ Cardinality(SD!OpenFor("a")) \in Nat
  BY FS_Subset, FS_CardinalityType DEF SD!OpenFor, SdConstants
<1>5. Cardinality(SD!OpenFor("a")') <= Cardinality(SD!OpenFor("a")) /\ Cardinality(SD!OpenFor("a")') \in Nat
  BY <1>3, <1>4, FS_Subset, FS_CardinalityType
<1> QED BY <1>2, <1>4, <1>5 DEF SdServer

LEMMA SdOthers == SdConstants /\ SdInv /\ SD!OthersAct => SdInv'
<1> SUFFICES ASSUME SdConstants, SdInv, SD!OthersAct PROVE SdInv'
  OBVIOUS
<1>1. UNCHANGED <<activeTab, shown, cached, loads, active, detail, loadingDetail, opens, opened, replyText, send, status,
                  overtaken, raise>>
  BY DEF SD!OthersAct, SD!listVars, SD!talkVars, SD!raiseVars
<1>2. SdServer' /\ SdGrown
  BY SdReplied, SdSettled DEF SD!OthersAct, SdInv, SD!StatusTabs
<1> QED BY <1>1, <1>2, SdKept DEF SdInv, SdTalk, SdFits, SdRaise, SdGrown, SdThere, SdQuiet

\* A read of a tab asked for, with the rows at hand.
LEMMA SdFetched ==
    ASSUME SdInv, NEW tb \in SD!StatusTabs, NEW l \in Loads, SD!FetchTickets(tb, l),
           cached' = cached \/ cached' = SD!NothingCached, activeTab' \in SD!StatusTabs, tickets' = tickets
    PROVE  SdList'
<1> DEFINE fetching == [SD!Idle EXCEPT !.tab = tb, !.at = "going"]
<1>1. fetching \in SdLoads /\ fetching.tab = tb /\ fetching.rows = {}
  BY DEF SD!Idle, SdLoads
<1> HIDE DEF fetching
<1>2. loads' = loads \/ loads' = [loads EXCEPT ![l] = fetching]
  BY DEF SD!FetchTickets, fetching
<1>3. /\ loads' \in [Loads -> SdLoads]
      /\ \A k \in Loads : loads'[k] = loads[k] \/ loads'[k] = fetching
  BY <1>1, <1>2 DEF SdInv, SdList
<1>4. /\ cached' \in [SD!StatusTabs -> (SUBSET Tickets) \cup {None}]
      /\ \A u \in SD!StatusTabs : cached'[u] # None => cached'[u] = cached[u]
  BY DEF SdInv, SdList, SD!NothingCached
<1>5. shown' = shown \/ (cached'[tb] # None /\ shown' = cached[tb] /\ cached[tb] = cached'[tb])
  BY <1>4 DEF SD!FetchTickets
<1>6. shown' \subseteq Tickets /\ \A t \in shown' : SD!Exists(t)
  BY <1>4, <1>5 DEF SdInv, SdList, SdThere
<1> QED BY <1>1, <1>3, <1>4, <1>6 DEF SdInv, SdList, SdThere, SD!Exists

LEMMA SdRowsRead ==
    ASSUME SdConstants, SdInv, NEW l \in Loads,
           (\E tb \in SD!StatusTabs : SD!SetActiveTab(tb, l)) \/ (\E a \in BOOLEAN : SD!ServeList(l, a)) \/ SD!ListAnswered(l)
    PROVE  SdInv'
<1>1. UNCHANGED <<tickets, reopened, active, detail, loadingDetail, opens, opened, replyText, send, status, overtaken, raise>>
  BY DEF SD!SetActiveTab, SD!ServeList, SD!ListAnswered, SD!serverVars, SD!talkVars, SD!raiseVars
<1>2. SdList'
  <2>1. ASSUME NEW tb \in SD!StatusTabs, SD!SetActiveTab(tb, l) PROVE SdList'
    BY <1>1, <2>1, SdFetched DEF SD!SetActiveTab
  <2>2. ASSUME NEW a \in BOOLEAN, SD!ServeList(l, a) PROVE SdList'
    <3>1. SD!ListTickets(loads[l].tab) \subseteq Tickets /\ \A t \in SD!ListTickets(loads[l].tab) : SD!Exists(t)
      BY DEF SD!ListTickets
    <3> DEFINE served == IF a THEN [loads[l] EXCEPT !.at = "read", !.rows = SD!ListTickets(loads[l].tab)]
                         ELSE [loads[l] EXCEPT !.at = "failed"]
    <3>2. /\ served \in SdLoads /\ served.tab = loads[l].tab /\ loads[l].tab \in SD!StatusTabs
          /\ \A t \in served.rows : SD!Exists(t)
      BY <2>2, <3>1 DEF SD!ServeList, SdInv, SdList, SdLoads
    <3>3. loads' = [loads EXCEPT ![l] = served]
      BY <2>2 DEF SD!ServeList
    <3> HIDE DEF served
    <3>4. loads' \in [Loads -> SdLoads] /\ \A k \in Loads : loads'[k] = IF k = l THEN served ELSE loads[k]
      BY <3>2, <3>3 DEF SdInv, SdList
    <3>5. UNCHANGED <<activeTab, shown, cached>>
      BY <2>2 DEF SD!ServeList
    <3> QED BY <1>1, <3>2, <3>4, <3>5 DEF SdInv, SdList, SdThere, SD!Exists
  <2>3. ASSUME SD!ListAnswered(l) PROVE SdList'
    <3>1. SD!Idle \in SdLoads /\ SD!Idle.at = "idle" /\ SD!Idle.rows = {}
      BY DEF SD!Idle, SdLoads
    <3>2. loads' \in [Loads -> SdLoads] /\ \A k \in Loads : loads'[k] = IF k = l THEN SD!Idle ELSE loads[k]
      BY <2>3, <3>1 DEF SD!ListAnswered, SdInv, SdList
    <3>3. loads[l].rows \subseteq Tickets /\ loads[l].tab \in SD!StatusTabs /\ \A t \in loads[l].rows : SD!Exists(t)
      BY <2>3 DEF SD!ListAnswered, SdInv, SdList, SdLoads
    <3>4. \/ UNCHANGED <<shown, cached>>
          \/ shown' = loads[l].rows /\ cached' = [cached EXCEPT ![loads[l].tab] = loads[l].rows]
      BY <2>3 DEF SD!ListAnswered
    <3>5. activeTab' = activeTab
      BY <2>3 DEF SD!ListAnswered
    <3>6. /\ cached' \in [SD!StatusTabs -> (SUBSET Tickets) \cup {None}]
          /\ \A tb \in SD!StatusTabs : cached'[tb] = cached[tb] \/ cached'[tb] = loads[l].rows
      BY <3>3, <3>4 DEF SdInv, SdList
    <3>7. shown' \subseteq Tickets /\ \A t \in shown' : SD!Exists(t)
      BY <3>3, <3>4 DEF SdInv, SdList
    <3> QED BY <1>1, <3>1, <3>2, <3>3, <3>5, <3>6, <3>7 DEF SdInv, SdList, SdThere, SD!Exists
  <2> QED BY <2>1, <2>2, <2>3
<1> QED BY <1>1, <1>2 DEF SdInv, SdServer, SdTalk, SdFits, SdRaise, SdQuiet, SdThere, SD!OpenFor, SD!Exists

\* A conversation is opened, read, and shown: only one is on its way, and it is that of the ticket in view.
LEMMA SdOpened ==
    ASSUME SdConstants, SdInv, NEW o \in Opens,
           (\E t \in Tickets : SD!OpenTicketConversation(t, o)) \/ (\E a \in BOOLEAN : SD!ServeOpen(o, a)) \/ SD!OpenAnswered(o)
    PROVE  SdInv'
<1>1. UNCHANGED <<tickets, reopened, activeTab, shown, cached, loads, send, status, overtaken, raise>>
  BY DEF SD!OpenTicketConversation, SD!ServeOpen, SD!OpenAnswered, SD!serverVars, SD!listVars, SD!raiseVars
<1>2. SdTalk' /\ SdFits'
  <2>1. ASSUME NEW t \in Tickets, SD!OpenTicketConversation(t, o) PROVE SdTalk' /\ SdFits'
    <3> DEFINE fetching == [SD!NotAsked EXCEPT !.of = t, !.at = "going"]
    <3>1. fetching \in SdOpens /\ fetching.of = t /\ fetching.at = "going"
      BY DEF SD!NotAsked, SdOpens
    <3>2. opens' = [opens EXCEPT ![o] = fetching]
      BY <2>1 DEF SD!OpenTicketConversation
    <3> HIDE DEF fetching
    <3>3. opens' \in [Opens -> SdOpens] /\ \A p \in Opens : opens'[p] = IF p = o THEN fetching ELSE opens[p]
      BY <3>1, <3>2 DEF SdInv, SdTalk
    <3>4. /\ active = None /\ active' = t /\ SD!Exists(t) /\ t # None
          /\ loadingDetail' = TRUE /\ replyText' = FALSE /\ detail' = detail
      BY <2>1 DEF SD!OpenTicketConversation, SD!RowPressed, SD!AtPage, SdInv, SdList, SdConstants
    <3>5. SdTalk'
      BY <1>1, <3>1, <3>3, <3>4 DEF SdInv, SdTalk, SdThere, SD!Exists
    <3>6. SdFits'
      BY <1>1, <3>1, <3>3, <3>4 DEF SdInv, SdFits, SdQuiet
    <3> QED BY <3>5, <3>6
  <2>2. ASSUME NEW a \in BOOLEAN, SD!ServeOpen(o, a) PROVE SdTalk' /\ SdFits'
    <3> DEFINE served == IF a THEN [opens[o] EXCEPT !.at = "read", !.seen = SD!AsRead(opens[o].of)]
                         ELSE [opens[o] EXCEPT !.at = "failed"]
    <3>1. opens[o].at = "going" /\ SdThere(opens[o].of) /\ opens' = [opens EXCEPT ![o] = served]
      BY <2>2 DEF SD!ServeOpen, SdInv, SdTalk
    <3>2. SD!AsRead(opens[o].of) \in SdSeen /\ SD!AsRead(opens[o].of).id = opens[o].of
      BY <3>1 DEF SD!AsRead, SdSeen, SdThere, SD!Exists, SdInv, SdServer, SdRows
    <3>3. /\ served \in SdOpens /\ served.of = opens[o].of /\ served.at \in {"read", "failed"}
          /\ served.at = "read" => served.seen = SD!AsRead(opens[o].of)
      BY <3>2 DEF SdInv, SdTalk, SdOpens
    <3> HIDE DEF served
    <3>4. opens' \in [Opens -> SdOpens] /\ \A p \in Opens : opens'[p] = IF p = o THEN served ELSE opens[p]
      BY <3>1, <3>3 DEF SdInv, SdTalk
    <3>5. UNCHANGED <<active, detail, loadingDetail, replyText>>
      BY <2>2 DEF SD!ServeOpen
    <3>7. SdTalk'
      BY <1>1, <3>1, <3>2, <3>3, <3>4, <3>5 DEF SdInv, SdTalk, SdThere, SD!Exists, SdConstants
    <3>8. SdFits'
      BY <1>1, <3>1, <3>3, <3>4, <3>5 DEF SdInv, SdFits, SdQuiet
    <3> QED BY <3>7, <3>8
  <2>3. ASSUME SD!OpenAnswered(o) PROVE SdTalk' /\ SdFits'
    <3>1. SD!NotAsked \in SdOpens /\ SD!NotAsked.at = "idle"
      BY DEF SD!NotAsked, SdOpens
    <3>2. opens' \in [Opens -> SdOpens] /\ \A p \in Opens : opens'[p] = IF p = o THEN SD!NotAsked ELSE opens[p]
      BY <2>3, <3>1 DEF SD!OpenAnswered, SdInv, SdTalk
    <3>3. /\ opens[o].at # "idle" /\ loadingDetail' = FALSE /\ replyText' = replyText
          /\ \/ opens[o].at = "read" /\ detail' = opens[o].seen /\ active' = active
             \/ active' = None /\ detail' = detail
      BY <2>3 DEF SD!OpenAnswered
    <3>4. SdTalk'
      BY <1>1, <3>1, <3>2, <3>3 DEF SdInv, SdTalk, SdThere, SD!Exists
    <3>5. SdFits'
      BY <1>1, <3>1, <3>2, <3>3, SdConstants DEF SdInv, SdTalk, SdFits, SdQuiet, SdThere, SdConstants
    <3> QED BY <3>4, <3>5
  <2> QED BY <2>1, <2>2, <2>3
<1> QED BY <1>1, <1>2 DEF SdInv, SdServer, SdList, SdRaise, SdThere, SD!OpenFor, SD!Exists

\* A conversation is closed, and what was on its way for it then is remembered.
LEMMA SdClosed == SdConstants /\ SdInv /\ SD!CloseConversation => SdInv'
<1> SUFFICES ASSUME SdConstants, SdInv, SD!CloseConversation PROVE SdInv'
  OBVIOUS
<1>1. UNCHANGED <<tickets, reopened, activeTab, shown, cached, loads, loadingDetail, opens, replyText, send, status, raise>>
  BY DEF SD!CloseConversation, SD!serverVars, SD!listVars, SD!raiseVars
<1>2. active' = None /\ detail' = None /\ (overtaken' <=> SD!InFlight)
  BY DEF SD!CloseConversation, SD!DetailAfterClose, SD!DetailDropped
<1>3. SdTalk'
  BY <1>1, <1>2 DEF SdInv, SdTalk, SdThere, SD!Exists
<1>4. SdFits'
  BY <1>1, <1>2 DEF SD!InFlight, SdFits, SdQuiet
<1> QED BY <1>1, <1>3, <1>4 DEF SdInv, SdServer, SdList, SdRaise, SdThere, SD!OpenFor, SD!Exists

\* A reply is written and sent, or a status is set: for the ticket in view.
LEMMA SdAsk ==
    ASSUME SdConstants, SdInv,
           SD!WriteReply \/ SD!HandleSendReply \/ \E s \in SD!StatusTabs : SD!HandleUpdateTicketStatus(s)
    PROVE  SdInv'
<1>1. UNCHANGED <<tickets, reopened, activeTab, shown, cached, loads, active, detail, loadingDetail, opens, overtaken, raise>>
  BY DEF SD!WriteReply, SD!HandleSendReply, SD!HandleUpdateTicketStatus, SD!serverVars, SD!listVars, SD!raiseVars
<1>2. replyText' \in BOOLEAN
  BY DEF SD!WriteReply, SD!HandleSendReply, SD!HandleUpdateTicketStatus, SdInv, SdTalk
<1>3. /\ send' = send \/ (detail # None /\ active # None /\ send' = [of |-> active, at |-> "going", seen |-> activeTab] /\ status' = status)
      /\ status' = status \/ \E s \in {"RESOLVED", "CLOSED"} :
             detail # None /\ active # None /\ send' = send /\ status' = [of |-> active, at |-> "going", seen |-> s]
  BY DEF SD!WriteReply, SD!HandleSendReply, SD!HandleUpdateTicketStatus, SD!ReplyBox, SD!ThreadShown, SD!StatusButtons
<1>4. /\ send' \in SdAsked /\ status' \in SdAsked
      /\ send' = send \/ (detail # None /\ active # None /\ send'.of = active /\ send'.seen = activeTab)
      /\ status' = status \/ (detail # None /\ active # None /\ status'.of = active /\ status'.seen \in {"RESOLVED", "CLOSED"})
  BY <1>3 DEF SdInv, SdTalk, SdList, SdAsked, SD!StatusTabs
<1>5. SdTalk'
  BY <1>1, <1>2, <1>4 DEF SdInv, SdTalk, SdList, SdThere, SD!Exists
<1>6. SdFits'
  BY <1>1, <1>4 DEF SdInv, SdFits, SdQuiet
<1> QED BY <1>1, <1>5, <1>6 DEF SdInv, SdServer, SdList, SdRaise, SdThere, SD!OpenFor, SD!Exists

\* What the server makes of it: a reply, a status.
LEMMA SdServe ==
    ASSUME SdConstants, SdInv, NEW a, NEW b, SD!ServeReply(a, b) \/ SD!ServeStatus(a, b)
    PROVE  SdInv'
<1>1. UNCHANGED <<activeTab, shown, cached, loads, active, detail, loadingDetail, opens, replyText, overtaken, raise>>
  BY DEF SD!ServeReply, SD!ServeStatus, SD!listVars, SD!raiseVars
<1>2. SdServer' /\ SdGrown
  <2>1. CASE UNCHANGED <<tickets, reopened>>
    BY <2>1 DEF SdInv, SdServer, SdGrown, SD!OpenFor, SD!Exists
  <2>2. CASE SD!ServeReply(a, b) /\ ~UNCHANGED <<tickets, reopened>>
    <3>1. SD!Replied(send.of, ~IsStaff) /\ SdThere(send.of)
      BY <2>2 DEF SD!ServeReply, SdInv, SdTalk
    <3> QED BY <3>1, SdReplied DEF SdInv, SdThere
  <2>3. CASE SD!ServeStatus(a, b) /\ ~UNCHANGED <<tickets, reopened>>
    <3>1. tickets' = [tickets EXCEPT ![status.of].status = status.seen] /\ reopened' = reopened /\ SdThere(status.of)
          /\ status.seen \in {"RESOLVED", "CLOSED"}
      BY <2>3 DEF SD!ServeStatus, SdInv, SdTalk
    <3> QED BY <3>1, SdSettled DEF SdInv, SdThere
  <2> QED BY <2>1, <2>2, <2>3
<1>3. \E x \in {"answered", "failed"} : \/ send' = [send EXCEPT !.at = x] /\ send.at # "idle" /\ status' = status
                                        \/ status' = [status EXCEPT !.at = x] /\ status.at # "idle" /\ send' = send
  BY DEF SD!ServeReply, SD!ServeStatus
<1>4. /\ send' \in SdAsked /\ status' \in SdAsked /\ send'.of = send.of /\ status'.of = status.of
      /\ send'.seen = send.seen /\ status'.seen = status.seen
      /\ (send'.at = "idle" <=> send.at = "idle") /\ (status'.at = "idle" <=> status.at = "idle")
  BY <1>3 DEF SdInv, SdTalk, SdAsked
<1>5. SdTalk'
  BY <1>1, <1>2, <1>4 DEF SdInv, SdTalk, SdGrown, SdThere
<1>6. SdFits'
  BY <1>1, <1>4 DEF SdInv, SdFits, SdQuiet
<1> QED BY <1>1, <1>2, <1>5, <1>6, SdKept DEF SdInv, SdRaise

\* The answers: a reply, a status, shown in the conversation of their ticket.
LEMMA SdAnswer ==
    ASSUME SdConstants, SdInv,
           SD!ReplyFailed \/ \E l \in Loads : SD!ReplyAnswered(l) \/ SD!StatusAnswered(l)
    PROVE  SdInv'
<1>1. UNCHANGED <<tickets, reopened, activeTab, active, loadingDetail, opens, overtaken, raise>>
  <2>1. CASE SD!ReplyFailed
    BY <2>1 DEF SD!ReplyFailed, SD!serverVars, SD!raiseVars
  <2>2. ASSUME NEW l \in Loads, SD!ReplyAnswered(l)
        PROVE  UNCHANGED <<tickets, reopened, activeTab, active, loadingDetail, opens, overtaken, raise>>
    BY <2>2 DEF SD!ReplyAnswered, SD!serverVars, SD!raiseVars
  <2>3. ASSUME NEW l \in Loads, SD!StatusAnswered(l)
        PROVE  UNCHANGED <<tickets, reopened, activeTab, active, loadingDetail, opens, overtaken, raise>>
    <3>1. UNCHANGED <<SD!serverVars, activeTab, active, loadingDetail, opens, opened, replyText, send, overtaken, raise, create>>
      BY <2>3 DEF SD!StatusAnswered, SD!raiseVars
    <3> QED BY <3>1 DEF SD!serverVars
  <2> QED BY <2>1, <2>2, <2>3
<1>2. SD!NotAsked \in SdAsked /\ SD!NotAsked.at = "idle"
  BY DEF SD!NotAsked, SdAsked
<1>3. \/ detail' = detail
      \/ send.at # "idle" /\ detail' = SD!AsRead(send.of)
      \/ status.at # "idle" /\ detail' = SD!AsRead(status.of)
  BY DEF SD!ReplyFailed, SD!ReplyAnswered, SD!StatusAnswered
<1>4. (send' = SD!NotAsked \/ send' = send) /\ (status' = SD!NotAsked \/ status' = status)
  BY DEF SD!ReplyFailed, SD!ReplyAnswered, SD!StatusAnswered
<1>5. replyText' \in BOOLEAN
  BY DEF SD!ReplyFailed, SD!ReplyAnswered, SD!StatusAnswered, SD!ReplyOnFailure, SD!ReplyStays, SdInv, SdTalk
<1>6. SdList'
  <2>1. CASE UNCHANGED <<shown, loads>> /\ (cached' = cached \/ cached' = SD!NothingCached)
    BY <1>1, <2>1 DEF SdInv, SdList, SdThere, SD!NothingCached, SD!Exists
  <2>2. ASSUME NEW l \in Loads, NEW tb \in SD!StatusTabs, SD!FetchTickets(tb, l), SD!CacheDropped PROVE SdList'
    BY <1>1, <2>2, SdFetched DEF SD!CacheDropped, SdInv, SdList
  <2>3. \/ UNCHANGED <<shown, loads>> /\ (SD!CacheDropped \/ UNCHANGED cached)
        \/ SD!CacheDropped /\ send.at # "idle" /\ \E l \in Loads : SD!FetchTickets(send.seen, l)
        \/ SD!CacheDropped /\ \E l \in Loads : SD!FetchTickets(activeTab, l)
    BY DEF SD!ReplyFailed, SD!ReplyAnswered, SD!StatusAnswered, SD!CacheMayDrop
  <2> QED BY <2>1, <2>2, <2>3 DEF SdInv, SdTalk, SdList, SD!CacheDropped
<1>7. SdTalk'
  BY <1>1, <1>2, <1>4, <1>5 DEF SdInv, SdTalk, SdThere, SD!Exists
<1>8. SdFits'
  BY <1>1, <1>2, <1>3, <1>4, SdConstants DEF SdInv, SdTalk, SdFits, SdQuiet, SdThere, SD!AsRead, SdConstants
<1> QED BY <1>1, <1>6, <1>7, <1>8 DEF SdInv, SdServer, SdRaise, SD!OpenFor, SD!Exists

\* The form of a new ticket, and its way to the server.
LEMMA SdForm ==
    ASSUME SdConstants, SdInv,
           \/ SD!HandleOpenRaiseModal \/ SD!CloseRaise \/ SD!ResetCategories \/ SD!TypeTicket \/ SD!HandleCreateTicket
           \/ \E c \in Chips : SD!HandleSelectChip(c)
    PROVE  SdInv'
<1>1. UNCHANGED <<SD!serverVars, SD!listVars, SD!talkVars>>
  BY DEF SD!HandleOpenRaiseModal, SD!CloseRaise, SD!ResetCategories, SD!TypeTicket, SD!HandleCreateTicket, SD!HandleSelectChip
<1>2. SdRaise'
  <2>1. /\ SD!BlankForm \in SdForms
        /\ \A f \in SdForms, b \in BOOLEAN, c, d \in Chips \cup {None} :
               /\ [f EXCEPT !.awb = b] \in SdForms /\ [f EXCEPT !.text = b] \in SdForms
               /\ [f EXCEPT !.chip = c, !.subject = d] \in SdForms
    BY DEF SdForms, SD!BlankForm
  <2>2. /\ raise.form \in SdForms /\ raise.open \in BOOLEAN
        /\ \A b \in BOOLEAN, f \in SdForms : /\ [raise EXCEPT !.open = b] \in [open : BOOLEAN, form : SdForms]
                                            /\ [raise EXCEPT !.form = f] \in [open : BOOLEAN, form : SdForms]
                                            /\ [open |-> b, form |-> f] \in [open : BOOLEAN, form : SdForms]
    BY DEF SdInv, SdRaise
  <2>3. CASE SD!HandleOpenRaiseModal \/ SD!CloseRaise \/ SD!ResetCategories \/ SD!HandleCreateTicket
    BY <2>1, <2>2, <2>3 DEF SD!HandleOpenRaiseModal, SD!CloseRaise, SD!ResetCategories, SD!HandleCreateTicket, SdInv, SdRaise
  <2>4. CASE SD!TypeTicket
    <3>1. (~raise.form.awb) \in BOOLEAN
      OBVIOUS
    <3>2. PICK b \in BOOLEAN : \/ raise' = [raise EXCEPT !.form.awb = b]
                               \/ raise' = [raise EXCEPT !.form.text = b]
      BY <2>4, <3>1 DEF SD!TypeTicket
    <3>3. \/ raise' = [raise EXCEPT !.form = [raise.form EXCEPT !.awb = b]]
          \/ raise' = [raise EXCEPT !.form = [raise.form EXCEPT !.text = b]]
      BY <3>2
    <3> QED BY <2>1, <2>2, <3>3 DEF SdRaise
  <2>5. ASSUME NEW c \in Chips, SD!HandleSelectChip(c) PROVE SdRaise'
    <3>1. raise' = [raise EXCEPT !.form.chip = c, !.form.subject = SD!SubjectAfter(c)] /\ SD!SubjectAfter(c) \in Chips \cup {None}
      BY <2>5 DEF SD!HandleSelectChip, SD!SubjectAfter, SdInv, SdRaise, SdForms
    <3>2. raise' = [raise EXCEPT !.form = [raise.form EXCEPT !.chip = c, !.subject = SD!SubjectAfter(c)]]
      BY <3>1, <2>2
    <3> QED BY <2>1, <2>2, <3>1, <3>2 DEF SdRaise
  <2> QED BY <2>3, <2>4, <2>5
<1> QED BY <1>1, <1>2 DEF SdInv, SdServer, SdList, SdTalk, SdFits, SdQuiet, SdThere, SD!OpenFor, SD!Exists,
        SD!serverVars, SD!listVars, SD!talkVars

LEMMA SdCreate ==
    ASSUME SdConstants, SdInv,
           \/ SD!CreateFailed \/ \E l \in Loads : SD!CreateAnswered(l)
           \/ \E a, b \in BOOLEAN : SD!ServeCreate(a, b)
    PROVE  SdInv'
<1>1. UNCHANGED <<reopened, SD!talkVars>>
  BY DEF SD!CreateFailed, SD!CreateAnswered, SD!ServeCreate, SD!serverVars
<1>2. SdServer' /\ SdGrown
  <2>1. CASE tickets' = tickets
    BY <1>1, <2>1 DEF SdInv, SdServer, SdGrown, SD!OpenFor, SD!Exists
  <2>2. CASE tickets' # tickets
    <3>1. PICK t \in Tickets : ~SD!Exists(t) /\ tickets' = [tickets EXCEPT ![t] = [status |-> "OPEN", awb |-> SD!AwbOf(create.of)]]
                               /\ SD!NoOpenTicket(SD!AwbOf(create.of))
      BY <2>2 DEF SD!CreateFailed, SD!CreateAnswered, SD!ServeCreate, SD!serverVars, SD!MayRaise
    <3> DEFINE stored == [status |-> "OPEN", awb |-> SD!AwbOf(create.of)]
    <3>2. stored \in SdRows /\ stored.awb = SD!AwbOf(create.of) /\ stored # None
      BY DEF SdRows, SD!AwbOf, SD!StatusTabs, SdConstants
    <3> HIDE DEF stored
    <3>3. tickets' = [tickets EXCEPT ![t] = stored]
      BY <3>1 DEF stored
    <3>4. /\ tickets' \in [Tickets -> SdRows \cup {None}] /\ SdGrown
          /\ tickets'[t] = stored /\ \A u \in Tickets : u # t => tickets'[u] = tickets[u]
      BY <3>2, <3>3 DEF SdInv, SdServer, SdGrown, SD!Exists
    <3>5. CASE SD!AwbOf(create.of) = "a"
      <4>1. SD!OpenFor("a")' \subseteq {t}
        BY <3>1, <3>4, <3>5 DEF SD!NoOpenTicket, SD!OpenFor, SD!Exists, SdConstants
      <4>2. Cardinality(SD!OpenFor("a")') <= 1 /\ Cardinality(SD!OpenFor("a")') \in Nat
        <5>1. IsFiniteSet({t}) /\ Cardinality({t}) = 1
          BY FS_Singleton
        <5> QED BY <4>1, <5>1, FS_Subset, FS_CardinalityType
      <4> QED BY <1>1, <3>4, <4>2 DEF SdInv, SdServer
    <3>6. CASE SD!AwbOf(create.of) # "a"
      <4>1. SD!OpenFor("a")' = SD!OpenFor("a")
        BY <3>1, <3>2, <3>4, <3>6 DEF SD!OpenFor, SD!Exists
      <4> QED BY <1>1, <3>4, <4>1 DEF SdInv, SdServer
    <3> QED BY <3>5, <3>6
  <2> QED BY <2>1, <2>2
<1>3. SdList'
  <2>1. CASE UNCHANGED SD!listVars
    BY <1>2, <2>1, SdKept DEF SD!listVars
  <2>2. CASE SD!CreateFailed
    <3>1. UNCHANGED <<tickets, activeTab, shown, loads>> /\ (cached' = cached \/ cached' = SD!NothingCached)
      BY <2>2 DEF SD!CreateFailed, SD!serverVars, SD!CacheMayDrop, SD!CacheDropped
    <3> QED BY <3>1 DEF SdInv, SdList, SdThere, SD!NothingCached, SD!Exists
  <2>3. ASSUME NEW l \in Loads, SD!CreateAnswered(l) PROVE SdList'
    <3>1. tickets' = tickets /\ activeTab' = "OPEN" /\ SD!FetchTickets("OPEN", l)
          /\ (cached' = cached \/ cached' = SD!NothingCached) /\ "OPEN" \in SD!StatusTabs
      BY <2>3 DEF SD!CreateAnswered, SD!serverVars, SD!CacheDropped, SD!StatusTabs
    <3> QED BY <3>1, SdFetched
  <2> QED BY <2>1, <2>2, <2>3 DEF SD!ServeCreate
<1>4. SdRaise'
  <2>1. raise' = raise \/ raise' = [open |-> FALSE, form |-> SD!BlankForm]
    BY DEF SD!CreateFailed, SD!CreateAnswered, SD!ServeCreate
  <2>2. SD!BlankForm \in SdForms
    BY DEF SdForms, SD!BlankForm
  <2>3. [open |-> FALSE, form |-> SD!BlankForm] \in [open : BOOLEAN, form : SdForms]
    BY <2>2
  <2> QED BY <2>1, <2>3 DEF SdInv, SdRaise
<1>5. SdTalk' /\ SdFits'
  BY <1>1, <1>2 DEF SdInv, SdTalk, SdFits, SdQuiet, SdThere, SdGrown, SD!talkVars
<1> QED BY <1>2, <1>3, <1>4, <1>5 DEF SdInv

LEMMA SdStep == SdConstants /\ SdInv /\ [SD!Next]_(SD!vars) => SdInv'
<1> SUFFICES ASSUME SdConstants, SdInv, [SD!Next]_(SD!vars) PROVE SdInv'
  OBVIOUS
<1>1. CASE UNCHANGED SD!vars
  BY <1>1 DEF SD!vars, SdInv, SdServer, SdList, SdTalk, SdFits, SdRaise, SdQuiet, SdThere, SD!OpenFor, SD!Exists
<1>2. CASE SD!Next
  BY <1>2, SdOthers, SdRowsRead, SdOpened, SdClosed, SdAsk, SdServe, SdAnswer, SdForm, SdCreate DEF SD!Next
<1> QED BY <1>1, <1>2

\* At every moment, of any tickets and for either kind of user, an AWB has one open ticket and at most
\* one more for each reply that opened a resolved one again, however often a lost answer makes Submit
\* be pressed again; and unless a conversation was closed with an answer for it on its way, the one in
\* view is that of the ticket opened, so that a reply or a status goes to the ticket it was meant for.
THEOREM OneOpenTicket ==
    ASSUME SdConstants
    PROVE  SD!Spec => [](SD!TypeOK /\ SD!OncePerIntent /\ SD!ActedAsShown)
<1>1. SdInv => SD!TypeOK
  BY DEF SdInv, SdServer, SdList, SdTalk, SdRaise, SdRows, SdForms, SD!TypeOK, SD!Exists
<1>2. SdInv => SD!OncePerIntent
  BY SdCounts DEF SdInv, SdServer, SD!OncePerIntent
<1>3. SdInv => SD!ActedAsShown
  BY DEF SdInv, SdFits, SD!ActedAsShown
<1> QED BY <1>1, <1>2, <1>3, SdInit, SdStep, PTL DEF SD!Spec

\* No failure takes what was typed, and no reply of a merchant opens a closed ticket again.
THEOREM TicketTypingKept ==
    ASSUME SdConstants
    PROVE  SD!Spec => [][SD!KeepsTyping]_(SD!vars)
<1>1. SdInv /\ [SD!Next]_(SD!vars) => [SD!KeepsTyping]_(SD!vars)
  <2> SUFFICES ASSUME SdInv, SD!Next PROVE SD!KeepsTyping
    OBVIOUS
  <2>1. (told' = "failed" /\ told # "failed") => UNCHANGED <<replyText, raise>>
    BY SdConstants DEF SdConstants, SD!Next, SD!OthersAct, SD!CloseConversation, SD!WriteReply, SD!HandleSendReply, SD!ReplyFailed,
       SD!HandleOpenRaiseModal, SD!CloseRaise, SD!ResetCategories, SD!TypeTicket, SD!HandleCreateTicket, SD!CreateFailed,
       SD!HandleSelectChip, SD!HandleUpdateTicketStatus, SD!SetActiveTab, SD!ListAnswered, SD!ReplyAnswered, SD!StatusAnswered,
       SD!CreateAnswered, SD!OpenAnswered, SD!OpenTicketConversation, SD!ServeList, SD!ServeOpen, SD!ServeReply, SD!ServeStatus,
       SD!ServeCreate, SD!ReplyOnFailure, SD!ReplyStays, SD!talkVars, SD!raiseVars
  <2>2. ASSUME NEW t \in Tickets, SD!Exists(t), tickets[t].status = "CLOSED", status.at # "going"
        PROVE  tickets'[t].status # "OPEN"
    <3>1. CASE tickets'[t] = tickets[t]
      BY <2>2, <3>1
    <3>2. CASE tickets'[t] # tickets[t]
      <4>1. \/ SD!OthersAct \/ \E a, b \in BOOLEAN : SD!ServeReply(a, b) \/ SD!ServeCreate(a, b)
        BY <2>2, <3>2 DEF SD!Next, SD!OthersAct, SD!CloseConversation, SD!WriteReply, SD!HandleSendReply, SD!ReplyFailed,
           SD!HandleOpenRaiseModal, SD!CloseRaise, SD!ResetCategories, SD!TypeTicket, SD!HandleCreateTicket, SD!CreateFailed,
           SD!HandleSelectChip, SD!HandleUpdateTicketStatus, SD!SetActiveTab, SD!ListAnswered, SD!ReplyAnswered, SD!StatusAnswered,
           SD!CreateAnswered, SD!OpenAnswered, SD!OpenTicketConversation, SD!ServeList, SD!ServeOpen, SD!ServeStatus, SD!serverVars
      <4>2. ~\E a, b \in BOOLEAN : SD!ServeCreate(a, b)
        BY <2>2, <3>2 DEF SD!ServeCreate, SdInv, SdServer
      <4>3. \/ \E u \in Tickets : \E m : SD!Exists(u) /\ SD!MayReply(u, m) /\ SD!Replied(u, m)
            \/ \E u \in Tickets : \E s \in SD!StatusTabs \ {"OPEN"} : SD!Exists(u) /\ tickets' = [tickets EXCEPT ![u].status = s]
        BY <2>2, <3>2, <4>1, <4>2 DEF SD!OthersAct, SD!ServeReply, SdInv, SdTalk, SdThere
      <4>4. \E u \in Tickets : \E s : /\ SD!Exists(u) /\ tickets' = [tickets EXCEPT ![u].status = s]
                                      /\ s # "OPEN" \/ tickets[u].status # "CLOSED"
        BY <4>3 DEF SD!MayReply, SD!ReplyUnlessClosed, SD!Replied, SD!AfterReply
      <4> QED BY <2>2, <3>2, <4>4 DEF SdInv, SdServer, SdRows, SD!Exists
    <3> QED BY <3>1, <3>2
  <2> QED BY <2>1, <2>2 DEF SD!KeepsTyping
<1> QED BY <1>1, SdInit, SdStep, PTL DEF SD!Spec

-----------------------------------------------------------------------------
(* The people of a workspace: between a save's read and its write nobody but   *)
(* the save itself can make user 2 the Owner.                                   *)

CONSTANTS Uses
VARIABLES row, actor, users, statusFilter, modal, save, act
TM == INSTANCE Team

TmContacts == {"old", "mine", "theirs"}
TmPersons == [role : TM!Roles, active : BOOLEAN, contact : TmContacts, scope : TM!Scopes,
              b2b : {"PENDING", "APPROVED", "REJECTED"}]
TmTeams == [TM!Users -> TmPersons]
TmRequests == [role : TM!Roles \cup {None}, active : BOOLEAN \cup {None}, contact : TmContacts \cup {None},
               scope : TM!Scopes \cup {None}]
TmReads == [at : {"idle", "going", "read"}, rows : TmTeams \cup {None}]
TmModals == [of : TM!Users, shown : TmPersons, role : TM!Roles, active : BOOLEAN, scope : TM!Scopes,
             contact : TmContacts, confirmed : BOOLEAN, ticked : BOOLEAN]
TmSaves == [of : TM!Users, shown : TmPersons, request : TmRequests, transfers : BOOLEAN, ticked : BOOLEAN,
            by : TM!Roles, read : TmPersons \cup {None}, at : {"going", "read", "answered", "failed"}]
TmActs == [of : TM!Users, kind : {"review", "scope", "active"}, request : TmRequests, approve : BOOLEAN,
           at : {"going", "answered", "failed"}]

\* A workspace has one Owner at most.
TmConstants ==
    /\ \A r \in Starts : r \in TmTeams /\ (r[1].role = "OWNER" => r[2].role # "OWNER")
    /\ None \notin TM!Roles /\ None \notin TmModals /\ None \notin TmSaves /\ None \notin TmActs

TmServer == row \in TmTeams
TmList ==
    /\ users \in TmTeams \/ DOMAIN users = {}
    /\ statusFilter \in {"ALL", "ACTIVE"} /\ actor \in TM!Roles
    /\ loads \in [Loads -> TmReads] /\ \A m \in Loads : loads[m].at = "read" => loads[m].rows \in TmTeams
TmForms == modal \in TmModals \cup {None} /\ save \in TmSaves \cup {None} /\ act \in TmActs \cup {None}

\* The row mutations name no role, the dialog always one.
TmRequested ==
    /\ act # None => act.request.role = None
    /\ save # None => save.request.role # None

\* What is chosen in the dialog, and what was chosen for a request, was offered.
TmOffered(by, u, sh, r, a) ==
    /\ r = sh.role \/ r \in TM!OfferedRoles(by, u, sh)
    /\ a = sh.active \/ ~TM!StatusLocked(by, u, sh)
TmChosen ==
    /\ modal # None => modal.confirmed = modal.ticked /\ TmOffered(actor, modal.of, modal.shown, modal.role, modal.active)
    /\ save # None => /\ save.transfers => save.ticked /\ save.request.role = "OWNER"
                      /\ TmOffered(save.by, save.of, save.shown, save.request.role, save.request.active)

\* A row read to be written: its own role is not the viewer's to change, an Owner stays one, and user 2
\* has not become the Owner since.
TmReadRow ==
    save # None /\ save.at = "read" =>
        /\ save.read \in TmPersons
        /\ save.of = 1 => save.request.role = save.read.role
        /\ save.read.role = "OWNER" => save.request.role = "OWNER"
        /\ save.of = 2 /\ save.read.role # "OWNER" => row[2].role # "OWNER"

TmInv == TmServer /\ TmList /\ TmForms /\ TmRequested /\ TmChosen /\ TmReadRow /\ TM!OncePerIntent

LEMMA TmPerson ==
    ASSUME NEW now \in TmPersons, NEW r \in TmPersons, NEW p \in TmRequests
    PROVE  /\ TM!Edited(now, r, p) \in TmPersons
           /\ TM!Edited(now, r, p).role = IF p.role = None \/ p.role = r.role THEN now.role ELSE p.role
<1> DEFINE q == TM!Or(p.role, r.role)
           s == IF q # "CUSTOMER" THEN "BOTH" ELSE TM!Or(p.scope, r.scope)
<1>1. q \in TM!Roles /\ (q # r.role => q = p.role) /\ (q = r.role <=> p.role = None \/ p.role = r.role)
  BY DEF TM!Or, TmPersons, TmRequests
<1>2. s \in TM!Scopes
  BY DEF TM!Or, TmPersons, TmRequests, TM!Scopes
<1>3. (IF TM!Or(p.active, r.active) = r.active THEN now.active ELSE p.active) \in BOOLEAN
  BY DEF TM!Or, TmPersons, TmRequests
<1>4. (IF TM!Or(p.contact, r.contact) = r.contact THEN now.contact ELSE p.contact) \in TmContacts
  BY DEF TM!Or, TmPersons, TmRequests
<1>5. now.role \in TM!Roles /\ now.scope \in TM!Scopes /\ now.b2b \in {"PENDING", "APPROVED", "REJECTED"}
  BY DEF TmPersons
<1>6. TM!Edited(now, r, p) =
          [role |-> IF q = r.role THEN now.role ELSE q, scope |-> IF s = r.scope THEN now.scope ELSE s,
           active |-> IF TM!Or(p.active, r.active) = r.active THEN now.active ELSE p.active,
           contact |-> IF TM!Or(p.contact, r.contact) = r.contact THEN now.contact ELSE p.contact,
           b2b |-> IF s = "BOTH" THEN "APPROVED" ELSE now.b2b]
  BY DEF TM!Edited
<1> HIDE DEF q, s
<1>7. TM!Edited(now, r, p) \in TmPersons
  BY <1>1, <1>2, <1>3, <1>4, <1>5, <1>6 DEF TmPersons
<1>8. TM!Edited(now, r, p).role = IF q = r.role THEN now.role ELSE q
  BY <1>6
<1> QED BY <1>1, <1>7, <1>8

LEMMA TmReview ==
    ASSUME NEW r \in TmPersons, NEW a \in BOOLEAN
    PROVE  TM!Reviewed(r, a) \in TmPersons /\ TM!Reviewed(r, a).role = r.role
BY DEF TM!Reviewed, TmPersons, TM!Scopes

\* The rows after a change that names a role only for user 2.
LEMMA TmUpdate ==
    ASSUME TmConstants, TmServer, NEW u \in TM!Users, NEW r \in TmPersons, NEW p \in TmRequests,
           p.role # None => u = 2 \/ p.role = r.role
    PROVE  /\ TM!Updated(u, r, p) \in TmTeams
           /\ p.role = None \/ p.role = r.role => \A x \in TM!Users : TM!Updated(u, r, p)[x].role = row[x].role
           /\ p.role # None /\ p.role # r.role =>
                 /\ TM!Updated(u, r, p)[2].role = p.role
                 /\ TM!Updated(u, r, p)[1].role = IF p.role = "OWNER" THEN "ADMIN" ELSE row[1].role
<1> DEFINE e == TM!Edited(row[u], r, p)
           rows == [row EXCEPT ![u] = e]
<1>1. /\ e \in TmPersons
      /\ e.role = IF p.role = None \/ p.role = r.role THEN row[u].role ELSE p.role
  <2>1. row[u] \in TmPersons
    BY DEF TmServer, TmTeams
  <2> DEFINE now == row[u]
  <2>2. now \in TmPersons
    BY <2>1
  <2> HIDE DEF now
  <2>3. /\ TM!Edited(now, r, p) \in TmPersons
        /\ TM!Edited(now, r, p).role = IF p.role = None \/ p.role = r.role THEN now.role ELSE p.role
    BY <2>2, TmPerson
  <2> QED BY <2>3 DEF now
<1> HIDE DEF e
<1>2. rows \in TmTeams /\ \A x \in TM!Users : rows[x].role = IF x = u THEN e.role ELSE row[x].role
  BY <1>1 DEF TmServer, TmTeams
<1>3. TM!Updated(u, r, p) = IF p.role = "OWNER" /\ r.role # "OWNER" /\ u # 1 THEN [rows EXCEPT ![1].role = "ADMIN"] ELSE rows
  BY DEF TM!Updated, TM!AfterTransfer, TM!OwnerSteps, e
<1> HIDE DEF rows
<1>4. /\ [rows EXCEPT ![1].role = "ADMIN"] \in TmTeams
      /\ [rows EXCEPT ![1].role = "ADMIN"][1].role = "ADMIN"
      /\ [rows EXCEPT ![1].role = "ADMIN"][2].role = rows[2].role
  BY <1>2 DEF TmTeams, TmPersons, TM!Users, TM!Roles
<1>5. u = 1 \/ u = 2
  BY DEF TM!Users
<1>6. rows[1].role = (IF u = 1 THEN e.role ELSE row[1].role) /\ rows[2].role = (IF u = 2 THEN e.role ELSE row[2].role)
  BY <1>2 DEF TM!Users
<1>7. CASE p.role = None \/ p.role = r.role
  <2>1. ~(p.role = "OWNER" /\ r.role # "OWNER")
    BY <1>7 DEF TmConstants, TM!Roles
  <2>2. e.role = row[u].role
    BY <1>1, <1>7
  <2>3. TM!Updated(u, r, p) = rows
    BY <1>3, <2>1
  <2> QED BY <1>2, <1>7, <2>2, <2>3 DEF TM!Users
<1>8. CASE p.role # None /\ p.role # r.role
  <2>1. u = 2 /\ e.role = p.role
    BY <1>1, <1>8
  <2> QED BY <1>2, <1>3, <1>4, <1>5, <1>6, <1>8, <2>1
<1> QED BY <1>7, <1>8

LEMMA TmInit == TmConstants /\ TM!Init => TmInv
<1> SUFFICES ASSUME TmConstants, TM!Init PROVE TmInv
  OBVIOUS
<1>1. row \in TmTeams /\ row \in Starts /\ actor = row[1].role /\ (row[1].role = "OWNER" => row[2].role # "OWNER")
  BY DEF TM!Init, TmConstants
<1>2. loads \in [Loads -> TmReads] /\ \A m \in Loads : loads[m].at # "read"
  BY DEF TM!Init, TM!Idle, TmReads
<1>3. TmServer /\ TmList
  BY <1>1, <1>2 DEF TM!Init, TmServer, TmList, TmTeams, TmPersons, TM!Users
<1>4. TmForms /\ TmRequested /\ TmChosen /\ TmReadRow
  BY DEF TM!Init, TmForms, TmRequested, TmChosen, TmReadRow
<1>5. TM!OncePerIntent
  BY <1>1 DEF TM!OncePerIntent
<1> QED BY <1>3, <1>4, <1>5 DEF TmInv

\* Other administrators make user 2 an Owner only by leaving them one.
LEMMA TmOthers ==
    ASSUME TmConstants, TmInv, TM!OthersAct
    PROVE  TmInv'
<1>1. UNCHANGED <<actor, users, statusFilter, loads, modal, save, act>>
  BY DEF TM!OthersAct, TM!listVars
<1>2. /\ row' \in TmTeams
      /\ row'[2].role = "OWNER" => row[2].role = "OWNER"
      /\ row'[1].role = "OWNER" => row'[2].role # "OWNER"
      /\ (row[1].role = "OWNER" \/ row[2].role = "OWNER") => (row'[1].role = "OWNER" \/ row'[2].role = "OWNER")
  <2>0. row \in TmTeams /\ row[2] \in TmPersons /\ (row[1].role = "OWNER" => row[2].role # "OWNER")
    BY DEF TmInv, TmServer, TmTeams, TM!Users, TM!OncePerIntent
  <2>1. CASE \E d \in BOOLEAN : row' = [row EXCEPT ![2] = TM!Reviewed(@, d)]
    BY <2>0, <2>1, TmReview DEF TmTeams, TM!Users
  <2>2. CASE \E f \in TM!Scopes : row' = [row EXCEPT ![2].scope = f]
    BY <2>0, <2>2 DEF TmTeams, TmPersons, TM!Users
  <2>3. CASE row' = [row EXCEPT ![2].active = ~@]
    BY <2>0, <2>3 DEF TmTeams, TmPersons, TM!Users
  <2>4. CASE row' = [row EXCEPT ![2].b2b = "PENDING"] \/ row' = [row EXCEPT ![2].contact = "theirs"]
    BY <2>0, <2>4 DEF TmTeams, TmPersons, TM!Users, TmContacts
  <2>5. CASE /\ row[1].role # "OWNER" /\ row[2].role # "OWNER"
             /\ \E q \in {"ADMIN", "STAFF"} : row' = [row EXCEPT ![2].role = q, ![2].scope = "BOTH"]
    <3>1. PICK q \in {"ADMIN", "STAFF"} : row' = [row EXCEPT ![2].role = q, ![2].scope = "BOTH"]
      BY <2>5
    <3>2. row' = [row EXCEPT ![2] = [row[2] EXCEPT !.role = q, !.scope = "BOTH"]]
      BY <2>0, <3>1 DEF TmTeams, TM!Users
    <3>3. [row[2] EXCEPT !.role = q, !.scope = "BOTH"] \in TmPersons /\ [row[2] EXCEPT !.role = q, !.scope = "BOTH"].role = q
      BY <2>0 DEF TmPersons, TM!Roles, TM!Scopes
    <3> QED BY <2>0, <2>5, <3>2, <3>3 DEF TmTeams, TM!Users
  <2>6. CASE /\ row[2].role = "OWNER"
             /\ \E q \in {"OWNER", "STAFF"} :
                   row' = [row EXCEPT ![1].role = q, ![2].role = IF q = "OWNER" THEN "ADMIN" ELSE "OWNER"]
    BY <2>0, <2>6 DEF TmTeams, TmPersons, TM!Users, TM!Roles
  <2> QED BY <2>1, <2>2, <2>3, <2>4, <2>5, <2>6 DEF TM!OthersAct
<1> QED BY <1>1, <1>2 DEF TmInv, TmServer, TmList, TmForms, TmRequested, TmChosen, TmReadRow, TM!OncePerIntent

\* The list and its reads.
LEMMA TmListed ==
    ASSUME TmConstants, TmInv,
           TM!SetStatusFilter \/ \E m \in Loads : TM!ReadUsers(m) \/ TM!UsersAnswered(m) \/ TM!UsersFail(m)
    PROVE  TmInv'
<1>1. UNCHANGED <<row, actor, modal, save, act>>
  BY DEF TM!SetStatusFilter, TM!ReadUsers, TM!UsersAnswered, TM!UsersFail, TM!serverVars, TM!ModalOnReload, TM!ModalKept
<1>2. TmList'
  <2>1. CASE TM!SetStatusFilter
    BY <1>1, <2>1 DEF TM!SetStatusFilter, TmInv, TmList
  <2>2. CASE \E m \in Loads : TM!ReadUsers(m)
    BY <1>1, <2>2 DEF TM!ReadUsers, TmInv, TmServer, TmList, TmReads
  <2>3. CASE \E m \in Loads : TM!UsersAnswered(m)
    BY <1>1, <2>3 DEF TM!UsersAnswered, TM!Idle, TmInv, TmList, TmReads
  <2>4. CASE \E m \in Loads : TM!UsersFail(m)
    BY <1>1, <2>4 DEF TM!UsersFail, TM!Idle, TmInv, TmList, TmReads
  <2> QED BY <2>1, <2>2, <2>3, <2>4
<1> QED BY <1>1, <1>2 DEF TmInv, TmServer, TmForms, TmRequested, TmChosen, TmReadRow, TM!OncePerIntent

\* The row mutations: what they send names no role.
LEMMA TmPressed ==
    ASSUME TmConstants, TmInv,
           TM!HandleReviewB2bRequest \/ TM!ChangeScopeQuick \/ TM!ToggleActiveQuick \/ TM!ActFailed
           \/ \E m \in Loads : TM!ActAnswered(m)
    PROVE  TmInv'
<1>1. UNCHANGED <<row, actor, users, statusFilter, modal, save>>
  BY DEF TM!HandleReviewB2bRequest, TM!ChangeScopeQuick, TM!ToggleActiveQuick, TM!ActFailed, TM!ActAnswered, TM!Press,
     TM!serverVars, TM!listVars
<1>2. TmList'
  <2>1. CASE \E m \in Loads : TM!ActAnswered(m)
    BY <1>1, <2>1 DEF TM!ActAnswered, TM!FetchUsers, TM!Idle, TmInv, TmList, TmReads
  <2>2. CASE TM!HandleReviewB2bRequest \/ TM!ChangeScopeQuick \/ TM!ToggleActiveQuick \/ TM!ActFailed
    BY <1>1, <2>2 DEF TM!HandleReviewB2bRequest, TM!ChangeScopeQuick, TM!ToggleActiveQuick, TM!ActFailed, TM!Press,
       TM!listVars, TmInv, TmList
  <2> QED BY <2>1, <2>2
<1>3. act' \in TmActs \cup {None} /\ (act' # None => act'.request.role = None)
  <2>1. \A u \in DOMAIN users : u \in TM!Users /\ users[u] \in TmPersons
    BY DEF TmInv, TmList, TmTeams
  <2>2. /\ TM!Same \in TmRequests /\ TM!Same.role = None
        /\ \A f \in TM!Scopes : [TM!Same EXCEPT !.scope = f] \in TmRequests /\ [TM!Same EXCEPT !.scope = f].role = None
        /\ \A b \in BOOLEAN : [TM!Same EXCEPT !.active = b] \in TmRequests /\ [TM!Same EXCEPT !.active = b].role = None
    BY DEF TM!Same, TmRequests
  <2>3. CASE TM!HandleReviewB2bRequest
    BY <2>1, <2>2, <2>3 DEF TM!HandleReviewB2bRequest, TM!Press, TmActs
  <2>4. CASE TM!ChangeScopeQuick
    <3>1. PICK u \in TM!FilteredUsers, f \in TM!Scopes : TM!Press(u, "scope", [TM!Same EXCEPT !.scope = f], FALSE)
      BY <2>4 DEF TM!ChangeScopeQuick
    <3>2. u \in TM!Users
      BY <2>1 DEF TM!FilteredUsers
    <3> QED BY <2>2, <3>1, <3>2 DEF TM!Press, TmActs
  <2>5. CASE TM!ToggleActiveQuick
    <3>1. PICK u \in TM!FilteredUsers : TM!Press(u, "active", [TM!Same EXCEPT !.active = ~users[u].active], FALSE)
      BY <2>5 DEF TM!ToggleActiveQuick
    <3>2. u \in TM!Users /\ (~users[u].active) \in BOOLEAN
      BY <2>1 DEF TM!FilteredUsers
    <3> QED BY <2>2, <3>1, <3>2 DEF TM!Press, TmActs
  <2>6. CASE TM!ActFailed \/ \E m \in Loads : TM!ActAnswered(m)
    BY <2>6 DEF TM!ActFailed, TM!ActAnswered
  <2> QED BY <2>3, <2>4, <2>5, <2>6
<1> QED BY <1>1, <1>2, <1>3 DEF TmInv, TmServer, TmForms, TmRequested, TmChosen, TmReadRow, TM!OncePerIntent

\* A served row mutation leaves every role alone.
LEMMA TmServedAct ==
    ASSUME TmConstants, TmInv, NEW a \in BOOLEAN, NEW b \in BOOLEAN, TM!ServeAct(a, b)
    PROVE  TmInv'
<1>1. UNCHANGED <<actor, users, statusFilter, loads, modal, save>>
  BY DEF TM!ServeAct, TM!listVars
<1>2. act \in TmActs /\ act.request.role = None
  BY DEF TM!ServeAct, TmInv, TmForms, TmRequested
<1>3. act' \in TmActs /\ act'.request.role = None
  BY <1>2 DEF TM!ServeAct, TmActs
<1>4. row' \in TmTeams /\ \A x \in TM!Users : row'[x].role = row[x].role
  <2> DEFINE u == act.of
  <2>1. u \in TM!Users /\ row[u] \in TmPersons /\ act.request \in TmRequests /\ act.approve \in BOOLEAN
    BY <1>2 DEF TmActs, TmInv, TmServer, TmTeams
  <2>2. \/ row' = row
        \/ row' = [row EXCEPT ![u] = TM!Reviewed(@, act.approve)]
        \/ row' = TM!Updated(u, row[u], act.request)
    BY DEF TM!ServeAct
  <2> HIDE DEF u
  <2>3. CASE row' = row
    BY <2>3 DEF TmInv, TmServer
  <2>4. CASE row' = [row EXCEPT ![u] = TM!Reviewed(@, act.approve)]
    BY <2>1, <2>4, TmReview DEF TmInv, TmServer, TmTeams
  <2>5. CASE row' = TM!Updated(u, row[u], act.request)
    BY <1>2, <2>1, <2>5, TmUpdate DEF TmInv
  <2> QED BY <2>2, <2>3, <2>4, <2>5
<1> QED BY <1>1, <1>2, <1>3, <1>4 DEF TmInv, TmServer, TmList, TmForms, TmRequested, TmChosen, TmReadRow, TM!OncePerIntent,
       TM!Users

\* The dialog: a choice is one that is offered, and asks for the confirmation again.
LEMMA TmDialog ==
    ASSUME TmConstants, TmInv,
           \/ TM!OpenEditModal \/ TM!ChooseRole \/ TM!SetIsActiveInput \/ TM!SetScopeInput \/ TM!TypeContact
           \/ TM!SetTransferConfirmed \/ TM!CloseModal
    PROVE  TmInv'
<1>1. UNCHANGED <<row, actor, users, statusFilter, loads, save, act>>
  BY DEF TM!OpenEditModal, TM!ChooseRole, TM!SetIsActiveInput, TM!SetScopeInput, TM!TypeContact, TM!SetTransferConfirmed,
     TM!CloseModal, TM!Type, TM!serverVars, TM!listVars
<1>2. /\ modal' \in TmModals \cup {None}
      /\ modal' # None => modal'.confirmed = modal'.ticked
                          /\ TmOffered(actor, modal'.of, modal'.shown, modal'.role, modal'.active)
  <2>1. CASE TM!OpenEditModal
    <3>1. PICK u \in TM!FilteredUsers :
              modal' = [of |-> u, shown |-> users[u], role |-> users[u].role, active |-> users[u].active,
                        scope |-> users[u].scope, contact |-> users[u].contact, confirmed |-> FALSE, ticked |-> FALSE]
      BY <2>1 DEF TM!OpenEditModal
    <3>2. u \in TM!Users /\ users[u] \in TmPersons
      BY DEF TM!FilteredUsers, TmInv, TmList, TmTeams
    <3>3. modal' \in TmModals
      BY <3>1, <3>2 DEF TmModals, TmPersons
    <3> QED BY <3>1, <3>3 DEF TmOffered
  <2>2. ASSUME modal \in TmModals,
               modal.confirmed = modal.ticked /\ TmOffered(actor, modal.of, modal.shown, modal.role, modal.active),
               \/ TM!ChooseRole \/ TM!SetIsActiveInput \/ TM!SetScopeInput \/ TM!TypeContact \/ TM!SetTransferConfirmed
        PROVE  /\ modal' \in TmModals /\ modal'.confirmed = modal'.ticked
               /\ TmOffered(actor, modal'.of, modal'.shown, modal'.role, modal'.active)
    <3>1. CASE TM!ChooseRole
      <4>1. PICK q \in TM!OfferedRoles(actor, modal.of, modal.shown) \cup {modal.role} :
                modal' = [modal EXCEPT !.role = q, !.confirmed = FALSE, !.ticked = FALSE,
                                       !.scope = IF q = "CUSTOMER" THEN "B2C" ELSE "BOTH"]
        BY <3>1 DEF TM!ChooseRole, TM!Type, TM!TickOnChoice, TM!TickGone
      <4>2. q \in TM!Roles
        BY <2>2 DEF TM!OfferedRoles, TM!PolicyRoles, TmModals
      <4>3. modal' \in TmModals /\ modal'.confirmed = modal'.ticked
        BY <2>2, <4>1, <4>2 DEF TmModals, TM!Scopes
      <4>4. modal'.of = modal.of /\ modal'.shown = modal.shown /\ modal'.role = q /\ modal'.active = modal.active
        BY <2>2, <4>1 DEF TmModals
      <4> QED BY <2>2, <4>3, <4>4 DEF TmOffered
    <3>2. CASE TM!SetIsActiveInput
      <4>1. ~TM!StatusLocked(actor, modal.of, modal.shown) /\ modal' = [modal EXCEPT !.active = ~@]
        BY <3>2 DEF TM!SetIsActiveInput, TM!Type
      <4>2. modal' \in TmModals
        BY <2>2, <4>1 DEF TmModals
      <4>3. /\ modal'.of = modal.of /\ modal'.shown = modal.shown /\ modal'.role = modal.role
            /\ modal'.confirmed = modal.confirmed /\ modal'.ticked = modal.ticked
        BY <2>2, <4>1 DEF TmModals
      <4> QED BY <2>2, <4>1, <4>2, <4>3 DEF TmOffered
    <3>3. CASE TM!SetScopeInput \/ TM!TypeContact
      BY <2>2, <3>3 DEF TM!SetScopeInput, TM!TypeContact, TM!Type, TmModals, TmContacts
    <3>4. CASE TM!SetTransferConfirmed
      <4>1. modal' = [modal EXCEPT !.confirmed = ~@, !.ticked = ~@]
        BY <3>4 DEF TM!SetTransferConfirmed, TM!Type
      <4>2. modal' \in TmModals /\ modal'.confirmed = ~modal.confirmed /\ modal'.ticked = ~modal.ticked
        BY <2>2, <4>1 DEF TmModals
      <4>3. modal'.of = modal.of /\ modal'.shown = modal.shown /\ modal'.role = modal.role /\ modal'.active = modal.active
        BY <2>2, <4>1 DEF TmModals
      <4> QED BY <2>2, <4>2, <4>3
    <3> QED BY <2>2, <3>1, <3>2, <3>3, <3>4
  <2>3. CASE TM!CloseModal
    BY <2>3 DEF TM!CloseModal
  <2>4. TM!OpenEditModal \/ TM!CloseModal \/ modal # None
    BY DEF TM!OpenEditModal, TM!ChooseRole, TM!SetIsActiveInput, TM!SetScopeInput, TM!TypeContact, TM!SetTransferConfirmed
  <2> QED BY <2>1, <2>2, <2>3, <2>4 DEF TmInv, TmForms, TmChosen
<1> QED BY <1>1, <1>2 DEF TmInv, TmServer, TmList, TmForms, TmRequested, TmChosen, TmReadRow, TM!OncePerIntent

\* What is sent is what the dialog holds.
LEMMA TmSent ==
    ASSUME TmConstants, TmInv, TM!HandleSaveUserModal
    PROVE  TmInv'
<1>1. UNCHANGED <<row, actor, users, statusFilter, loads, modal, act>> /\ modal \in TmModals /\ actor \in TM!Roles
  BY DEF TM!HandleSaveUserModal, TM!serverVars, TM!listVars, TmInv, TmForms, TmList
<1>2. /\ save' = [of |-> modal.of, shown |-> modal.shown, request |-> TM!Payload(modal), transfers |-> TM!PendingTransfer(modal),
                  ticked |-> modal.ticked, by |-> actor, read |-> None, at |-> "going"]
      /\ TM!PendingTransfer(modal) => modal.ticked
  BY DEF TM!HandleSaveUserModal, TmInv, TmChosen
<1>3. /\ TM!Payload(modal) \in TmRequests
      /\ TM!Payload(modal).role = modal.role /\ TM!Payload(modal).active = modal.active /\ modal.role \in TM!Roles
  BY <1>1 DEF TM!Payload, TmModals, TmRequests, TM!Scopes
<1>4. TM!PendingTransfer(modal) \in BOOLEAN /\ (TM!PendingTransfer(modal) => modal.role = "OWNER")
  BY DEF TM!PendingTransfer
<1>5. /\ save' \in TmSaves /\ save'.at = "going" /\ save'.request.role # None
      /\ save'.transfers => save'.ticked /\ save'.request.role = "OWNER"
      /\ save'.by = actor /\ save'.of = modal.of /\ save'.shown = modal.shown
      /\ save'.request.role = modal.role /\ save'.request.active = modal.active
  BY <1>1, <1>2, <1>3, <1>4 DEF TmSaves, TmModals, TmConstants
<1> QED BY <1>1, <1>5 DEF TmInv, TmServer, TmList, TmForms, TmRequested, TmChosen, TmReadRow, TM!OncePerIntent, TmConstants

LEMMA TmServedRead ==
    ASSUME TmConstants, TmInv, NEW a \in BOOLEAN, TM!ServeSaveRead(a)
    PROVE  TmInv'
<1>1. UNCHANGED <<row, actor, users, statusFilter, loads, modal, act>> /\ save \in TmSaves
  BY DEF TM!ServeSaveRead, TM!serverVars, TM!listVars, TmInv, TmForms
<1> DEFINE r == row[save.of]
<1>2. r \in TmPersons
  BY <1>1 DEF TmSaves, TmInv, TmServer, TmTeams
<1>3. \/ save' = [save EXCEPT !.at = "failed"]
      \/ save' = [save EXCEPT !.at = "read", !.read = r] /\ TM!OwnerRules(row[1].role, save.of, r, save.request)
  BY DEF TM!ServeSaveRead
<1>4. /\ save' \in TmSaves /\ save'.request = save.request /\ save'.of = save.of /\ save'.by = save.by
      /\ save'.shown = save.shown /\ save'.transfers = save.transfers /\ save'.ticked = save.ticked
      /\ save'.at = "read" => save'.read = r /\ TM!OwnerRules(row[1].role, save.of, r, save.request)
  BY <1>1, <1>2, <1>3 DEF TmSaves
<1>5. TmReadRow'
  BY <1>1, <1>2, <1>4 DEF TmReadRow, TM!OwnerRules, TmInv, TmRequested, TmConstants
<1> QED BY <1>1, <1>4, <1>5 DEF TmInv, TmServer, TmList, TmForms, TmRequested, TmChosen, TM!OncePerIntent, TmConstants

\* A save that hands the role over leaves user 2 the only Owner; any other leaves the Owner who is.
LEMMA TmServedWrite ==
    ASSUME TmConstants, TmInv, NEW a \in BOOLEAN, TM!ServeSaveWrite(a)
    PROVE  TmInv'
<1>1. UNCHANGED <<actor, users, statusFilter, loads, modal, act>> /\ save \in TmSaves /\ save # None /\ save.at = "read"
  BY DEF TM!ServeSaveWrite, TM!listVars, TmInv, TmForms
<1>2. /\ save' \in TmSaves /\ save'.request = save.request /\ save'.of = save.of /\ save'.by = save.by
      /\ save'.shown = save.shown /\ save'.transfers = save.transfers /\ save'.ticked = save.ticked /\ save'.at # "read"
  BY <1>1 DEF TM!ServeSaveWrite, TmSaves
<1> DEFINE u == save.of
           r == save.read
           p == save.request
<1>3. /\ u \in TM!Users /\ r \in TmPersons /\ p \in TmRequests /\ p.role # None
      /\ u = 1 => p.role = r.role
      /\ r.role = "OWNER" => p.role = "OWNER"
      /\ u = 2 /\ r.role # "OWNER" => row[2].role # "OWNER"
  BY <1>1 DEF TmSaves, TmInv, TmRequested, TmReadRow
<1>4. row' = TM!Updated(u, r, p)
  BY DEF TM!ServeSaveWrite
<1> HIDE DEF u, r, p
<1>5. /\ row' \in TmTeams
      /\ p.role = r.role => row'[1].role = row[1].role /\ row'[2].role = row[2].role
      /\ p.role # r.role => /\ row'[2].role = p.role
                           /\ row'[1].role = IF p.role = "OWNER" THEN "ADMIN" ELSE row[1].role
  BY <1>3, <1>4, TmUpdate DEF TmInv, TM!Users
<1>6. TM!OncePerIntent'
  BY <1>3, <1>5 DEF TmInv, TM!OncePerIntent, TM!Users
<1> QED BY <1>1, <1>2, <1>5, <1>6 DEF TmInv, TmServer, TmList, TmForms, TmRequested, TmChosen, TmReadRow, TmConstants

LEMMA TmAnswered ==
    ASSUME TmConstants, TmInv, TM!SaveFailed \/ \E m \in Loads : TM!SaveAnswered(m)
    PROVE  TmInv'
<1>1. row' = row /\ save' = None /\ (modal' = None \/ UNCHANGED <<modal, actor>>) /\ (act' = None \/ act' = act)
  BY DEF TM!SaveFailed, TM!SaveAnswered, TM!serverVars, TM!listVars
<1>2. TmList'
  <2>1. CASE TM!SaveFailed
    BY <2>1 DEF TM!SaveFailed, TM!listVars, TmInv, TmList
  <2>2. ASSUME NEW slot \in Loads, TM!SaveAnswered(slot) PROVE TmList'
    <3>1. CASE save.transfers
      <4>1. loads' = [m \in Loads |-> IF m = slot THEN [TM!Idle EXCEPT !.at = "going"] ELSE TM!Idle]
        BY <2>2, <3>1 DEF TM!SaveAnswered
      <4>2. loads' \in [Loads -> TmReads] /\ \A m \in Loads : loads'[m].at # "read"
        BY <4>1 DEF TM!Idle, TmReads
      <4>3. actor' \in TM!Roles
        BY <2>2, <3>1 DEF TM!SaveAnswered, TmInv, TmServer, TmTeams, TmPersons, TM!Users
      <4> QED BY <2>2, <3>1, <4>2, <4>3 DEF TM!SaveAnswered, TmList
    <3>2. CASE ~save.transfers
      BY <2>2, <3>2 DEF TM!SaveAnswered, TM!FetchUsers, TM!Idle, TmInv, TmList, TmReads
    <3> QED BY <3>1, <3>2
  <2> QED BY <2>1, <2>2
<1> QED BY <1>1, <1>2 DEF TmInv, TmServer, TmForms, TmRequested, TmChosen, TmReadRow, TM!OncePerIntent

LEMMA TmNext == TmConstants /\ TmInv /\ [TM!Next]_TM!vars => TmInv'
<1> SUFFICES ASSUME TmConstants, TmInv, [TM!Next]_TM!vars PROVE TmInv'
  OBVIOUS
<1>1. CASE TM!Next
  BY <1>1, TmOthers, TmListed, TmPressed, TmServedAct, TmDialog, TmSent, TmServedRead, TmServedWrite, TmAnswered DEF TM!Next
<1>2. CASE UNCHANGED TM!vars
  BY <1>2 DEF TM!vars, TmInv, TmServer, TmList, TmForms, TmRequested, TmChosen, TmReadRow, TM!OncePerIntent
<1> QED BY <1>1, <1>2

\* What was offered the server accepts, unless it is sent along for an inactive person who is locked.
LEMMA TmAccepted ==
    ASSUME NEW by, NEW u, NEW r \in TmPersons, NEW p, TmOffered(by, u, r, p.role, p.active),
           TM!StatusLocked(by, u, r) => r.active
    PROVE  TM!OwnerRules(by, u, r, p)
<1>1. CASE TM!PolicyRoles(by, u, r) = {}
  BY <1>1 DEF TmOffered, TM!OfferedRoles, TM!StatusLocked, TM!OwnerRules, TmPersons
<1>2. CASE TM!PolicyRoles(by, u, r) # {}
  BY <1>2 DEF TmOffered, TM!OfferedRoles, TM!PolicyRoles, TM!OwnerRules, TM!Admins, TM!Roles, TmPersons
<1> QED BY <1>1, <1>2

\* A list that is read again and a row mutation leave the open dialog alone.
LEMMA TmTyping ==
    ASSUME TM!Next
    PROVE  TM!KeepsTyping
<1>1. row' # row \/ act' # act \/ (\E m \in Loads : loads[m].at # "idle" /\ loads'[m] # loads[m])
          => UNCHANGED modal \/ \E m \in Loads : TM!SaveAnswered(m)
  BY DEF TM!Next, TM!OthersAct, TM!SetStatusFilter, TM!HandleReviewB2bRequest, TM!ChangeScopeQuick, TM!ToggleActiveQuick,
     TM!ActFailed, TM!Press, TM!OpenEditModal, TM!ChooseRole, TM!SetIsActiveInput, TM!SetScopeInput, TM!TypeContact,
     TM!SetTransferConfirmed, TM!Type, TM!CloseModal, TM!HandleSaveUserModal, TM!SaveFailed, TM!ReadUsers,
     TM!UsersAnswered, TM!UsersFail, TM!ActAnswered, TM!ServeSaveRead, TM!ServeSaveWrite, TM!ServeAct, TM!ModalOnReload,
     TM!ModalKept, TM!serverVars, TM!listVars
<1>2. \A m \in Loads : TM!SaveAnswered(m) => save' # save
  BY DEF TM!SaveAnswered
<1> QED BY <1>1, <1>2 DEF TM!KeepsTyping

\* Types; a workspace that has one Owner has one for ever; the role goes to the person it was confirmed
\* for; and what the page lets its viewer choose the server accepts.
THEOREM OwnerHandedOverOnce ==
    ASSUME TmConstants
    PROVE  TM!Spec => [](TM!TypeOK /\ TM!OncePerIntent /\ TM!ActedAsShown)
<1>1. TM!Init => TmInv
  BY TmInit
<1>2. TmInv /\ [TM!Next]_TM!vars => TmInv'
  BY TmNext
<1>3. TmInv => TM!TypeOK /\ TM!OncePerIntent /\ TM!ActedAsShown
  <2> SUFFICES ASSUME TmInv PROVE TM!TypeOK /\ TM!OncePerIntent /\ TM!ActedAsShown
    OBVIOUS
  <2>1. TM!TypeOK
    BY DEF TmInv, TmServer, TmList, TmTeams, TmPersons, TM!TypeOK
  <2>2. TM!ActedAsShown
    <3> SUFFICES ASSUME save # None, TM!StatusLocked(save.by, save.of, save.shown) => save.shown.active
                 PROVE  TM!OwnerRules(save.by, save.of, save.shown, save.request)
      BY DEF TM!ActedAsShown, TmInv, TmChosen
    <3>1. save \in TmSaves /\ TmOffered(save.by, save.of, save.shown, save.request.role, save.request.active)
      BY DEF TmInv, TmForms, TmChosen
    <3> QED BY <3>1, TmAccepted DEF TmSaves
  <2> QED BY <2>1, <2>2 DEF TmInv
<1> QED BY <1>1, <1>2, <1>3, PTL DEF TM!Spec

\* The list is read again, and rows are changed, under an open dialog, which keeps what it holds.
THEOREM TeamTypingKept == TM!Spec => [][TM!KeepsTyping]_TM!vars
<1>1. [TM!Next]_TM!vars => [TM!KeepsTyping]_TM!vars
  BY TmTyping
<1> QED BY <1>1, PTL DEF TM!Spec

-----------------------------------------------------------------------------
(* The wallet page: a payment that was credited stands on no pending recharge, *)
(* and a reference on one recharge at most.                                     *)

CONSTANTS Txns, Mine, Refs, Filters, Under, MaxDone
VARIABLES txn, credited, userFilter, rechargeTxns, pendingApprovals, approveTarget, review, inlineUtr,
    rejectReason, offline, offlineCredit, done
WP == INSTANCE WalletPage

WpRows == [status : {"PENDING", "COMPLETED", "FAILED"}, utr : Refs \cup {None}]
WpLists == UNION {[s -> WpRows] : s \in SUBSET Txns}
WpReads == [of : Filters \cup {None}, rows : WpLists \cup {None}, list : WpLists \cup {None}, got : BOOLEAN, cold : BOOLEAN]
WpPages == [rows : WpLists, list : WpLists]
WpReviews == [op : {"approve", "reject", "utr"}, of : Txns, utr : Refs \cup {None}, at : {"going", "answered", "failed"}]
WpCredits == [ref : Refs, at : {"going", "answered", "failed"}]

WpConstants ==
    /\ Mine \subseteq Txns /\ "all" \in Filters /\ \A f \in Filters : Under[f] \subseteq Txns
    /\ None \notin Txns /\ None \notin Refs /\ None \notin WpReviews /\ None \notin WpCredits

WpPeople ==
    /\ approveTarget \in Txns \cup {None} /\ review \in WpReviews \cup {None}
    /\ review # None /\ review.op = "utr" => review.utr \in Refs
    /\ inlineUtr \in [Mine -> Refs \cup {None}]
    /\ offline \in [open : BOOLEAN, ref : Refs \cup {None}] /\ offlineCredit \in WpCredits \cup {None}
WpListed ==
    /\ userFilter \in Filters /\ rechargeTxns \in WpLists /\ pendingApprovals \in WpLists /\ loading \in BOOLEAN
    /\ cached \in [Filters -> WpPages \cup {None}] /\ loads \in [Loads -> WpReads]
    /\ \A m \in Loads : loads[m].got => loads[m].rows # None
WpServer ==
    /\ txn \in [Txns -> WpRows] /\ credited \in [Refs -> Nat]
    /\ \A t, x \in Txns : txn[t].utr # None /\ txn[t].utr = txn[x].utr => t = x
    /\ \A u \in Refs : credited[u] <= 1
    /\ \A t \in Txns : txn[t].status = "PENDING" /\ txn[t].utr # None => credited[txn[t].utr] = 0

WpInv == WpPeople /\ WpListed /\ WpServer

LEMMA WpLook ==
    /\ \A l \in WpLists : DOMAIN l \subseteq Txns
    /\ \A s \in SUBSET Txns : \A f \in [s -> WpRows] : f \in WpLists
BY DEF WpLists

\* What the server lists is a list.
LEMMA WpShown ==
    ASSUME txn \in [Txns -> WpRows], NEW s \in SUBSET Txns
    PROVE  WP!Rows(s) \in WpLists
<1>1. WP!Rows(s) \in [s -> WpRows]
  BY DEF WP!Rows
<1> QED BY <1>1, WpLook

LEMMA WpInit == WpConstants /\ WP!Init => WpInv
<1> SUFFICES ASSUME WpConstants, WP!Init PROVE WpInv
  OBVIOUS
<1>1. txn \in [Txns -> WpRows] /\ WpServer
  BY DEF WP!Init, WpRows, WpServer
<1>2. WP!Rows(Under["all"]) \in WpLists /\ WP!Rows(WP!Pending) \in WpLists
  BY <1>1, WpShown DEF WP!Pending, WpConstants
<1>3. loads \in [Loads -> WpReads] /\ \A m \in Loads : ~loads[m].got
  BY DEF WP!Init, WP!Idle, WpReads
<1>4. cached \in [Filters -> WpPages \cup {None}]
  BY <1>2 DEF WP!Init, WpPages
<1>5. WpListed
  BY <1>2, <1>3, <1>4 DEF WP!Init, WpListed, WpConstants
<1>6. WpPeople
  BY DEF WP!Init, WpPeople, WP!NoForm
<1> QED BY <1>1, <1>5, <1>6 DEF WpInv

\* A page that is asked for: what the cache has of it is shown.
LEMMA WpFetched ==
    ASSUME WpConstants, WpListed, NEW f \in Filters, NEW slots, userFilter' \in Filters,
           cached' \in [Filters -> WpPages \cup {None}], WP!Fetch(f, slots)
    PROVE  WpListed'
<1> DEFINE first == [WP!Idle EXCEPT !.of = f, !.cold = cached'[f] = None]
<1>1. first \in WpReads /\ first.got = FALSE
  BY ZenonT(30) DEF WP!Idle, WpReads
<1>2. loads' = [m \in Loads |-> IF m \in slots THEN first ELSE loads[m]]
  BY DEF WP!Fetch
<1> HIDE DEF first
<1>3. loads' \in [Loads -> WpReads] /\ \A m \in Loads : loads'[m].got => loads'[m].rows # None
  BY <1>1, <1>2 DEF WpListed
<1>4. rechargeTxns' \in WpLists /\ pendingApprovals' \in WpLists /\ loading' \in BOOLEAN
  <2>1. CASE cached'[f] = None
    BY <2>1 DEF WP!Fetch, WpListed
  <2>2. CASE cached'[f] # None
    BY <2>2 DEF WP!Fetch, WpListed, WpPages
  <2> QED BY <2>1, <2>2
<1> QED BY <1>3, <1>4 DEF WpListed

LEMMA WpRead ==
    ASSUME WpConstants, WpInv,
           \E m \in Loads : \/ WP!ReadLedger(m) \/ WP!LedgerAnswered(m) \/ WP!LedgerFails(m) \/ WP!ReadPending(m)
                            \/ WP!PendingAnswered(m) \/ \E f \in Filters : WP!FilterBy(f, m)
    PROVE  WpInv'
<1>1. UNCHANGED <<txn, credited, approveTarget, review, inlineUtr, offline, offlineCredit>>
  BY DEF WP!ReadLedger, WP!LedgerAnswered, WP!LedgerFails, WP!ReadPending, WP!PendingAnswered, WP!FilterBy,
     WP!serverVars, WP!reviewVars, WP!offlineVars
<1>2. PICK m \in Loads : \/ WP!ReadLedger(m) \/ WP!LedgerAnswered(m) \/ WP!LedgerFails(m) \/ WP!ReadPending(m)
                         \/ WP!PendingAnswered(m) \/ \E f \in Filters : WP!FilterBy(f, m)
  OBVIOUS
<1>3. txn \in [Txns -> WpRows] /\ WpListed /\ loads[m] \in WpReads /\ WP!Idle \in WpReads /\ WP!Idle.got = FALSE
  BY DEF WpInv, WpServer, WpListed, WP!Idle, WpReads
<1>4. CASE WP!ReadLedger(m)
  <2>1. WP!Rows(Under[loads[m].of]) \in WpLists
    BY <1>3, <1>4, WpShown DEF WP!ReadLedger, WpReads, WpConstants
  <2>2. loads' \in [Loads -> WpReads] /\ \A n \in Loads : loads'[n].got => loads[n].got /\ loads'[n].rows # None
    <3>1. loads' = [loads EXCEPT ![m].rows = WP!Rows(Under[loads[m].of])] /\ ~loads[m].got
      BY <1>3, <1>4 DEF WP!ReadLedger, WpListed
    <3> QED BY <1>3, <2>1, <3>1 DEF WpReads, WpListed
  <2> QED BY <1>1, <1>3, <1>4, <2>2 DEF WP!ReadLedger, WpInv, WpListed, WpPeople, WpServer
<1>5. CASE WP!LedgerAnswered(m)
  BY <1>1, <1>3, <1>5 DEF WP!LedgerAnswered, WpInv, WpListed, WpReads, WpPeople, WpServer
<1>6. CASE WP!LedgerFails(m)
  BY <1>1, <1>3, <1>6 DEF WP!LedgerFails, WpInv, WpListed, WpPeople, WpServer
<1>7. CASE WP!ReadPending(m)
  <2>1. WP!Rows(WP!Pending) \in WpLists
    BY <1>3, WpShown DEF WP!Pending
  <2> QED BY <1>1, <1>3, <1>7, <2>1 DEF WP!ReadPending, WpInv, WpListed, WpReads, WpPeople, WpServer
<1>8. CASE WP!PendingAnswered(m)
  <2>1. WP!Rows({}) \in WpLists
    BY <1>3, WpShown
  <2>2. PICK list \in {WP!Rows({})} \cup ({loads[m].list} \ {None}) :
            /\ pendingApprovals' = list
            /\ cached' = [cached EXCEPT ![loads[m].of] = [rows |-> loads[m].rows, list |-> list]]
    BY <1>8 DEF WP!PendingAnswered
  <2>3. list \in WpLists /\ loads[m].rows \in WpLists
    BY <1>3, <1>8, <2>1 DEF WP!PendingAnswered, WpReads, WpListed
  <2>4. cached' \in [Filters -> WpPages \cup {None}]
    BY <1>3, <2>2, <2>3 DEF WpListed, WpPages
  <2> QED BY <1>1, <1>3, <1>8, <2>2, <2>3, <2>4 DEF WP!PendingAnswered, WpInv, WpListed, WpPeople, WpServer
<1>9. CASE \E f \in Filters : WP!FilterBy(f, m)
  <2>1. PICK f \in Filters : WP!FilterBy(f, m)
    BY <1>9
  <2>2. userFilter' = f /\ cached' = cached /\ WP!Fetch(f, {m})
    BY <2>1 DEF WP!FilterBy
  <2>3. WpListed'
    BY <1>3, <2>2, WpFetched DEF WpListed
  <2> QED BY <1>1, <2>3 DEF WpInv, WpPeople, WpServer
<1> QED BY <1>2, <1>4, <1>5, <1>6, <1>7, <1>8, <1>9

\* A change that is told empties the cache and has the page read.
LEMMA WpToldAndRead ==
    ASSUME WpConstants, WpInv, \E slots \in SUBSET Loads : WP!Reviewed(slots) \/ WP!OfflineCredited(slots)
    PROVE  WpInv'
<1>1. UNCHANGED <<txn, credited, approveTarget, inlineUtr>>
  BY DEF WP!Reviewed, WP!OfflineCredited, WP!serverVars, WP!reviewVars
<1>2. WpListed'
  <2>1. PICK slots \in SUBSET Loads : WP!ToldAndRead(slots)
    BY DEF WP!Reviewed, WP!OfflineCredited
  <2>2. userFilter' = userFilter /\ cached' = [f \in Filters |-> None] /\ WP!Fetch(userFilter, slots)
    BY <2>1 DEF WP!ToldAndRead
  <2> QED BY <2>2, WpFetched DEF WpInv, WpListed
<1>3. (review' = None \/ review' = review) /\ (offlineCredit' = None \/ offlineCredit' = offlineCredit)
      /\ (offline' = offline \/ offline' = WP!NoForm)
  BY DEF WP!Reviewed, WP!OfflineCredited, WP!reviewVars, WP!offlineVars
<1>7. WP!NoForm \in [open : BOOLEAN, ref : Refs \cup {None}]
  BY DEF WP!NoForm
<1>4. offline' \in [open : BOOLEAN, ref : Refs \cup {None}]
  BY <1>3, <1>7 DEF WpInv, WpPeople
<1>5. review' \in WpReviews \cup {None} /\ (review' # None /\ review'.op = "utr" => review'.utr \in Refs)
  BY <1>3 DEF WpInv, WpPeople
<1>6. WpPeople'
  BY <1>1, <1>3, <1>4, <1>5 DEF WpInv, WpPeople
<1> QED BY <1>1, <1>2, <1>6 DEF WpInv, WpServer

LEMMA WpPerson ==
    ASSUME WpConstants, WpInv,
           \/ WP!CancelApprove \/ WP!ApproveRecharge \/ WP!TypeAtRow \/ WP!ReviewLost \/ WP!ReviewFailed \/ WP!OfflineForm
           \/ WP!RecordOfflineCredit \/ WP!OfflineFailed
           \/ \E t \in Txns : WP!AskApprove(t) \/ WP!RejectRecharge(t) \/ WP!SubmitInlineUtr(t)
    PROVE  WpInv'
<1>1. UNCHANGED <<txn, credited, WP!listVars>>
  BY DEF WP!CancelApprove, WP!ApproveRecharge, WP!TypeAtRow, WP!ReviewLost, WP!ReviewFailed, WP!OfflineForm,
     WP!RecordOfflineCredit, WP!OfflineFailed, WP!AskApprove, WP!RejectRecharge, WP!SubmitInlineUtr, WP!serverVars
<1>2. WpPeople'
  <2>1. CASE WP!CancelApprove \/ WP!ReviewFailed \/ \E t \in Txns : WP!AskApprove(t)
    BY <2>1 DEF WP!CancelApprove, WP!ReviewFailed, WP!AskApprove, WP!reviewVars, WP!offlineVars, WpInv, WpPeople
  <2>2. CASE WP!ApproveRecharge
    BY <2>2 DEF WP!ApproveRecharge, WP!Send, WP!offlineVars, WpInv, WpPeople, WpReviews
  <2>3. CASE \E t \in Txns : WP!RejectRecharge(t)
    BY <2>3 DEF WP!RejectRecharge, WP!Send, WP!offlineVars, WpInv, WpPeople, WpReviews
  <2>4. CASE \E t \in Txns : WP!SubmitInlineUtr(t)
    BY <2>4 DEF WP!SubmitInlineUtr, WP!Send, WP!offlineVars, WpInv, WpPeople, WpReviews
  <2>5. CASE WP!TypeAtRow
    BY <2>5 DEF WP!TypeAtRow, WP!offlineVars, WpInv, WpPeople
  <2>6. CASE WP!ReviewLost
    BY <2>6 DEF WP!ReviewLost, WP!Answer, WP!offlineVars, WpInv, WpPeople, WpReviews
  <2>7. CASE WP!OfflineForm
    BY <2>7 DEF WP!OfflineForm, WP!reviewVars, WpInv, WpPeople
  <2>8. CASE WP!RecordOfflineCredit \/ WP!OfflineFailed
    BY <2>8 DEF WP!RecordOfflineCredit, WP!OfflineFailed, WP!FormKept, WP!reviewVars, WpInv, WpPeople, WpCredits
  <2> QED BY <2>1, <2>2, <2>3, <2>4, <2>5, <2>6, <2>7, <2>8
<1> QED BY <1>1, <1>2 DEF WpInv, WpListed, WpServer, WP!listVars

\* A decision on a recharge whose payment has not been credited; the payment then stands on no other.
LEMMA WpServed ==
    ASSUME WpConstants, WpInv,
           WP!Others \/ \E b \in BOOLEAN : WP!ServeApprove(b) \/ WP!ServeReject(b) \/ WP!ServeUtr(b)
    PROVE  WpInv'
<1>1. UNCHANGED <<approveTarget, inlineUtr, offline, offlineCredit, WP!listVars>>
  BY DEF WP!Others, WP!ServeApprove, WP!ServeReject, WP!ServeUtr, WP!reviewVars, WP!offlineVars
<1>2. \/ review' = review
      \/ /\ review \in WpReviews /\ review # None
         /\ \E at \in {"answered", "failed"} : review' = [review EXCEPT !.at = at]
  <2>1. WP!Others => review' = review
    BY DEF WP!Others, WP!reviewVars
  <2>2. (\E b \in BOOLEAN : WP!ServeApprove(b) \/ WP!ServeReject(b) \/ WP!ServeUtr(b))
           => review \in WpReviews /\ review # None /\ \E at \in {"answered", "failed"} : review' = [review EXCEPT !.at = at]
    BY DEF WP!ServeApprove, WP!ServeReject, WP!ServeUtr, WP!Answer, WpInv, WpPeople
  <2> QED BY <2>1, <2>2
<1>3. WpPeople'
  BY <1>1, <1>2 DEF WpInv, WpPeople, WpReviews
<1>4. \/ UNCHANGED <<txn, credited>>
      \/ \E t \in Txns : /\ txn[t].status = "PENDING" /\ txn[t].utr # None
                         /\ txn' = [txn EXCEPT ![t].status = "COMPLETED"]
                         /\ credited' = [credited EXCEPT ![txn[t].utr] = @ + 1]
      \/ \E t \in Txns : txn' = [txn EXCEPT ![t].status = "FAILED"] /\ credited' = credited
      \/ \E t \in Txns, u \in Refs : /\ txn[t].status = "PENDING" /\ WP!RefFree(u, t)
                                     /\ txn' = [txn EXCEPT ![t].utr = u] /\ credited' = credited
  <2>0. review # None => review.of \in Txns /\ (review.op = "utr" => review.utr \in Refs)
    BY DEF WpInv, WpPeople, WpReviews
  <2>1. CASE WP!Others
    BY <2>1 DEF WP!Others
  <2>2. CASE \E b \in BOOLEAN : WP!ServeApprove(b)
    BY <2>0, <2>2 DEF WP!ServeApprove
  <2>3. CASE \E b \in BOOLEAN : WP!ServeReject(b)
    BY <2>0, <2>3 DEF WP!ServeReject
  <2>4. CASE \E b \in BOOLEAN : WP!ServeUtr(b)
    BY <2>0, <2>4 DEF WP!ServeUtr
  <2> QED BY <2>1, <2>2, <2>3, <2>4
<1>5. WpServer'
  <2>1. CASE UNCHANGED <<txn, credited>>
    BY <2>1 DEF WpInv, WpServer
  <2>2. ASSUME NEW t \in Txns, txn[t].status = "PENDING", txn[t].utr # None,
               txn' = [txn EXCEPT ![t].status = "COMPLETED"], credited' = [credited EXCEPT ![txn[t].utr] = @ + 1]
        PROVE  WpServer'
    <3>1. txn[t].utr \in Refs /\ credited[txn[t].utr] = 0
      BY <2>2 DEF WpInv, WpServer, WpRows
    <3>2. /\ txn' \in [Txns -> WpRows] /\ \A x \in Txns : txn'[x].utr = txn[x].utr
          /\ txn'[t].status = "COMPLETED" /\ \A x \in Txns \ {t} : txn'[x].status = txn[x].status
      BY <2>2 DEF WpInv, WpServer, WpRows
    <3>3. /\ credited' \in [Refs -> Nat] /\ credited'[txn[t].utr] = 1
          /\ \A u \in Refs \ {txn[t].utr} : credited'[u] = credited[u]
      BY <2>2, <3>1 DEF WpInv, WpServer
    <3>4. \A x \in Txns : txn[x].utr = txn[t].utr => x = t
      BY <2>2 DEF WpInv, WpServer
    <3>5. \A x \in Txns : txn'[x].status = "PENDING" /\ txn'[x].utr # None => credited'[txn'[x].utr] = 0
      BY <3>2, <3>3, <3>4 DEF WpInv, WpServer, WpRows
    <3>6. \A u \in Refs : credited'[u] <= 1
      BY <3>3 DEF WpInv, WpServer
    <3> QED BY <3>2, <3>3, <3>5, <3>6 DEF WpInv, WpServer
  <2>3. ASSUME NEW t \in Txns, txn' = [txn EXCEPT ![t].status = "FAILED"], credited' = credited
        PROVE  WpServer'
    BY <2>3 DEF WpInv, WpServer, WpRows
  <2>4. ASSUME NEW t \in Txns, NEW u \in Refs, txn[t].status = "PENDING", WP!RefFree(u, t),
               txn' = [txn EXCEPT ![t].utr = u], credited' = credited
        PROVE  WpServer'
    <3>1. credited[u] = 0 /\ \A x \in Txns \ {t} : txn[x].utr # u
      BY <2>4 DEF WP!RefFree, WpInv, WpServer, WpConstants
    <3>2. txn' \in [Txns -> WpRows] /\ txn'[t].utr = u /\ \A x \in Txns : x # t => txn'[x] = txn[x]
      BY <2>4 DEF WpInv, WpServer, WpRows
    <3> QED BY <2>4, <3>1, <3>2 DEF WpInv, WpServer
  <2> QED BY <1>4, <2>1, <2>2, <2>3, <2>4
<1> QED BY <1>1, <1>3, <1>5 DEF WpInv, WpListed, WP!listVars

\* A bank credit takes a reference that is on nothing yet.
LEMMA WpCredited ==
    ASSUME WpConstants, WpInv, NEW a \in BOOLEAN, NEW b \in BOOLEAN, WP!ServeOfflineCredit(a, b)
    PROVE  WpInv'
<1>1. UNCHANGED <<txn, approveTarget, review, inlineUtr, offline, WP!listVars>>
  BY DEF WP!ServeOfflineCredit, WP!reviewVars
<1>2. offlineCredit \in WpCredits /\ offlineCredit' \in WpCredits
  BY DEF WP!ServeOfflineCredit, WpInv, WpPeople, WpCredits
<1>3. WpServer'
  <2>1. CASE a /\ WP!RefFree(offlineCredit.ref, None)
    <3>1. offlineCredit.ref \in Refs /\ None \notin Txns
      BY <1>2 DEF WpCredits, WpConstants
    <3>2. /\ credited[offlineCredit.ref] = 0 /\ \A x \in Txns : txn[x].utr # offlineCredit.ref
          /\ credited' = [credited EXCEPT ![offlineCredit.ref] = @ + 1]
      BY <2>1, <3>1 DEF WP!ServeOfflineCredit, WP!RefFree
    <3> QED BY <1>1, <3>1, <3>2 DEF WpInv, WpServer, WpRows
  <2>2. CASE ~(a /\ WP!RefFree(offlineCredit.ref, None))
    BY <1>1, <2>2 DEF WP!ServeOfflineCredit, WpInv, WpServer
  <2> QED BY <2>1, <2>2
<1> QED BY <1>1, <1>2, <1>3 DEF WpInv, WpListed, WpPeople, WP!listVars

LEMMA WpNext == WpConstants /\ WpInv /\ [WP!Next]_WP!vars => WpInv'
<1> SUFFICES ASSUME WpConstants, WpInv, [WP!Next]_WP!vars PROVE WpInv'
  OBVIOUS
<1>1. CASE WP!Next
  BY <1>1, WpRead, WpToldAndRead, WpPerson, WpServed, WpCredited DEF WP!Next
<1>2. CASE UNCHANGED WP!vars
  BY <1>2 DEF WP!vars, WpInv, WpPeople, WpListed, WpServer
<1> QED BY <1>1, <1>2

\* Only the person types at the rows, and only a credit that was recorded empties its form.
LEMMA WpTyping == ASSUME WP!Next PROVE WP!KeepsTyping
<1>1. loads' # loads \/ review' # review => UNCHANGED <<inlineUtr, rejectReason>>
  BY DEF WP!Next, WP!ReadLedger, WP!LedgerAnswered, WP!LedgerFails, WP!ReadPending, WP!PendingAnswered, WP!FilterBy,
     WP!Reviewed, WP!OfflineCredited, WP!AskApprove, WP!RejectRecharge, WP!SubmitInlineUtr, WP!ServeApprove,
     WP!ServeReject, WP!ServeUtr, WP!ServeOfflineCredit, WP!CancelApprove, WP!ApproveRecharge, WP!TypeAtRow,
     WP!ReviewLost, WP!ReviewFailed, WP!OfflineForm, WP!RecordOfflineCredit, WP!OfflineFailed, WP!Others,
     WP!listVars, WP!reviewVars
<1>2. offlineCredit' # offlineCredit /\ (offlineCredit = None \/ offlineCredit.at # "answered") => UNCHANGED offline
  BY DEF WP!Next, WP!ReadLedger, WP!LedgerAnswered, WP!LedgerFails, WP!ReadPending, WP!PendingAnswered, WP!FilterBy,
     WP!Reviewed, WP!OfflineCredited, WP!AskApprove, WP!RejectRecharge, WP!SubmitInlineUtr, WP!ServeApprove,
     WP!ServeReject, WP!ServeUtr, WP!ServeOfflineCredit, WP!CancelApprove, WP!ApproveRecharge, WP!TypeAtRow,
     WP!ReviewLost, WP!ReviewFailed, WP!OfflineForm, WP!RecordOfflineCredit, WP!OfflineFailed, WP!Others,
     WP!FormKept, WP!offlineVars
<1> QED BY <1>1, <1>2 DEF WP!KeepsTyping

\* Types; and one payment is credited once, for a recharge or as a bank credit.
THEOREM CreditedOnce ==
    ASSUME WpConstants
    PROVE  WP!Spec => [](WP!TypeOK /\ WP!OncePerIntent)
<1>1. WP!Init => WpInv
  BY WpInit
<1>2. WpInv /\ [WP!Next]_WP!vars => WpInv'
  BY WpNext
<1>3. WpInv => WP!TypeOK /\ WP!OncePerIntent
  BY WpLook DEF WpInv, WpPeople, WpListed, WpServer, WpRows, WP!TypeOK, WP!OncePerIntent
<1> QED BY <1>1, <1>2, <1>3, PTL DEF WP!Spec

\* No read, answer or review changes what is typed at the rows or, until it is recorded, of a credit.
THEOREM WalletTypingKept == WP!Spec => [][WP!KeepsTyping]_WP!vars
<1>1. [WP!Next]_WP!vars => [WP!KeepsTyping]_WP!vars
  BY WpTyping
<1> QED BY <1>1, PTL DEF WP!Spec

-----------------------------------------------------------------------------
(* A merchant's recharge: the server gives a UTR to one recharge, and only    *)
(* the newest read may replace the figures, which a change restarts.           *)

CONSTANTS Intents, Amounts, Utrs
VARIABLES changes, open, amountInput, intent, utrNumber, loadingIntent, confirming, poll, wallet, hasError
RC == INSTANCE Recharge

RcRows == [status : {"none", "PENDING", "COMPLETED", "FAILED"}, utr : Utrs \cup {None}]
RcReads == [read : Nat \cup {None}, live : BOOLEAN, cold : BOOLEAN]
RcClaims == [of : Intents, utr : Utrs, at : {"going", "answered", "failed"}]

RcPolls == [of : Intents, live : BOOLEAN, status : {"none", "PENDING", "COMPLETED", "FAILED"} \cup {None}]

RcConstants == None \notin Nat /\ None \notin RcPolls

RcDialog ==
    /\ txn \in [Intents -> RcRows] /\ amountInput \in Amounts
    /\ intent \in Intents \cup {None} /\ utrNumber \in Utrs \cup {None} /\ confirming \in RcClaims \cup {None}
    /\ loadingIntent # None => loadingIntent.at # "answered" \/ loadingIntent.of \in Intents
RcFigures ==
    /\ changes \in Nat /\ told \in Nat /\ told <= changes
    /\ wallet # None => wallet \in Nat /\ wallet <= changes
    /\ loads \in [Loads -> RcReads]

\* One read counts; what it has read, or what is shown if it may fail unnoticed, is from after what was told.
RcNewest ==
    /\ \A m, n \in Loads : loads[m].live /\ loads[n].live => m = n
    /\ \A m \in Loads : loads[m].read # None => loads[m].read <= changes
    /\ \A m \in Loads : loads[m].live /\ loads[m].read # None => loads[m].read >= told
    /\ \A m \in Loads : loads[m].live /\ ~loads[m].cold => wallet # None /\ wallet >= told
    /\ RC!InFlight \/ hasError \/ (wallet # None /\ wallet >= told)

RcBalance == RcFigures /\ RcNewest
RcInv == RcDialog /\ RC!OncePerIntent /\ RcBalance

\* The instance counts as the library does.
LEMMA RcCounts == \A S : RC!Cardinality(S) = Cardinality(S)
BY DEF RC!Cardinality, Cardinality

LEMMA RcInit == RcConstants /\ RC!Init => RcInv
<1> SUFFICES ASSUME RcConstants, RC!Init PROVE RcInv
  OBVIOUS
<1>1. RcDialog /\ RC!OncePerIntent
  BY DEF RC!Init, RcDialog, RC!OncePerIntent, RC!NoRow, RcRows
<1>2. PICK slot \in Loads :
          loads = [m \in Loads |-> IF m = slot THEN [RC!Idle EXCEPT !.live = TRUE, !.cold = wallet = None] ELSE RC!Idle]
  BY DEF RC!Init
<1> DEFINE first == [RC!Idle EXCEPT !.live = TRUE, !.cold = wallet = None]
<1>5. /\ first \in RcReads /\ first.read = None /\ first.live /\ (first.cold <=> wallet = None)
      /\ RC!Idle \in RcReads /\ RC!Idle.read = None /\ ~RC!Idle.live
  BY ZenonT(30) DEF RC!Idle, RcReads
<1> HIDE DEF first
<1>8. \A m \in Loads : loads[m] = IF m = slot THEN first ELSE RC!Idle
  BY <1>2 DEF first
<1>9. loads \in [Loads -> RcReads]
  BY <1>2, <1>5 DEF first
<1>6. /\ loads \in [Loads -> RcReads]
      /\ \A m \in Loads : /\ loads[m].live <=> m = slot
                          /\ loads[m].read = None
                          /\ loads[m].live => (loads[m].cold <=> wallet = None)
  BY <1>5, <1>8, <1>9
<1>7. wallet \in {None, 0} /\ told = 0 /\ changes = 0 /\ hasError = FALSE
  BY DEF RC!Init
<1>3. RcFigures
  BY <1>6, <1>7 DEF RcFigures
<1>4. RcNewest
  BY <1>6, <1>7 DEF RcNewest, RC!InFlight, RcConstants
<1> QED BY <1>1, <1>3, <1>4 DEF RcInv, RcBalance

\* A load that is started for a change that is told.
LEMMA RcTold ==
    ASSUME RcConstants, RcBalance, changes' \in Nat, changes' >= changes, NEW slot \in Loads, RC!WalletUpdated(slot)
    PROVE  RcBalance'
<1>1. /\ loads[slot] = RC!Idle /\ loads' = RC!Reading(slot, TRUE) /\ told' = changes'
      /\ UNCHANGED <<wallet, hasError>>
  BY DEF RC!WalletUpdated, RC!Forced, RC!Load
<1>5. \A m \in Loads : RC!Reading(slot, TRUE)[m] \in RcReads
  BY DEF RcBalance, RcFigures, RcReads, RC!Reading
<1>6. loads' \in [Loads -> RcReads]
  BY <1>1, <1>5 DEF RC!Reading
<1>7. wallet' # None => wallet' \in Nat /\ wallet' <= changes'
  <2>1. changes \in Nat /\ (wallet # None => wallet \in Nat /\ wallet <= changes) /\ wallet' = wallet
    BY <1>1 DEF RcBalance, RcFigures
  <2> QED BY <2>1
<1>8. told' \in Nat /\ told' <= changes'
  BY <1>1
<1>2. RcFigures'
  BY <1>6, <1>7, <1>8 DEF RcFigures
<1>3. \A m \in Loads : /\ loads'[m].live <=> m = slot
                       /\ loads'[slot].read = None /\ loads'[slot].cold
                       /\ loads'[m].read # None => m # slot /\ loads'[m].read = loads[m].read
  BY <1>1 DEF RC!Reading, RcBalance, RcFigures, RcReads
<1>4. RcNewest'
  <2>3. changes \in Nat /\ \A m \in Loads : loads[m].read # None => loads[m].read \in Nat /\ loads[m].read <= changes
    BY DEF RcBalance, RcFigures, RcReads, RcNewest
  <2>1. \A m \in Loads : loads'[m].read # None => loads'[m].read <= changes'
    BY <1>3, <2>3
  <2>2. RC!InFlight'
    BY <1>3 DEF RC!InFlight
  <2> QED BY <1>3, <2>1, <2>2 DEF RcNewest
<1> QED BY <1>2, <1>4 DEF RcBalance

\* A change that nobody was told of.
LEMMA RcQuiet ==
    ASSUME RcConstants, RcBalance, changes' \in Nat, changes' >= changes, UNCHANGED RC!balanceVars
    PROVE  RcBalance'
BY DEF RcConstants, RcBalance, RcFigures, RcNewest, RcReads, RC!InFlight, RC!balanceVars

LEMMA RcReadIn ==
    ASSUME RcConstants, RcInv,
           \E m \in Loads : RC!ReadBalance(m) \/ RC!BalanceAnswered(m) \/ RC!BalanceFails(m)
    PROVE  RcInv'
<1>1. RcDialog' /\ RC!OncePerIntent'
  BY DEF RC!ReadBalance, RC!BalanceAnswered, RC!BalanceFails, RC!serverVars, RC!dialogVars, RC!requestVars, RcInv,
     RcDialog, RC!OncePerIntent
<1>2. PICK m \in Loads : RC!ReadBalance(m) \/ RC!BalanceAnswered(m) \/ RC!BalanceFails(m)
  OBVIOUS
<1>3. changes' = changes /\ told' = told
  BY <1>2 DEF RC!ReadBalance, RC!BalanceAnswered, RC!BalanceFails, RC!serverVars
<1>4. CASE RC!ReadBalance(m)
  BY <1>1, <1>3, <1>4 DEF RC!ReadBalance, RcInv, RcBalance, RcFigures, RcReads, RcNewest, RC!InFlight
<1>5. CASE RC!BalanceAnswered(m)
  <2>6. changes \in Nat /\ (loads[m].read # None => loads[m].read \in Nat /\ loads[m].read <= changes)
    BY DEF RcInv, RcBalance, RcFigures, RcReads, RcNewest
  <2>4. (wallet' # None => wallet' \in Nat /\ wallet' <= changes)
    BY <1>3, <1>5, <2>6 DEF RC!BalanceAnswered, RcInv, RcBalance, RcFigures
  <2>5. loads' \in [Loads -> RcReads]
    BY <1>5 DEF RC!BalanceAnswered, RcInv, RcBalance, RcFigures, RcReads, RC!Idle
  <2>1. RcFigures'
    BY <1>3, <2>4, <2>5 DEF RcInv, RcBalance, RcFigures
  <2>2. \A n \in Loads : loads'[n] = IF n = m THEN RC!Idle ELSE loads[n]
    BY <1>5 DEF RC!BalanceAnswered, RcInv, RcBalance, RcFigures
  <2>3. RcNewest'
    BY <1>3, <1>5, <2>1, <2>2 DEF RC!BalanceAnswered, RcInv, RcBalance, RcFigures, RcReads, RcNewest, RC!Idle, RC!InFlight,
       RcConstants
  <2> QED BY <1>1, <2>1, <2>3 DEF RcInv, RcBalance
<1>6. CASE RC!BalanceFails(m)
  <2>1. RcFigures'
    BY <1>3, <1>6 DEF RC!BalanceFails, RcInv, RcBalance, RcFigures, RcReads, RcNewest, RC!Idle
  <2>2. \A n \in Loads : loads'[n] = IF n = m THEN RC!Idle ELSE loads[n]
    BY <1>6 DEF RC!BalanceFails, RcInv, RcBalance, RcFigures
  <2>5. wallet' = wallet /\ (hasError \/ (loads[m].live /\ loads[m].cold) => hasError')
    BY <1>6 DEF RC!BalanceFails
  <2>3. RcNewest'
    BY <1>3, <2>5, <2>1, <2>2 DEF RcInv, RcBalance, RcFigures, RcReads, RcNewest, RC!Idle, RC!InFlight
  <2> QED BY <1>1, <2>1, <2>3 DEF RcInv, RcBalance
<1> QED BY <1>2, <1>4, <1>5, <1>6

\* The person's own steps leave the server and the figures alone.
LEMMA RcPerson ==
    ASSUME RcConstants, RcInv,
           \/ RC!Open \/ RC!HandleReset \/ RC!ChangeAmount \/ RC!Type \/ RC!GenerateQr \/ RC!IntentAnswered
           \/ RC!MarkAsPaid \/ RC!ConfirmRefused \/ RC!PollTimer \/ RC!ServePoll \/ RC!PollDropped
    PROVE  RcInv'
<1>1. UNCHANGED <<RC!serverVars, RC!balanceVars>>
  BY DEF RC!Open, RC!HandleReset, RC!ChangeAmount, RC!Type, RC!GenerateQr, RC!IntentAnswered,
         RC!MarkAsPaid, RC!ConfirmRefused, RC!PollTimer, RC!ServePoll, RC!PollDropped
<1>2. RC!OncePerIntent'
  BY <1>1 DEF RC!OncePerIntent, RC!serverVars, RcInv
<1>3. RcBalance'
  BY <1>1, RcQuiet DEF RcInv, RcBalance, RcFigures, RC!serverVars
<1>4. RcDialog'
  <2>1. CASE RC!IntentAnswered
    BY <1>1, <2>1 DEF RC!IntentAnswered, RC!Show, RC!serverVars, RcInv, RcDialog
  <2>2. CASE RC!MarkAsPaid
    BY <1>1, <2>2 DEF RC!MarkAsPaid, RC!dialogVars, RC!serverVars, RcInv, RcDialog, RcClaims
  <2>3. CASE RC!Open \/ RC!HandleReset \/ RC!ChangeAmount \/ RC!Type \/ RC!GenerateQr
    <3>1. CASE RC!Type
      BY <1>1, <3>1 DEF RC!Type, RC!requestVars, RC!serverVars, RcInv, RcDialog
    <3>2. CASE RC!GenerateQr
      BY <1>1, <3>2 DEF RC!GenerateQr, RC!dialogVars, RC!serverVars, RcInv, RcDialog
    <3>3. CASE RC!Open \/ RC!HandleReset \/ RC!ChangeAmount
      BY <1>1, <3>3 DEF RC!Open, RC!HandleReset, RC!ChangeAmount, RC!Show, RC!serverVars, RcInv, RcDialog
    <3> QED BY <2>3, <3>1, <3>2, <3>3
  <2>4. CASE RC!ConfirmRefused \/ RC!PollTimer \/ RC!ServePoll \/ RC!PollDropped
    BY <1>1, <2>4 DEF RC!ConfirmRefused, RC!PollTimer, RC!ServePoll, RC!PollDropped, RC!dialogVars,
       RC!requestVars, RC!serverVars, RcInv, RcDialog
  <2> QED BY <2>1, <2>2, <2>3, <2>4
<1> QED BY <1>2, <1>3, <1>4 DEF RcInv

\* The server: a new recharge has no UTR, and one that is claimed has a UTR no other has.
LEMMA RcServed ==
    ASSUME RcConstants, RcInv,
           \E b \in BOOLEAN : RC!ServeIntent(b) \/ \E a \in BOOLEAN : RC!ServeConfirm(a, b)
    PROVE  RcInv'
<1>1. CASE \E b \in BOOLEAN : RC!ServeIntent(b)
  <2>1. PICK b \in BOOLEAN : RC!ServeIntent(b)
    BY <1>1
  <2>2. changes' \in Nat /\ changes' >= changes /\ UNCHANGED RC!balanceVars
    BY <2>1 DEF RC!ServeIntent, RcInv, RcBalance, RcFigures
  <2>3. RcDialog' /\ RC!OncePerIntent'
    BY <2>1 DEF RC!ServeIntent, RC!NoRow, RC!dialogVars, RcInv, RcDialog, RcRows, RC!OncePerIntent
  <2> QED BY <2>2, <2>3, RcQuiet DEF RcInv
<1>2. CASE \E b, a \in BOOLEAN : RC!ServeConfirm(a, b)
  <2>1. PICK b, a \in BOOLEAN : RC!ServeConfirm(a, b)
    BY <1>2
  <2>2. changes' = changes /\ UNCHANGED RC!balanceVars
    BY <2>1 DEF RC!ServeConfirm
  <2>3. confirming \in RcClaims /\ confirming' \in RcClaims
    BY <2>1 DEF RC!ServeConfirm, RcInv, RcDialog, RcClaims
  <2>4. \/ txn' = txn
        \/ /\ txn' = [txn EXCEPT ![confirming.of].utr = confirming.utr]
           /\ ~RC!UtrTaken(confirming.utr, confirming.of)
    BY <2>1 DEF RC!ServeConfirm
  <2>5. RcDialog' /\ RC!OncePerIntent'
    BY <2>1, <2>3, <2>4 DEF RC!ServeConfirm, RC!UtrTaken, RC!dialogVars, RcInv, RcDialog, RcRows, RcClaims, RC!OncePerIntent
  <2>6. RcBalance'
    BY <2>2, RcQuiet DEF RcInv, RcBalance, RcFigures
  <2> QED BY <2>5, <2>6 DEF RcInv
<1> QED BY <1>1, <1>2

\* What is told, here or elsewhere, and what is not.
LEMMA RcChanges ==
    ASSUME RcConstants, RcInv,
           \/ RC!Others
           \/ \E m \in Loads : RC!PaymentConfirmed(m) \/ RC!PaymentCompleted(m) \/ RC!ToldElsewhere(m)
    PROVE  RcInv'
<1>1. CASE RC!Others
  <2>1. changes' \in Nat /\ changes' >= changes /\ UNCHANGED RC!balanceVars
    BY <1>1 DEF RC!Others, RcInv, RcBalance, RcFigures
  <2>2. RcDialog' /\ RC!OncePerIntent'
    BY <1>1 DEF RC!Others, RC!dialogVars, RC!requestVars, RcInv, RcDialog, RcRows, RC!OncePerIntent
  <2> QED BY <2>1, <2>2, RcQuiet DEF RcInv
<1>2. ASSUME NEW m \in Loads, RC!PaymentConfirmed(m) \/ RC!PaymentCompleted(m) \/ RC!ToldElsewhere(m)
      PROVE  RcInv'
  <2>1. RC!WalletUpdated(m) /\ changes' \in Nat /\ changes' >= changes
    <3>1. RC!WalletUpdated(m) /\ (changes' = changes \/ changes' = changes + 1)
      BY <1>2 DEF RC!PaymentConfirmed, RC!PaymentCompleted, RC!ToldElsewhere, RC!serverVars
    <3> QED BY <3>1 DEF RcInv, RcBalance, RcFigures
  <2>2. RcDialog' /\ RC!OncePerIntent'
    BY <1>2 DEF RC!PaymentConfirmed, RC!PaymentCompleted, RC!ToldElsewhere, RC!Show, RC!serverVars, RC!dialogVars,
       RC!requestVars, RcInv, RcDialog, RC!OncePerIntent
  <2> QED BY <2>1, <2>2, RcTold DEF RcInv
<1> QED BY <1>1, <1>2

LEMMA RcNext == RcConstants /\ RcInv /\ [RC!Next]_RC!vars => RcInv'
<1> SUFFICES ASSUME RcConstants, RcInv, [RC!Next]_RC!vars PROVE RcInv'
  OBVIOUS
<1>1. CASE RC!Next
  BY <1>1, RcReadIn, RcPerson, RcServed, RcChanges DEF RC!Next
<1>2. CASE UNCHANGED RC!vars
  BY <1>2 DEF RC!vars, RcInv, RcDialog, RC!OncePerIntent, RcBalance, RcFigures, RcNewest, RC!InFlight
<1> QED BY <1>1, <1>2

\* Reads leave the fields alone; a payment that is noticed is of the QR on the screen.
RcPoll == poll # None =>
    poll \in RcPolls /\ (poll.live => poll.of = intent)

LEMMA RcPolled == ASSUME RcInv, RcPoll, [RC!Next]_RC!vars PROVE RcPoll'
<1>1. CASE \E m \in Loads : \/ RC!ReadBalance(m) \/ RC!BalanceAnswered(m) \/ RC!BalanceFails(m)
                          \/ RC!PaymentConfirmed(m) \/ RC!PaymentCompleted(m) \/ RC!ToldElsewhere(m)
  BY <1>1 DEF RC!ReadBalance, RC!BalanceAnswered, RC!BalanceFails, RC!PaymentConfirmed, RC!PaymentCompleted,
     RC!ToldElsewhere, RC!dialogVars, RC!requestVars, RC!Show, RC!PollOf, RcPoll, RcPolls
<1>2. CASE RC!PollTimer \/ RC!ServePoll \/ RC!PollDropped
  <2>1. CASE RC!PollTimer
    BY <2>1 DEF RC!PollTimer, RC!dialogVars, RcPoll, RcPolls, RcInv, RcDialog
  <2>2. CASE RC!ServePoll
    <3>1. poll \in RcPolls /\ intent' = intent /\ poll' = [poll EXCEPT !.status = txn[poll.of].status]
      BY <2>2 DEF RC!ServePoll, RC!dialogVars, RcPoll
    <3>2. txn[poll.of].status \in {"none", "PENDING", "COMPLETED", "FAILED"}
      BY <3>1 DEF RcPolls, RcInv, RcDialog, RcRows
    <3>3. poll' \in RcPolls /\ poll'.live = poll.live /\ poll'.of = poll.of
      BY <3>1, <3>2 DEF RcPolls
    <3> QED BY <2>2, <3>1, <3>3 DEF RcPoll, RC!ServePoll
  <2>3. CASE RC!PollDropped
    BY <2>3 DEF RC!PollDropped, RcPoll
  <2> QED BY <1>2, <2>1, <2>2, <2>3
<1>3. CASE RC!Open \/ RC!HandleReset \/ RC!ChangeAmount \/ RC!IntentAnswered
  BY <1>3 DEF RC!Open, RC!HandleReset, RC!ChangeAmount, RC!IntentAnswered, RC!Show, RC!PollOf, RcPoll, RcPolls
<1>4. CASE UNCHANGED RC!vars
  BY <1>4 DEF RC!vars, RcPoll
<1>5. CASE ~ \/ RC!PollTimer \/ RC!ServePoll \/ RC!PollDropped \/ RC!Open \/ RC!HandleReset \/ RC!ChangeAmount
             \/ RC!IntentAnswered \/ UNCHANGED RC!vars
             \/ \E m \in Loads : \/ RC!ReadBalance(m) \/ RC!BalanceAnswered(m) \/ RC!BalanceFails(m)
                                 \/ RC!PaymentConfirmed(m) \/ RC!PaymentCompleted(m) \/ RC!ToldElsewhere(m)
  BY <1>5 DEF RC!Next, RC!ServeIntent, RC!ServeConfirm, RC!Type, RC!GenerateQr, RC!MarkAsPaid, RC!ConfirmRefused,
     RC!Others, RC!dialogVars, RC!requestVars, RcPoll
<1> QED BY <1>1, <1>2, <1>3, <1>4, <1>5

LEMMA RcTyping == ASSUME RcConstants, RcPoll, RC!Next PROVE RC!KeepsTyping
<1>1. loads' # loads /\ UNCHANGED <<confirming, poll>> => UNCHANGED <<amountInput, intent, utrNumber>>
  BY DEF RC!Next, RC!ReadBalance, RC!BalanceAnswered, RC!BalanceFails, RC!PaymentConfirmed, RC!PaymentCompleted,
     RC!ToldElsewhere, RC!ServeIntent, RC!ServeConfirm, RC!Open, RC!HandleReset, RC!ChangeAmount, RC!Type, RC!GenerateQr,
     RC!IntentAnswered, RC!MarkAsPaid, RC!ConfirmRefused, RC!PollTimer, RC!ServePoll, RC!PollDropped, RC!Others,
     RC!dialogVars, RC!balanceVars
<1>2. poll # None /\ poll' = None /\ utrNumber' # utrNumber /\ confirming' = confirming
        => \E m \in Loads : RC!PaymentCompleted(m)
  <2>1. CASE RC!HandleReset
    BY <2>1 DEF RC!HandleReset, RC!Show, RC!PollOf, RcPoll, RcPolls, RcConstants
  <2>2. CASE ~RC!HandleReset
    BY <2>2 DEF RC!Next, RC!ReadBalance, RC!BalanceAnswered, RC!BalanceFails, RC!PaymentConfirmed, RC!ToldElsewhere,
       RC!ServeIntent, RC!ServeConfirm, RC!Open, RC!ChangeAmount, RC!Type, RC!GenerateQr, RC!IntentAnswered,
       RC!MarkAsPaid, RC!ConfirmRefused, RC!PollTimer, RC!ServePoll, RC!PollDropped, RC!Others, RC!dialogVars,
       RC!balanceVars, RC!requestVars
  <2> QED BY <2>1, <2>2
<1>3. \A m \in Loads : RC!PaymentCompleted(m) => poll.of = intent
  BY DEF RC!PaymentCompleted, RC!PaymentDetected, RcPoll
<1> QED BY <1>1, <1>2, <1>3 DEF RC!KeepsTyping

\* Types; a payment's UTR is given to one recharge; and a balance that is no longer being read is at
\* least as new as the change the merchant was told of.
THEOREM RechargedOnce ==
    ASSUME RcConstants
    PROVE  RC!Spec => [](RC!TypeOK /\ RC!OncePerIntent /\ RC!ActedAsShown)
<1>1. RC!Init => RcInv
  BY RcInit
<1>2. RcInv /\ [RC!Next]_RC!vars => RcInv'
  BY RcNext
<1>3. RcInv => RC!TypeOK /\ RC!OncePerIntent /\ RC!ActedAsShown
  <2> SUFFICES ASSUME RcInv PROVE RC!TypeOK /\ RC!OncePerIntent /\ RC!ActedAsShown
    OBVIOUS
  <2>1. RC!Cardinality({m \in Loads : loads[m].live}) <= 1
    <3>1. CASE {m \in Loads : loads[m].live} = {}
      BY <3>1, RcCounts, FS_EmptySet
    <3>2. CASE {m \in Loads : loads[m].live} # {}
      <4>1. PICK x : {m \in Loads : loads[m].live} = {x}
        BY <3>2 DEF RcInv, RcBalance, RcNewest
      <4>2. Cardinality({x}) = 1
        BY FS_Singleton
      <4>3. RC!Cardinality({m \in Loads : loads[m].live}) = Cardinality({x})
        BY <4>1, RcCounts
      <4> QED BY <4>2, <4>3
    <3> QED BY <3>1, <3>2
  <2>2. RC!TypeOK
    BY <2>1 DEF RcInv, RcDialog, RcRows, RcBalance, RcFigures, RC!TypeOK
  <2>3. RC!ActedAsShown
    BY DEF RcInv, RcBalance, RcNewest, RC!ActedAsShown
  <2> QED BY <2>2, <2>3 DEF RcInv
<1> QED BY <1>1, <1>2, <1>3, PTL DEF RC!Spec

\* Reading the balance changes nothing in the dialog, and a payment that is noticed clears only the QR it
\* is for: a poll that outlives its QR counts for nothing.
THEOREM RechargeTypingKept ==
    ASSUME RcConstants
    PROVE  RC!Spec => [][RC!KeepsTyping]_RC!vars
<1>1. RC!Init => RcInv /\ RcPoll
  BY RcInit DEF RC!Init, RcPoll
<1>2. RcInv /\ RcPoll /\ [RC!Next]_RC!vars => (RcInv /\ RcPoll)'
  BY RcNext, RcPolled
<1>3. RcPoll /\ [RC!Next]_RC!vars => [RC!KeepsTyping]_RC!vars
  BY RcTyping
<1> QED BY <1>1, <1>2, <1>3, PTL DEF RC!Spec

-----------------------------------------------------------------------------
(* Weight claims: the status of a row, on which the server decides, says how   *)
(* often its parcel was claimed and settled; the weight in the form is the     *)
(* chosen parcel's.                                                            *)

CONSTANTS Weights, CanWrite, CanManageFinance
VARIABLES settled, searchQuery, disputes, viewMode, selected, grams, gramsOf, claim, resolveTarget, resolving
WC == INSTANCE WeightClaims

WcStatuses == {"NONE", "CLAIM_RAISED"} \cup WC!Final
WcRows == [status : WcStatuses, charged : Weights, claimed : Weights \cup {None}]
WcLists == UNION {[s -> WcRows] : s \in SUBSET Parcels}
WcReads == [of : {"all", "one", None}, rows : WcLists \cup {None}]
WcClaims == [of : Parcels, grams : Weights, weightOf : Parcels \cup {None}, at : {"going", "answered", "failed"}]
WcDecisions == [of : Parcels, decision : WC!Final, expected : Weights \cup {None}, at : {"going", "answered", "failed"}]
WcPreviews == [of : Parcels, row : WcRows]
WcTargets == [of : Parcels, row : WcRows, decision : WC!Final]

\* The weight declared is one of the weights, parcel 1 is one of the parcels, and None is nothing else.
WcConstants ==
    /\ WC!Manifested \in Weights /\ 1 \in Parcels
    /\ None \notin Parcels /\ None \notin Weights /\ None \notin WcLists /\ None \notin WcClaims
    /\ None \notin WcDecisions /\ None \notin WcPreviews /\ None \notin WcTargets /\ None \notin {"all", "one"}

WcTypes ==
    /\ row \in [Parcels -> WcRows] /\ tickets \in [Parcels -> Nat]
    /\ settled \in [Parcels -> [times : Nat, at : Weights \cup {None}]]
    /\ searchQuery \in {"all", "one"} /\ cached \in [{"all", "one"} -> WcLists \cup {None}]
    /\ disputes \in WcLists /\ loads \in [Loads -> WcReads]
    /\ viewMode \in {"list", "create"} /\ selected \in Parcels \cup {None} /\ grams \in Weights \cup {None}
    /\ gramsOf \in Parcels \cup {None}
    /\ claim \in WcClaims \cup {None} /\ resolving \in WcDecisions \cup {None}
    /\ preview \in WcPreviews \cup {None} /\ resolveTarget \in WcTargets \cup {None}

\* Nothing is settled before the claim is accepted, and then at its weight.
WcServer ==
    \A p \in Parcels :
        /\ tickets[p] = (IF row[p].status = "CLAIM_RAISED" THEN 1 ELSE 0)
        /\ settled[p] = (IF row[p].status = "ACCEPTED" THEN [times |-> 1, at |-> row[p].claimed]
                         ELSE [times |-> 0, at |-> None])

WcForm ==
    /\ selected # None /\ grams # None => gramsOf = selected
    /\ viewMode = "create" => CanWrite
    /\ resolveTarget # None => CanManageFinance

WcInv == WcTypes /\ WcServer /\ WcForm /\ WC!ActedAsShown

LEMMA WcListed ==
    /\ \A l \in WcLists : DOMAIN l \subseteq Parcels /\ \A p \in DOMAIN l : l[p] \in WcRows
    /\ \A s \in SUBSET Parcels : \A f \in [s -> WcRows] : f \in WcLists
BY DEF WcLists

LEMMA WcInit == WcConstants /\ WC!Init => WcInv
<1> SUFFICES ASSUME WcConstants, WC!Init PROVE WcInv
  OBVIOUS
<1>1. disputes \in WcLists
  BY WcListed DEF WC!Init
<1>2. loads \in [Loads -> WcReads]
  BY DEF WC!Init, WC!Idle, WcReads
<1>3. row \in [Parcels -> WcRows] /\ \A p \in Parcels : row[p].status = "NONE"
  BY DEF WC!Init, WcRows, WcStatuses
<1>4. WcTypes
  BY <1>1, <1>2, <1>3 DEF WC!Init, WcTypes
<1> QED BY <1>3, <1>4 DEF WC!Init, WcInv, WcServer, WcForm, WC!ActedAsShown

\* A claim raised and a claim decided.
LEMMA WcRaised ==
    ASSUME WcConstants, WcTypes, WcServer, NEW p \in Parcels, NEW g \in Weights,
           WC!Claimable(row[p]), WC!RaiseOn(p, g)
    PROVE  /\ row' \in [Parcels -> WcRows] /\ tickets' \in [Parcels -> Nat] /\ settled' = settled /\ WcServer'
<1>1. row[p].status = "NONE" /\ row[p] \in WcRows
  BY DEF WC!Claimable, WC!NotClaimed, WcTypes
<1>2. row' = [row EXCEPT ![p] = [@ EXCEPT !.status = "CLAIM_RAISED", !.claimed = g]]
  BY DEF WC!RaiseOn, WcTypes
<1>3. [row[p] EXCEPT !.status = "CLAIM_RAISED", !.claimed = g] \in WcRows
  BY <1>1 DEF WcRows, WcStatuses
<1>4. row' \in [Parcels -> WcRows] /\ row'[p].status = "CLAIM_RAISED" /\ \A q \in Parcels \ {p} : row'[q] = row[q]
  BY <1>1, <1>2, <1>3 DEF WcTypes, WcRows
<1>5. tickets' = [tickets EXCEPT ![p] = @ + 1] /\ settled' = settled
  BY DEF WC!RaiseOn
<1>6. WcServer'
  BY <1>1, <1>4, <1>5 DEF WcServer, WcTypes
<1> QED BY <1>4, <1>5, <1>6 DEF WcTypes

LEMMA WcDecided ==
    ASSUME WcConstants, WcTypes, WcServer, NEW p \in Parcels, NEW d \in WC!Final,
           WC!Resolvable(row[p]), WC!ResolveAs(p, d)
    PROVE  /\ row' \in [Parcels -> WcRows] /\ tickets' \in [Parcels -> Nat]
           /\ settled' \in [Parcels -> [times : Nat, at : Weights \cup {None}]] /\ WcServer'
<1>1. row[p].status = "CLAIM_RAISED" /\ row[p] \in WcRows /\ row[p].claimed \in Weights \cup {None}
  BY DEF WC!Resolvable, WC!AwaitsDecision, WcTypes, WcRows
<1>2. row' = [row EXCEPT ![p] = [@ EXCEPT !.status = d]]
  BY DEF WC!ResolveAs, WcTypes
<1>3. [row[p] EXCEPT !.status = d] \in WcRows
  BY <1>1 DEF WcRows, WcStatuses
<1>4. /\ row' \in [Parcels -> WcRows] /\ row'[p].status = d /\ row'[p].claimed = row[p].claimed
      /\ \A q \in Parcels \ {p} : row'[q] = row[q]
  BY <1>1, <1>2, <1>3 DEF WcTypes, WcRows
<1>5. tickets' = [tickets EXCEPT ![p] = 0] /\ tickets' \in [Parcels -> Nat]
  BY DEF WC!ResolveAs, WcTypes
<1>6. settled[p] = [times |-> 0, at |-> None]
  BY <1>1 DEF WcServer
<1>7. settled' = IF d = "ACCEPTED" THEN [settled EXCEPT ![p] = [times |-> 1, at |-> row[p].claimed]] ELSE settled
  BY <1>6 DEF WC!ResolveAs, WcTypes
<1>8. settled' \in [Parcels -> [times : Nat, at : Weights \cup {None}]]
  BY <1>1, <1>7 DEF WcTypes
<1>9. WcServer'
  BY <1>1, <1>4, <1>5, <1>6, <1>7 DEF WcServer, WcTypes, WC!Final
<1> QED BY <1>4, <1>5, <1>8, <1>9

LEMMA WcOthers ==
    ASSUME WcConstants, WcInv, WC!OthersAct
    PROVE  WcInv'
<1>1. PICK p \in Parcels :
          \/ \E g \in Weights : WC!Claimable(row[p]) /\ WC!RaiseOn(p, g)
          \/ \E d \in WC!Final : WC!Resolvable(row[p]) /\ WC!ResolveAs(p, d)
          \/ /\ row' \in {[row EXCEPT ![p].charged = w] : w \in Weights \ {row[p].charged}}
             /\ UNCHANGED <<tickets, settled>>
  BY DEF WC!OthersAct
<1>2. /\ row' \in [Parcels -> WcRows] /\ tickets' \in [Parcels -> Nat]
      /\ settled' \in [Parcels -> [times : Nat, at : Weights \cup {None}]] /\ WcServer'
  <2>1. CASE \E g \in Weights : WC!Claimable(row[p]) /\ WC!RaiseOn(p, g)
    BY <2>1, WcRaised DEF WcInv, WcTypes
  <2>2. CASE \E d \in WC!Final : WC!Resolvable(row[p]) /\ WC!ResolveAs(p, d)
    BY <2>2, WcDecided DEF WcInv
  <2>3. CASE /\ row' \in {[row EXCEPT ![p].charged = w] : w \in Weights \ {row[p].charged}}
             /\ UNCHANGED <<tickets, settled>>
    <3>1. PICK w \in Weights : row' = [row EXCEPT ![p] = [@ EXCEPT !.charged = w]]
      BY <2>3 DEF WcInv, WcTypes
    <3>2. row[p] \in WcRows
      BY DEF WcInv, WcTypes
    <3>3. /\ row' \in [Parcels -> WcRows] /\ \A q \in Parcels : row'[q].status = row[q].status /\ row'[q].claimed = row[q].claimed
      BY <3>1, <3>2 DEF WcInv, WcTypes, WcRows
    <3> QED BY <2>3, <3>3 DEF WcInv, WcServer, WcTypes
  <2> QED BY <1>1, <2>1, <2>2, <2>3
<1>3. UNCHANGED <<searchQuery, disputes, cached, loads, viewMode, selected, grams, gramsOf, claim, preview, resolveTarget, resolving>>
  BY DEF WC!OthersAct, WC!listVars, WC!formVars, WC!reviewVars
<1> QED BY <1>2, <1>3 DEF WcInv, WcTypes, WcForm, WC!ActedAsShown

\* A read of the list.
LEMMA WcFetched ==
    ASSUME WcConstants, WcTypes, NEW q \in {"all", "one"}, NEW m \in Loads, WC!FetchDisputes(q, m)
    PROVE  disputes' \in WcLists /\ loads' \in [Loads -> WcReads]
BY DEF WC!FetchDisputes, WcTypes, WcReads

LEMMA WcList ==
    ASSUME WcConstants, WcInv, NEW m \in Loads,
           WC!SetSearchQuery(m) \/ WC!ReadDisputes(m) \/ WC!DisputesAnswered(m) \/ WC!DisputesFail(m)
    PROVE  WcInv'
<1>1. UNCHANGED <<row, tickets, settled, viewMode, selected, grams, gramsOf, claim, preview, resolveTarget, resolving>>
  BY DEF WC!SetSearchQuery, WC!ReadDisputes, WC!DisputesAnswered, WC!DisputesFail, WC!serverVars, WC!formVars,
     WC!reviewVars, WC!GramsOnReload, WC!GramsKept
<1>2. /\ searchQuery' \in {"all", "one"} /\ cached' \in [{"all", "one"} -> WcLists \cup {None}]
      /\ disputes' \in WcLists /\ loads' \in [Loads -> WcReads]
  <2>1. CASE WC!SetSearchQuery(m)
    BY <2>1, WcFetched DEF WC!SetSearchQuery, WcInv, WcTypes
  <2>2. CASE WC!ReadDisputes(m)
    <3> DEFINE rows == [p \in WC!Found(loads[m].of) |-> row[p]]
    <3>1. WC!Found(loads[m].of) \subseteq Parcels
      BY DEF WcConstants, WC!Found
    <3>2. rows \in WcLists
      BY <3>1, WcListed DEF WcInv, WcTypes
    <3>3. loads' = [loads EXCEPT ![m].rows = rows]
      BY <2>2 DEF WC!ReadDisputes
    <3> HIDE DEF rows
    <3>4. loads' \in [Loads -> WcReads]
      BY <3>2, <3>3 DEF WcInv, WcTypes, WcReads
    <3> QED BY <2>2, <3>4 DEF WC!ReadDisputes, WcInv, WcTypes
  <2>3. CASE WC!DisputesAnswered(m)
    BY <2>3 DEF WC!DisputesAnswered, WcInv, WcTypes, WcReads, WC!Idle
  <2>4. CASE WC!DisputesFail(m)
    BY <2>4 DEF WC!DisputesFail, WcInv, WcTypes, WcReads, WC!Idle
  <2> QED BY <2>1, <2>2, <2>3, <2>4
<1> QED BY <1>1, <1>2 DEF WcInv, WcTypes, WcServer, WcForm, WC!ActedAsShown

\* The form.
LEMMA WcFilled ==
    ASSUME WcConstants, WcInv,
           \/ WC!HandleOpenCreateClaimForRow \/ WC!HandleOpenNewClaimBlank \/ WC!HandleSelectSingleAwb
           \/ WC!HandleRemoveAwbChip \/ WC!TypeGrams \/ WC!BackToList
    PROVE  WcInv'
<1>1. UNCHANGED <<row, tickets, settled, searchQuery, disputes, cached, loads, claim, resolveTarget, resolving>>
  BY DEF WC!HandleOpenCreateClaimForRow, WC!HandleOpenNewClaimBlank, WC!HandleSelectSingleAwb,
     WC!HandleRemoveAwbChip, WC!TypeGrams, WC!BackToList, WC!serverVars, WC!listVars, WC!reviewVars
<1>2. DOMAIN disputes \subseteq Parcels
  BY WcListed DEF WcInv, WcTypes
<1>3. /\ viewMode' \in {"list", "create"} /\ selected' \in Parcels \cup {None} /\ grams' \in Weights \cup {None}
      /\ gramsOf' \in Parcels \cup {None} /\ preview' \in WcPreviews \cup {None}
      /\ selected' # None /\ grams' # None => gramsOf' = selected'
      /\ viewMode' = "create" => CanWrite
  <2>1. CASE WC!HandleOpenCreateClaimForRow
    BY <2>1, <1>2 DEF WC!HandleOpenCreateClaimForRow, WC!Fill, WC!FilteredDisputes, WcInv, WcTypes, WcPreviews, WcConstants
  <2>2. CASE WC!HandleOpenNewClaimBlank
    BY <2>2, <1>2 DEF WC!HandleOpenNewClaimBlank, WC!Fill, WC!FilteredDisputes, WcInv, WcTypes, WcConstants, WC!reviewVars
  <2>3. CASE WC!HandleSelectSingleAwb
    BY <2>3, <1>2 DEF WC!HandleSelectSingleAwb, WC!WeightOnSelect, WC!WeightOf, WcInv, WcTypes, WcForm, WcConstants, WC!reviewVars
  <2>4. CASE WC!HandleRemoveAwbChip
    BY <2>4 DEF WC!HandleRemoveAwbChip, WcInv, WcTypes, WcForm, WC!reviewVars
  <2>5. CASE WC!TypeGrams
    BY <2>5, <1>2 DEF WC!TypeGrams, WcInv, WcTypes, WcForm, WC!reviewVars
  <2>6. CASE WC!BackToList
    BY <2>6 DEF WC!BackToList, WcInv, WcTypes, WcForm, WC!reviewVars
  <2> QED BY <2>1, <2>2, <2>3, <2>4, <2>5, <2>6
<1> QED BY <1>1, <1>3 DEF WcInv, WcTypes, WcServer, WcForm, WC!ActedAsShown

\* The claim.
LEMMA WcClaimed ==
    ASSUME WcConstants, WcInv,
           \/ WC!HandleSubmitClaims \/ WC!ClaimFailed
           \/ \E a, b \in BOOLEAN : WC!ServeClaim(a, b)
           \/ \E m \in Loads : WC!ClaimAnswered(m)
    PROVE  WcInv'
<1>1. UNCHANGED <<searchQuery, cached, selected, grams, gramsOf, preview, resolveTarget, resolving>>
  BY DEF WC!HandleSubmitClaims, WC!ServeClaim, WC!ClaimAnswered, WC!ClaimFailed, WC!listVars, WC!formVars, WC!reviewVars
<1>2. CASE WC!HandleSubmitClaims
  <2>1. claim' = [of |-> selected, grams |-> grams, weightOf |-> gramsOf, at |-> "going"]
    BY <1>2 DEF WC!HandleSubmitClaims
  <2>2. selected \in Parcels /\ grams \in Weights /\ gramsOf = selected /\ CanWrite
    BY <1>2 DEF WC!HandleSubmitClaims, WcInv, WcTypes, WcForm
  <2>3. claim' \in WcClaims /\ claim'.weightOf = claim'.of
    BY <2>1, <2>2 DEF WcClaims
  <2>4. UNCHANGED <<row, tickets, settled, disputes, loads, viewMode>>
    BY <1>2 DEF WC!HandleSubmitClaims, WC!serverVars, WC!listVars, WC!formVars
  <2> QED BY <1>1, <2>2, <2>3, <2>4 DEF WcInv, WcTypes, WcServer, WcForm, WC!ActedAsShown
<1>3. ASSUME NEW a \in BOOLEAN, NEW b \in BOOLEAN, WC!ServeClaim(a, b)
     PROVE  WcInv'
  <2>1. claim \in WcClaims /\ claim.of \in Parcels /\ claim.grams \in Weights
    BY <1>3 DEF WC!ServeClaim, WcInv, WcTypes, WcClaims
  <2>2. /\ row' \in [Parcels -> WcRows] /\ tickets' \in [Parcels -> Nat] /\ settled' = settled /\ WcServer'
    <3>1. CASE UNCHANGED <<row, tickets, settled>>
      BY <3>1 DEF WcInv, WcTypes, WcServer
    <3>2. CASE WC!Claimable(row[claim.of]) /\ WC!RaiseOn(claim.of, claim.grams)
      BY <2>1, <3>2, WcRaised DEF WcInv
    <3> QED BY <1>3, <3>1, <3>2 DEF WC!ServeClaim
  <2>3. claim' \in WcClaims /\ claim'.weightOf = claim.weightOf /\ claim'.of = claim.of
    <3>1. PICK x \in {"answered", "failed"} : claim' = [claim EXCEPT !.at = x]
      BY <1>3 DEF WC!ServeClaim
    <3> QED BY <2>1, <3>1 DEF WcClaims
  <2>4. UNCHANGED <<disputes, loads, viewMode>>
    BY <1>3 DEF WC!ServeClaim, WC!listVars, WC!formVars
  <2> QED BY <1>1, <2>1, <2>2, <2>3, <2>4 DEF WcInv, WcTypes, WcForm, WC!ActedAsShown, WcConstants
<1>4. ASSUME NEW m \in Loads, WC!ClaimAnswered(m)
     PROVE  WcInv'
  <2>1. disputes' \in WcLists /\ loads' \in [Loads -> WcReads]
    BY <1>4, WcFetched DEF WC!ClaimAnswered, WcInv, WcTypes
  <2>2. claim' = None /\ viewMode' = "list" /\ UNCHANGED <<row, tickets, settled>>
    BY <1>4 DEF WC!ClaimAnswered, WC!serverVars
  <2> QED BY <1>1, <2>1, <2>2 DEF WcInv, WcTypes, WcServer, WcForm, WC!ActedAsShown
<1>5. CASE WC!ClaimFailed
  <2>1. claim' = None /\ UNCHANGED <<row, tickets, settled, disputes, loads, viewMode>>
    BY <1>5 DEF WC!ClaimFailed, WC!serverVars, WC!listVars, WC!formVars
  <2> QED BY <1>1, <2>1 DEF WcInv, WcTypes, WcServer, WcForm, WC!ActedAsShown
<1> QED BY <1>2, <1>3, <1>4, <1>5

\* The evidence and the decision.
LEMMA WcReviewed ==
    ASSUME WcConstants, WcInv,
           \/ WC!TogglePreview \/ WC!HandleOpenAdminResolve \/ WC!CloseResolve \/ WC!HandleConfirmAdminResolve
           \/ WC!ResolveFailed
           \/ \E a, b \in BOOLEAN : WC!ServeResolve(a, b)
           \/ \E m \in Loads : WC!ResolveAnswered(m)
    PROVE  WcInv'
<1>1. UNCHANGED <<searchQuery, cached, viewMode, selected, grams, gramsOf, claim>>
  BY DEF WC!TogglePreview, WC!HandleOpenAdminResolve, WC!CloseResolve, WC!HandleConfirmAdminResolve,
     WC!ServeResolve, WC!ResolveAnswered, WC!ResolveFailed, WC!listVars, WC!formVars
<1>2. DOMAIN disputes \subseteq Parcels /\ \A p \in DOMAIN disputes : disputes[p] \in WcRows
  BY WcListed DEF WcInv, WcTypes
<1>3. CASE WC!TogglePreview
  <2>1. preview' \in WcPreviews \cup {None}
    BY <1>2, <1>3 DEF WC!TogglePreview, WC!FilteredDisputes, WcPreviews
  <2>2. UNCHANGED <<row, tickets, settled, disputes, loads, resolveTarget, resolving>>
    BY <1>3 DEF WC!TogglePreview, WC!serverVars, WC!listVars
  <2> QED BY <1>1, <2>1, <2>2 DEF WcInv, WcTypes, WcServer, WcForm, WC!ActedAsShown
<1>4. CASE WC!HandleOpenAdminResolve
  <2>1. resolveTarget' \in WcTargets /\ CanManageFinance
    BY <1>2, <1>4 DEF WC!HandleOpenAdminResolve, WC!FilteredDisputes, WcTargets
  <2>2. UNCHANGED <<row, tickets, settled, disputes, loads, preview, resolving>>
    BY <1>4 DEF WC!HandleOpenAdminResolve, WC!serverVars, WC!listVars
  <2> QED BY <1>1, <2>1, <2>2 DEF WcInv, WcTypes, WcServer, WcForm, WC!ActedAsShown
<1>5. CASE WC!CloseResolve
  <2>1. resolveTarget' = None /\ UNCHANGED <<row, tickets, settled, disputes, loads, preview, resolving>>
    BY <1>5 DEF WC!CloseResolve, WC!serverVars, WC!listVars
  <2> QED BY <1>1, <2>1 DEF WcInv, WcTypes, WcServer, WcForm, WC!ActedAsShown
<1>6. CASE WC!HandleConfirmAdminResolve
  <2>1. resolveTarget \in WcTargets /\ CanManageFinance
    BY <1>6 DEF WC!HandleConfirmAdminResolve, WcInv, WcTypes, WcForm
  <2>2. resolving' = [of |-> resolveTarget.of, decision |-> resolveTarget.decision,
                      expected |-> resolveTarget.row.claimed, at |-> "going"]
    BY <1>6 DEF WC!HandleConfirmAdminResolve
  <2>3. resolving' \in WcDecisions /\ resolving'.decision \in WC!Final
    BY <2>1, <2>2 DEF WcDecisions, WcTargets, WcRows
  <2>4. UNCHANGED <<row, tickets, settled, disputes, loads, preview, resolveTarget>>
    BY <1>6 DEF WC!HandleConfirmAdminResolve, WC!serverVars, WC!listVars
  <2> QED BY <1>1, <2>1, <2>3, <2>4 DEF WcInv, WcTypes, WcServer, WcForm, WC!ActedAsShown
<1>7. ASSUME NEW a \in BOOLEAN, NEW b \in BOOLEAN, WC!ServeResolve(a, b)
     PROVE  WcInv'
  <2>1. resolving \in WcDecisions /\ resolving.of \in Parcels /\ resolving.decision \in WC!Final /\ resolving # None
    BY <1>7 DEF WC!ServeResolve, WcInv, WcTypes, WcDecisions
  <2>2. /\ row' \in [Parcels -> WcRows] /\ tickets' \in [Parcels -> Nat]
        /\ settled' \in [Parcels -> [times : Nat, at : Weights \cup {None}]] /\ WcServer'
    <3>1. CASE UNCHANGED <<row, tickets, settled>>
      BY <3>1 DEF WcInv, WcTypes, WcServer
    <3>2. CASE WC!Resolvable(row[resolving.of]) /\ WC!ResolveAs(resolving.of, resolving.decision)
      BY <2>1, <3>2, WcDecided DEF WcInv
    <3> QED BY <1>7, <3>1, <3>2 DEF WC!ServeResolve
  <2>3. resolving' \in WcDecisions /\ resolving'.decision = resolving.decision
    <3>1. PICK x \in {"answered", "failed"} : resolving' = [resolving EXCEPT !.at = x]
      BY <1>7 DEF WC!ServeResolve
    <3> QED BY <2>1, <3>1 DEF WcDecisions
  <2>4. UNCHANGED <<disputes, loads, preview, resolveTarget>>
    BY <1>7 DEF WC!ServeResolve, WC!listVars
  <2> QED BY <1>1, <2>1, <2>2, <2>3, <2>4 DEF WcInv, WcTypes, WcForm, WC!ActedAsShown
<1>8. ASSUME NEW m \in Loads, WC!ResolveAnswered(m)
     PROVE  WcInv'
  <2>1. disputes' \in WcLists /\ loads' \in [Loads -> WcReads]
    BY <1>8, WcFetched DEF WC!ResolveAnswered, WcInv, WcTypes
  <2>2. resolving' = None /\ resolveTarget' = None /\ UNCHANGED <<row, tickets, settled, preview>>
    BY <1>8 DEF WC!ResolveAnswered, WC!serverVars
  <2> QED BY <1>1, <2>1, <2>2 DEF WcInv, WcTypes, WcServer, WcForm, WC!ActedAsShown
<1>9. CASE WC!ResolveFailed
  <2>1. resolving' = None /\ UNCHANGED <<row, tickets, settled, disputes, loads, preview, resolveTarget>>
    BY <1>9 DEF WC!ResolveFailed, WC!serverVars, WC!listVars
  <2> QED BY <1>1, <2>1 DEF WcInv, WcTypes, WcServer, WcForm, WC!ActedAsShown
<1> QED BY <1>3, <1>4, <1>5, <1>6, <1>7, <1>8, <1>9

LEMMA WcNext == WcConstants /\ WcInv /\ [WC!Next]_WC!vars => WcInv'
<1> SUFFICES ASSUME WcConstants, WcInv, [WC!Next]_WC!vars PROVE WcInv'
  OBVIOUS
<1>1. CASE WC!Next
  BY <1>1, WcOthers, WcList, WcFilled, WcClaimed, WcReviewed DEF WC!Next
<1>2. CASE UNCHANGED WC!vars
  BY <1>2 DEF WC!vars, WcInv, WcTypes, WcServer, WcForm, WC!ActedAsShown
<1> QED BY <1>1, <1>2

\* Only a read's answer changes the list under a form, and it leaves the form alone.
LEMMA WcTyping ==
    ASSUME WC!Next
    PROVE  WC!KeepsTyping
<1>1. CASE \E m \in Loads : WC!ReadDisputes(m) \/ WC!DisputesAnswered(m) \/ WC!DisputesFail(m)
  BY <1>1 DEF WC!ReadDisputes, WC!DisputesAnswered, WC!DisputesFail, WC!GramsOnReload, WC!GramsKept,
     WC!formVars, WC!reviewVars, WC!KeepsTyping
<1>2. CASE \E m \in Loads : WC!SetSearchQuery(m) \/ WC!ClaimAnswered(m) \/ WC!ResolveAnswered(m)
  BY <1>2 DEF WC!SetSearchQuery, WC!ClaimAnswered, WC!ResolveAnswered, WC!KeepsTyping
<1>3. CASE ~ \E m \in Loads : WC!ReadDisputes(m) \/ WC!DisputesAnswered(m) \/ WC!DisputesFail(m)
                              \/ WC!SetSearchQuery(m) \/ WC!ClaimAnswered(m) \/ WC!ResolveAnswered(m)
  <2>1. UNCHANGED loads
    BY <1>3 DEF WC!Next, WC!OthersAct, WC!HandleOpenCreateClaimForRow, WC!HandleOpenNewClaimBlank,
       WC!HandleSelectSingleAwb, WC!HandleRemoveAwbChip, WC!TypeGrams, WC!BackToList, WC!HandleSubmitClaims,
       WC!ClaimFailed, WC!TogglePreview, WC!HandleOpenAdminResolve, WC!CloseResolve,
       WC!HandleConfirmAdminResolve, WC!ResolveFailed, WC!ServeClaim, WC!ServeResolve, WC!listVars
  <2> QED BY <2>1 DEF WC!KeepsTyping
<1> QED BY <1>1, <1>2, <1>3

\* Types, and that a parcel is claimed and settled once, with the weight meant for it, by those who may.
THEOREM WeightsClaimedOnce ==
    ASSUME WcConstants
    PROVE  WC!Spec => [](WC!TypeOK /\ WC!OncePerIntent /\ WC!ActedAsShown)
<1>1. WC!Init => WcInv
  BY WcInit
<1>2. WcInv /\ [WC!Next]_WC!vars => WcInv'
  BY WcNext
<1>3. WcInv => WC!TypeOK /\ WC!OncePerIntent /\ WC!ActedAsShown
  <2> SUFFICES ASSUME WcInv PROVE WC!TypeOK /\ WC!OncePerIntent
    BY DEF WcInv
  <2>1. WC!TypeOK
    BY WcListed DEF WcInv, WcTypes, WcRows, WcStatuses, WC!TypeOK
  <2>2. WC!OncePerIntent
    BY DEF WcInv, WcTypes, WcServer, WC!OncePerIntent
  <2> QED BY <2>1, <2>2
<1> QED BY <1>1, <1>2, <1>3, PTL DEF WC!Spec

\* The list is read again under an open form or dialog, which keeps what it holds.
THEOREM WeightTypingKept == WC!Spec => [][WC!KeepsTyping]_WC!vars
<1>1. [WC!Next]_WC!vars => [WC!KeepsTyping]_WC!vars
  BY WcTyping
<1> QED BY <1>1, PTL DEF WC!Spec

-----------------------------------------------------------------------------
(* Remittances: the argument is on the server. What a batch has paid is       *)
(* remitted for ever, and only what is pending can be put in another.          *)

CONSTANTS Merchants, Owner, Amount, Pending, Previews, MaxPreviews
VARIABLES parcel, debt, batches, filter, dialogOpen, merchantId, previewLoading, previews, asked, csv
RM == INSTANCE Remittances

\* A parcel of a batch is remitted for good; the total is the one that was confirmed.
RmBatches ==
    \A b \in batches :
        /\ b.ids # {} /\ RM!TotalOf(b.ids) = b.total
        /\ \A p \in b.ids : p \in Parcels /\ parcel[p] = "remitted" /\ Owner[p] = b.merchant
RmInv == parcel \in [Parcels -> {"transit", "pending", "settled", "remitted"}] /\ RmBatches /\ RM!OncePerIntent

LEMMA RmInit == RM!Init => RmInv
BY DEF RM!Init, RmInv, RmBatches, RM!OncePerIntent

\* Deliveries, settlements and debits leave what was remitted alone.
LEMMA RmOthers ==
    ASSUME RmInv, RM!OthersAct
    PROVE  RmInv'
<1>1. batches' = batches
  BY DEF RM!OthersAct
<1>2. /\ parcel' \in [Parcels -> {"transit", "pending", "settled", "remitted"}]
      /\ \A p \in Parcels : parcel[p] = "remitted" => parcel'[p] = "remitted"
  BY DEF RM!OthersAct, RM!RemittableOf, RmInv
<1> QED BY <1>1, <1>2 DEF RmInv, RmBatches, RM!OncePerIntent

LEMMA RmServed ==
    ASSUME RmInv, NEW a \in BOOLEAN, NEW b \in BOOLEAN, RM!ServeBatch(a, b)
    PROVE  RmInv'
<1>1. CASE ~(a /\ RM!MayRemit(send))
  BY <1>1 DEF RM!ServeBatch, RmInv, RmBatches, RM!OncePerIntent
<1>2. CASE a /\ RM!MayRemit(send)
  <2>1. PICK n : batches' = batches \cup {[number |-> n, merchant |-> send.of, ids |-> send.ids, total |-> send.total]}
    BY <1>2 DEF RM!ServeBatch
  <2>2. parcel' = [p \in Parcels |-> IF p \in send.ids THEN "remitted" ELSE parcel[p]]
    BY <1>2 DEF RM!ServeBatch
  <2>3. /\ send.ids # {} /\ RM!TotalOf(send.ids) = send.total
        /\ \A p \in send.ids : p \in Parcels /\ Owner[p] = send.of /\ parcel[p] = "pending"
    BY <1>2 DEF RM!MayRemit, RM!Eligible, RM!StillEligible, RM!RemittableOf, RM!TotalChecked, RM!TotalConfirmed
  <2>4. \A c \in batches : c.ids \cap send.ids = {}
    BY <2>3 DEF RmInv, RmBatches
  <2>5. parcel' \in [Parcels -> {"transit", "pending", "settled", "remitted"}]
    BY <2>2 DEF RmInv
  <2>6. RmBatches'
    BY <2>1, <2>2, <2>3 DEF RmInv, RmBatches
  <2>7. RM!OncePerIntent'
    BY <2>1, <2>4 DEF RmInv, RM!OncePerIntent
  <2> QED BY <2>5, <2>6, <2>7 DEF RmInv
<1> QED BY <1>1, <1>2

LEMMA RmNext ==
    ASSUME RmInv, [RM!Next]_RM!vars
    PROVE  RmInv'
<1>1. CASE RM!OthersAct
  BY <1>1, RmOthers
<1>2. CASE \E a, b \in BOOLEAN : RM!ServeBatch(a, b)
  BY <1>2, RmServed
<1>3. CASE ~RM!OthersAct /\ ~(\E a, b \in BOOLEAN : RM!ServeBatch(a, b))
  <2>1. UNCHANGED <<parcel, batches>>
    BY <1>3 DEF RM!Next, RM!vars, RM!serverVars, RM!TypeTransfer, RM!CloseDialog, RM!HandleCreateBatch, RM!BatchFailed,
       RM!HandleDownloadCsv, RM!BackToRemittances, RM!ListAnswered, RM!Refresh, RM!BatchAnswered, RM!SetFilter,
       RM!PreviewAnswered, RM!OpenDialog, RM!SetMerchantId, RM!HandleToggleShipment, RM!OpenDetail, RM!ServeList,
       RM!ServePreview, RM!DetailAnswered, RM!CsvAnswered
  <2> QED BY <2>1 DEF RmInv, RmBatches, RM!OncePerIntent
<1> QED BY <1>1, <1>2, <1>3

\* Only a request that failed and the file of a batch say "failed"; the file was asked for.
LEMMA RmTyping ==
    ASSUME None # "failed", RM!Next
    PROVE  RM!KeepsTyping
<1>1. CASE RM!BatchFailed
  BY <1>1 DEF RM!BatchFailed, RM!TypedOnFailure, RM!TypedKept, RM!KeepsTyping, RM!formVars
<1>2. CASE \E a \in BOOLEAN : RM!CsvAnswered(a)
  BY <1>2 DEF RM!CsvAnswered, RM!KeepsTyping
<1>3. CASE ~RM!BatchFailed /\ ~(\E a \in BOOLEAN : RM!CsvAnswered(a))
  <2>1. told' = told \/ told' # "failed"
    BY <1>3 DEF RM!Next, RM!OthersAct, RM!TypeTransfer, RM!CloseDialog, RM!HandleCreateBatch,
       RM!HandleDownloadCsv, RM!BackToRemittances, RM!ListAnswered, RM!Refresh, RM!BatchAnswered, RM!SetFilter,
       RM!PreviewAnswered, RM!OpenDialog, RM!SetMerchantId, RM!HandleToggleShipment, RM!OpenDetail, RM!ServeList,
       RM!ServePreview, RM!DetailAnswered, RM!ServeBatch
  <2> QED BY <2>1 DEF RM!KeepsTyping
<1> QED BY <1>1, <1>2, <1>3

\* A batch that failed leaves what was chosen and typed.
THEOREM RemittanceTypingKept ==
    ASSUME None # "failed"
    PROVE  RM!Spec => [][RM!KeepsTyping]_RM!vars
<1>1. [RM!Next]_RM!vars => [RM!KeepsTyping]_RM!vars
  BY RmTyping
<1> QED BY <1>1, PTL DEF RM!Spec

\* What the requests carry, whatever they answer.
RmList ==
    /\ filter \in RM!Filters /\ loading \in BOOLEAN /\ shown \subseteq RM!Batches
    /\ cached \in [RM!Filters -> {None} \cup SUBSET RM!Batches]
    /\ loads \in [Loads -> [at : {"idle", "going", "read", "failed"}, of : RM!Filters \cup {None}, rows : SUBSET RM!Batches]]
RmDialog ==
    /\ merchantId \in Merchants \cup {None} /\ selectedIds \subseteq Parcels /\ typed \in BOOLEAN /\ previewLoading \in BOOLEAN
    /\ preview = None \/ preview.lines \subseteq Parcels
RmPreviews ==
    /\ previews = [v \in Previews |-> previews[v]]
    /\ \A v \in Previews :
        /\ previews[v] = [at |-> previews[v].at, of |-> previews[v].of, ids |-> previews[v].ids, seen |-> previews[v].seen]
        /\ previews[v].at = "read" => previews[v].seen.lines \subseteq Parcels
RmSend ==
    /\ send = [at |-> send.at, of |-> send.of, ids |-> send.ids, total |-> send.total, seen |-> send.seen]
    /\ send.at # "idle" => send.seen \in RM!Filters
RmServer == parcel \in [Parcels -> {"transit", "pending", "settled", "remitted"}] /\ debt \subseteq Merchants
RmTyped == RmServer /\ RmList /\ RmDialog /\ RmPreviews /\ RmSend

LEMMA RmTypedInit == RM!Init => RmTyped
<1> SUFFICES ASSUME RM!Init PROVE RmTyped
  OBVIOUS
<1>1. RmServer /\ RmDialog
  BY DEF RM!Init, RmServer, RmDialog
<1>2. RmList
  BY DEF RM!Init, RmList, RM!Filters, RM!Batches, RM!NothingCached, RM!Idle
<1>3. RmPreviews /\ RmSend
  BY DEF RM!Init, RmPreviews, RmSend, RM!NotAsked, RM!NoBatch
<1> QED BY <1>1, <1>2, <1>3 DEF RmTyped

LEMMA RmServerStep ==
    ASSUME RmTyped, [RM!Next]_RM!vars
    PROVE  RmServer'
<1>1. CASE RM!OthersAct
  <2>1. debt' \subseteq Merchants
    BY <1>1 DEF RM!OthersAct, RmTyped, RmServer
  <2>2. parcel' \in [Parcels -> {"transit", "pending", "settled", "remitted"}]
    BY <1>1 DEF RM!OthersAct, RmTyped, RmServer
  <2> QED BY <2>1, <2>2 DEF RmServer
<1>2. CASE \E a, b \in BOOLEAN : RM!ServeBatch(a, b)
  BY <1>2 DEF RM!ServeBatch, RmTyped, RmServer
<1>3. CASE ~RM!OthersAct /\ ~(\E a, b \in BOOLEAN : RM!ServeBatch(a, b))
  <2>1. UNCHANGED <<parcel, debt>>
    BY <1>3 DEF RM!Next, RM!vars, RM!serverVars, RM!TypeTransfer, RM!CloseDialog, RM!HandleCreateBatch, RM!BatchFailed,
       RM!HandleDownloadCsv, RM!BackToRemittances, RM!ListAnswered, RM!Refresh, RM!BatchAnswered, RM!SetFilter,
       RM!PreviewAnswered, RM!OpenDialog, RM!SetMerchantId, RM!HandleToggleShipment, RM!OpenDetail, RM!ServeList,
       RM!ServePreview, RM!DetailAnswered, RM!CsvAnswered
  <2> QED BY <2>1 DEF RmTyped, RmServer
<1> QED BY <1>1, <1>2, <1>3

\* A read starts with what the cache has, and the cache holds rows of batches.
LEMMA RmFetch ==
    ASSUME RmList, NEW f \in RM!Filters, NEW l \in Loads, RM!FetchRemittances(f, l),
           filter' \in RM!Filters, cached' \in [RM!Filters -> {None} \cup SUBSET RM!Batches]
    PROVE  RmList'
<1>1. CASE "list" \in Ways
  <2>1. loads' = [loads EXCEPT ![l] = [RM!Idle EXCEPT !.at = "going", !.of = f]]
    BY <1>1 DEF RM!FetchRemittances
  <2>2. [RM!Idle EXCEPT !.at = "going", !.of = f] \in [at : {"idle", "going", "read", "failed"}, of : RM!Filters \cup {None}, rows : SUBSET RM!Batches]
    BY DEF RM!Idle
  <2>3. loads' \in [Loads -> [at : {"idle", "going", "read", "failed"}, of : RM!Filters \cup {None}, rows : SUBSET RM!Batches]]
    BY <2>1, <2>2 DEF RmList
  <2>4. IF cached'[f] = None THEN loading' = TRUE /\ UNCHANGED shown ELSE shown' = cached'[f] /\ UNCHANGED loading
    BY <1>1 DEF RM!FetchRemittances
  <2>5. shown' \subseteq RM!Batches /\ loading' \in BOOLEAN
    BY <2>4 DEF RmList
  <2> QED BY <2>3, <2>5 DEF RmList
<1>2. CASE "list" \notin Ways
  BY <1>2 DEF RM!FetchRemittances, RmList
<1> QED BY <1>1, <1>2

LEMMA RmListStep ==
    ASSUME RmTyped, [RM!Next]_RM!vars
    PROVE  RmList'
<1>1. ASSUME NEW l \in Loads, RM!ListAnswered(l) PROVE RmList'
  BY <1>1 DEF RM!ListAnswered, RmTyped, RmList, RM!Idle
<1>2. ASSUME NEW l \in Loads, RM!Refresh(l) PROVE RmList'
  <2>1. cached' = cached /\ filter' = filter /\ RM!FetchRemittances(filter, l)
    BY <1>2 DEF RM!Refresh
  <2> QED BY <2>1, RmFetch DEF RmTyped, RmList
<1>3. ASSUME NEW l \in Loads, RM!BatchAnswered(l) PROVE RmList'
  <2>1. filter' = filter /\ send.at = "answered" /\ RM!FetchRemittances(send.seen, l)
    BY <1>3 DEF RM!BatchAnswered
  <2>2. cached' \in [RM!Filters -> {None} \cup SUBSET RM!Batches]
    BY <1>3 DEF RM!BatchAnswered, RM!NothingCached, RmTyped, RmList
  <2> QED BY <2>1, <2>2, RmFetch DEF RmTyped, RmList, RmSend
<1>4. ASSUME NEW f \in RM!Filters, NEW l \in Loads, RM!SetFilter(f, l) PROVE RmList'
  <2>1. cached' = cached /\ filter' = f /\ RM!FetchRemittances(f, l)
    BY <1>4 DEF RM!SetFilter
  <2> QED BY <2>1, RmFetch DEF RmTyped, RmList
<1>5. ASSUME NEW l \in Loads, NEW a \in BOOLEAN, RM!ServeList(l, a) PROVE RmList'
  <2>1. RM!Matches(loads[l].of) \subseteq RM!Batches
    BY DEF RM!Matches
  <2> QED BY <1>5, <2>1 DEF RM!ServeList, RmTyped, RmList
<1>6. CASE RM!BatchFailed
  <2>1. cached' \in [RM!Filters -> {None} \cup SUBSET RM!Batches]
    BY <1>6 DEF RM!BatchFailed, RM!NothingCached, RmTyped, RmList
  <2> QED BY <1>6, <2>1 DEF RM!BatchFailed, RmTyped, RmList
<1>7. CASE UNCHANGED RM!listVars
  BY <1>7 DEF RM!listVars, RmTyped, RmList
<1>8. \/ UNCHANGED RM!listVars \/ RM!BatchFailed
      \/ \E l \in Loads : RM!ListAnswered(l) \/ RM!Refresh(l) \/ RM!BatchAnswered(l) \/ \E f \in RM!Filters : RM!SetFilter(f, l)
      \/ \E l \in Loads, a \in BOOLEAN : RM!ServeList(l, a)
  BY DEF RM!Next, RM!vars, RM!listVars, RM!OthersAct, RM!TypeTransfer, RM!CloseDialog, RM!HandleCreateBatch,
     RM!HandleDownloadCsv, RM!BackToRemittances, RM!PreviewAnswered, RM!OpenDialog, RM!SetMerchantId,
     RM!HandleToggleShipment, RM!OpenDetail, RM!ServePreview, RM!DetailAnswered, RM!CsvAnswered, RM!ServeBatch
<1> QED BY <1>1, <1>2, <1>3, <1>4, <1>5, <1>6, <1>7, <1>8

\* A preview lists parcels of the merchant, and a tick is of a line in view.
LEMMA RmDialogStep ==
    ASSUME RmTyped, [RM!Next]_RM!vars
    PROVE  RmDialog'
<1>1. ASSUME NEW v \in Previews, RM!PreviewAnswered(v) PROVE RmDialog'
  BY <1>1 DEF RM!PreviewAnswered, RmTyped, RmDialog, RmPreviews
<1>2. ASSUME NEW v \in Previews, RM!OpenDialog(v) PROVE RmDialog'
  BY <1>2 DEF RM!OpenDialog, RM!LoadMerchantPreview, RM!formVars, RmTyped, RmDialog
<1>3. ASSUME NEW v \in Previews, NEW m \in Merchants, RM!SetMerchantId(m, v) PROVE RmDialog'
  BY <1>3 DEF RM!SetMerchantId, RM!LoadMerchantPreview, RmTyped, RmDialog
<1>4. ASSUME NEW v \in Previews, NEW p \in Parcels, RM!HandleToggleShipment(p, v) PROVE RmDialog'
  BY <1>4 DEF RM!HandleToggleShipment, RM!NextIds, RM!LoadMerchantPreview, RmTyped, RmDialog
<1>5. ASSUME NEW l \in Loads, RM!BatchAnswered(l) PROVE RmDialog'
  BY <1>5 DEF RM!BatchAnswered, RmTyped, RmDialog
<1>6. CASE RM!BatchFailed
  BY <1>6 DEF RM!BatchFailed, RM!TypedOnFailure, RM!TypedKept, RmTyped, RmDialog
<1>7. CASE RM!TypeTransfer
  BY <1>7 DEF RM!TypeTransfer, RmTyped, RmDialog
<1>8. CASE UNCHANGED <<RM!formVars, previewLoading>>
  BY <1>8 DEF RM!formVars, RmTyped, RmDialog
<1>9. \/ UNCHANGED <<RM!formVars, previewLoading>> \/ RM!BatchFailed \/ RM!TypeTransfer
      \/ \E l \in Loads : RM!BatchAnswered(l)
      \/ \E v \in Previews : RM!PreviewAnswered(v) \/ RM!OpenDialog(v)
      \/ \E v \in Previews, m \in Merchants : RM!SetMerchantId(m, v)
      \/ \E v \in Previews, p \in Parcels : RM!HandleToggleShipment(p, v)
  BY DEF RM!Next, RM!vars, RM!formVars, RM!dialogVars, RM!OthersAct, RM!CloseDialog, RM!HandleCreateBatch,
     RM!HandleDownloadCsv, RM!BackToRemittances, RM!ListAnswered, RM!Refresh, RM!SetFilter,
     RM!OpenDetail, RM!ServeList, RM!ServePreview, RM!DetailAnswered, RM!CsvAnswered, RM!ServeBatch
<1> QED BY <1>1, <1>2, <1>3, <1>4, <1>5, <1>6, <1>7, <1>8, <1>9

LEMMA RmAsked ==
    ASSUME RmTyped, NEW v \in Previews, NEW m, NEW ids, RM!LoadMerchantPreview(m, ids, v)
    PROVE  RmPreviews'
BY DEF RM!LoadMerchantPreview, RmTyped, RmPreviews, RM!NotAsked

LEMMA RmAnswered ==
    ASSUME NEW f, f = [w \in Previews |-> f[w]], NEW v \in Previews, NEW x, NEW y, NEW g,
           f[v] = [at |-> f[v].at, of |-> f[v].of, ids |-> f[v].ids, seen |-> f[v].seen],
           g = [f EXCEPT ![v].at = x, ![v].seen = y]
    PROVE  /\ g = [w \in Previews |-> g[w]] /\ \A w \in Previews \ {v} : g[w] = f[w]
           /\ g[v] = [at |-> x, of |-> f[v].of, ids |-> f[v].ids, seen |-> y]
<1> DEFINE h == [f EXCEPT ![v].at = x]
<1>1. h = [w \in Previews |-> IF w = v THEN [f[v] EXCEPT !.at = x] ELSE f[w]]
  OBVIOUS
<1>2. h[v] = [at |-> x, of |-> f[v].of, ids |-> f[v].ids, seen |-> f[v].seen]
  BY <1>1
<1>3. g = [h EXCEPT ![v].seen = y]
  OBVIOUS
<1> HIDE DEF h
<1>4. g = [w \in Previews |-> IF w = v THEN [h[v] EXCEPT !.seen = y] ELSE h[w]]
  BY <1>1, <1>3
<1> QED BY <1>1, <1>2, <1>4

LEMMA RmPreviewsStep ==
    ASSUME RmTyped, [RM!Next]_RM!vars
    PROVE  RmPreviews'
<1>1. ASSUME NEW v \in Previews, RM!PreviewAnswered(v) PROVE RmPreviews'
  BY <1>1 DEF RM!PreviewAnswered, RmTyped, RmPreviews, RM!NotAsked
<1>2. ASSUME NEW v \in Previews, NEW m, NEW ids, RM!LoadMerchantPreview(m, ids, v) PROVE RmPreviews'
  BY <1>2, RmAsked
<1>3. ASSUME NEW v \in Previews, NEW a \in BOOLEAN, RM!ServePreview(v, a) PROVE RmPreviews'
  <2>1. RM!PreviewOf(previews[v].of, previews[v].ids).lines \subseteq Parcels
    BY DEF RM!PreviewOf, RM!RemittableOf
  <2> DEFINE x == IF a THEN "read" ELSE "failed"
             y == IF a THEN RM!PreviewOf(previews[v].of, previews[v].ids) ELSE None
  <2>2. previews' = [previews EXCEPT ![v].at = x, ![v].seen = y]
    BY <1>3 DEF RM!ServePreview
  <2>3. x = "read" => y.lines \subseteq Parcels
    BY <2>1
  <2> HIDE DEF x, y
  <2>4. /\ previews' = [w \in Previews |-> previews'[w]] /\ \A w \in Previews \ {v} : previews'[w] = previews[w]
        /\ previews'[v] = [at |-> x, of |-> previews[v].of, ids |-> previews[v].ids, seen |-> y]
    <3>1. previews = [w \in Previews |-> previews[w]]
      BY DEF RmTyped, RmPreviews
    <3>2. previews[v] = [at |-> previews[v].at, of |-> previews[v].of, ids |-> previews[v].ids, seen |-> previews[v].seen]
      BY DEF RmTyped, RmPreviews
    <3> QED BY ONLY v \in Previews, <2>2, <3>1, <3>2, RmAnswered
  <2> QED BY <2>3, <2>4 DEF RmTyped, RmPreviews
<1>4. CASE UNCHANGED previews
  BY <1>4 DEF RmTyped, RmPreviews
<1>5. \/ UNCHANGED previews
      \/ \E v \in Previews : RM!PreviewAnswered(v) \/ \E m, ids : RM!LoadMerchantPreview(m, ids, v)
      \/ \E v \in Previews, a \in BOOLEAN : RM!ServePreview(v, a)
  BY DEF RM!Next, RM!vars, RM!dialogVars, RM!OthersAct, RM!CloseDialog, RM!HandleCreateBatch, RM!TypeTransfer,
     RM!HandleDownloadCsv, RM!BackToRemittances, RM!ListAnswered, RM!Refresh, RM!SetFilter, RM!BatchAnswered, RM!BatchFailed,
     RM!OpenDialog, RM!SetMerchantId, RM!HandleToggleShipment,
     RM!OpenDetail, RM!ServeList, RM!DetailAnswered, RM!CsvAnswered, RM!ServeBatch
<1> QED BY <1>1, <1>2, <1>3, <1>4, <1>5

LEMMA RmSendStep ==
    ASSUME RmTyped, [RM!Next]_RM!vars
    PROVE  RmSend'
<1>1. CASE RM!HandleCreateBatch
  BY <1>1 DEF RM!HandleCreateBatch, RmTyped, RmList, RmSend
<1>2. ASSUME NEW a \in BOOLEAN, NEW b \in BOOLEAN, RM!ServeBatch(a, b) PROVE RmSend'
  BY <1>2 DEF RM!ServeBatch, RmTyped, RmSend
<1>3. CASE send' = RM!NoBatch
  BY <1>3 DEF RM!NoBatch, RmSend
<1>4. CASE UNCHANGED send
  BY <1>4 DEF RmTyped, RmSend
<1>5. \/ UNCHANGED send \/ send' = RM!NoBatch \/ RM!HandleCreateBatch \/ \E a, b \in BOOLEAN : RM!ServeBatch(a, b)
  BY DEF RM!Next, RM!vars, RM!OthersAct, RM!CloseDialog, RM!TypeTransfer, RM!PreviewAnswered,
     RM!HandleDownloadCsv, RM!BackToRemittances, RM!ListAnswered, RM!Refresh, RM!SetFilter, RM!BatchAnswered, RM!BatchFailed,
     RM!OpenDialog, RM!SetMerchantId, RM!HandleToggleShipment, RM!ServePreview,
     RM!OpenDetail, RM!ServeList, RM!DetailAnswered, RM!CsvAnswered
<1> QED BY <1>1, <1>2, <1>3, <1>4, <1>5

\* A parcel is paid by one batch, of its owner and with the total finance confirmed; and whatever previews and lists
\* cross, what is ticked is of the parcels and what is listed is of the batches.
THEOREM RemittedOnce == RM!Spec => [](RM!TypeOK /\ RM!OncePerIntent /\ RM!ActedAsShown)
<1>1. RM!Init => RmInv /\ RmTyped
  BY RmInit, RmTypedInit
<1>2. RmInv /\ [RM!Next]_RM!vars => RmInv'
  BY RmNext
<1>3. RmTyped /\ [RM!Next]_RM!vars => RmTyped'
  BY RmServerStep, RmListStep, RmDialogStep, RmPreviewsStep, RmSendStep DEF RmTyped
<1>4. RmInv => RM!OncePerIntent /\ RM!ActedAsShown
  BY DEF RmInv, RmBatches, RM!ActedAsShown
<1>5. RmTyped => RM!TypeOK
  BY DEF RmTyped, RmServer, RmList, RmDialog, RM!TypeOK
<1> QED BY <1>1, <1>2, <1>3, <1>4, <1>5, PTL DEF RM!Spec

-----------------------------------------------------------------------------
(* The page of a B2B order: an answer ends a hold that waited for one of its   *)
(* kind, and each hold is answered once, though no answer names its hold.      *)

CONSTANTS Reasons, Dates, Slots
VARIABLES reason, heldFor, answered, window, documentType, date, slot, uploading, scheduling, bookings
CP == INSTANCE CargoPage

CpAnswers == {"document", "appointment"}
CpStatuses == {"IN_TRANSIT", "EXCEPTION", "OUT_FOR_DELIVERY"}
CpForms == [date : Dates \cup {None}, slot : Slots \cup {None}]
CpUploads == [type : {"OTHER", "INVOICE"}, at : {"storing", "going", "answered", "failed"}]
CpSchedules == [window : CP!Windows, at : {"going", "answered", "failed"}]
CpBookings == [window : CP!Windows, at : {"going", "answered", "failed"}, mine : BOOLEAN]

CpConstants == None \notin Reasons /\ MaxHolds \in Nat /\ MaxHolds >= 1

CpServer ==
    /\ status \in CpStatuses /\ ((reason = None) <=> (status # "EXCEPTION"))
    /\ heldFor \in Seq(Reasons) /\ Len(heldFor) >= 1 /\ Len(heldFor) <= MaxHolds
    /\ DOMAIN answered = 1..MaxHolds /\ answered = [k \in 1..MaxHolds |-> answered[k]]
    /\ \A k \in 1..MaxHolds :
           \/ answered[k] = <<>>
           \/ k <= Len(heldFor) /\ \E a \in CpAnswers : answered[k] = <<a>> /\ heldFor[k] = CP!ResolvedBy(a)
    /\ reason # None => reason = heldFor[Len(heldFor)] /\ answered[Len(heldFor)] = <<>>
    /\ window \in CP!Windows \cup {None}
CpPage ==
    /\ documentType \in {"OTHER", "INVOICE"} /\ date \in Dates \cup {None} /\ slot \in Slots \cup {None}
    /\ uploading # None => uploading \in CpUploads
    /\ scheduling # None => scheduling \in CpSchedules
    /\ open \in BOOLEAN /\ form \in CpForms /\ bookings \subseteq CpBookings
CpInv == CpServer /\ CpPage

LEMMA CpWindow == ASSUME NEW d \in Dates, NEW s \in Slots PROVE CP!Window(d, s) \in CP!Windows
BY DEF CP!Windows

LEMMA CpInit == CpConstants /\ CP!Init => CpInv
<1> SUFFICES ASSUME CpConstants, CP!Init PROVE CpInv
  OBVIOUS
<1>1. /\ status = "EXCEPTION" /\ reason \in Reasons /\ reason # None /\ heldFor = <<reason>> /\ window = None
      /\ answered = [k \in 1..MaxHolds |-> <<>>]
  BY DEF CP!Init, CpConstants
<1>2. heldFor \in Seq(Reasons) /\ Len(heldFor) = 1 /\ heldFor[1] = reason
  BY <1>1
<1>3. CpServer
  BY <1>1, <1>2 DEF CpServer, CpStatuses, CpConstants
<1>4. CpPage
  BY DEF CP!Init, CpPage, CP!Blank, CpForms
<1> QED BY <1>3, <1>4 DEF CpInv

\* The last hold is answered: it was open, and waited for this.
LEMMA CpResolved ==
    ASSUME CpConstants, CpServer, NEW a \in CpAnswers, status = "EXCEPTION", reason = CP!ResolvedBy(a), CP!Resolve(a),
           window' \in CP!Windows \cup {None}
    PROVE  CpServer'
<1> DEFINE n == Len(heldFor)
<1>1. n \in 1..MaxHolds /\ answered[n] = <<>> /\ heldFor[n] = CP!ResolvedBy(a)
  BY DEF CpServer, CpConstants
<1>2. /\ status' = "IN_TRANSIT" /\ reason' = None /\ heldFor' = heldFor
      /\ answered' = [answered EXCEPT ![n] = Append(answered[n], a)]
  BY DEF CP!Resolve
<1>3. Append(answered[n], a) = <<a>>
  BY <1>1
<1>4. /\ DOMAIN answered' = 1..MaxHolds /\ answered' = [k \in 1..MaxHolds |-> answered'[k]]
      /\ answered'[n] = <<a>> /\ \A k \in 1..MaxHolds : k # n => answered'[k] = answered[k]
  BY <1>1, <1>2, <1>3 DEF CpServer
<1> QED BY <1>1, <1>2, <1>4 DEF CpServer, CpStatuses

LEMMA CpOthers == CpConstants /\ CpInv /\ CP!OthersAct => CpInv'
<1> SUFFICES ASSUME CpConstants, CpInv, CP!OthersAct PROVE CpInv'
  OBVIOUS
<1>1. UNCHANGED <<answered, window, CP!hubVars, CP!dialogVars>>
  BY DEF CP!OthersAct
<1>2. \/ status # "EXCEPTION" /\ \E r \in Reasons : /\ status' = "EXCEPTION" /\ reason' = r /\ heldFor' = Append(heldFor, r)
                                                  /\ Len(heldFor) < MaxHolds
      \/ /\ UNCHANGED heldFor
         /\ \/ status = "EXCEPTION" /\ status' = "IN_TRANSIT" /\ reason' = None
            \/ status = "IN_TRANSIT" /\ status' = "OUT_FOR_DELIVERY" /\ reason' = reason
  BY DEF CP!OthersAct
<1>3. ASSUME NEW r \in Reasons, status' = "EXCEPTION", reason' = r, heldFor' = Append(heldFor, r), Len(heldFor) < MaxHolds
      PROVE  CpServer'
  <2>2. /\ heldFor' \in Seq(Reasons) /\ Len(heldFor') = Len(heldFor) + 1 /\ heldFor'[Len(heldFor) + 1] = r
        /\ \A k \in 1..Len(heldFor) : heldFor'[k] = heldFor[k]
    BY <1>3 DEF CpInv, CpServer
  <2>3. answered[Len(heldFor) + 1] = <<>> /\ Len(heldFor) + 1 <= MaxHolds /\ Len(heldFor) \in Nat
    BY <1>3 DEF CpInv, CpServer, CpConstants
  <2> QED BY <1>1, <1>3, <2>2, <2>3 DEF CpInv, CpServer, CpConstants, CpStatuses
<1>5. ASSUME UNCHANGED heldFor, \/ status = "EXCEPTION" /\ status' = "IN_TRANSIT" /\ reason' = None
                                \/ status = "IN_TRANSIT" /\ status' = "OUT_FOR_DELIVERY" /\ reason' = reason
      PROVE  CpServer'
  BY <1>1, <1>5 DEF CpInv, CpServer, CpStatuses
<1>4. CpPage'
  BY <1>1 DEF CpInv, CpPage, CP!hubVars, CP!dialogVars
<1> QED BY <1>2, <1>3, <1>4, <1>5 DEF CpInv

LEMMA CpReads ==
    ASSUME CpConstants, CpInv, NEW m \in Loads, CP!ReadDetails(m) \/ CP!DetailsAnswered(m) \/ CP!DetailsFail(m)
    PROVE  CpInv'
<1>1. UNCHANGED <<CP!serverVars, CP!hubVars>>
  BY DEF CP!ReadDetails, CP!DetailsAnswered, CP!DetailsFail
<1>2. open' \in BOOLEAN /\ form' \in CpForms /\ bookings' \subseteq CpBookings
  <2>1. CASE UNCHANGED CP!dialogVars
    BY <2>1 DEF CP!dialogVars, CpInv, CpPage
  <2>2. CASE ~UNCHANGED CP!dialogVars
    <3>1. open' = FALSE /\ form' = CP!Blank /\ bookings' = {[b EXCEPT !.mine = FALSE] : b \in bookings}
      BY <2>2 DEF CP!ReadDetails, CP!DetailsAnswered, CP!DetailsFail, CP!Show
    <3>2. \A b \in CpBookings : [b EXCEPT !.mine = FALSE] \in CpBookings
      BY DEF CpBookings
    <3> QED BY <3>1, <3>2 DEF CpInv, CpPage, CP!Blank, CpForms
  <2> QED BY <2>1, <2>2
<1> QED BY <1>1, <1>2 DEF CpInv, CpServer, CpPage, CP!serverVars, CP!hubVars

\* The hub of a hold: a document is stored and named, a window is chosen and asked for.
LEMMA CpHub ==
    ASSUME CpConstants, CpInv,
           \/ CP!ChooseDocumentType \/ CP!HandleFileUpload \/ CP!UploadFailed \/ CP!ChooseWindow \/ CP!HandleScheduleAppointment
           \/ CP!ScheduleFailed \/ \E m \in Loads : CP!UploadAnswered(m) \/ CP!ScheduleAnswered(m)
           \/ \E a \in BOOLEAN : CP!DocumentStored(a)
    PROVE  CpInv'
<1>1. UNCHANGED <<CP!serverVars, CP!dialogVars>>
  BY DEF CP!ChooseDocumentType, CP!HandleFileUpload, CP!UploadFailed, CP!ChooseWindow, CP!HandleScheduleAppointment,
     CP!ScheduleFailed, CP!UploadAnswered, CP!ScheduleAnswered, CP!DocumentStored
<1>2. documentType' \in {"OTHER", "INVOICE"} /\ date' \in Dates \cup {None} /\ slot' \in Slots \cup {None}
  BY DEF CP!ChooseDocumentType, CP!HandleFileUpload, CP!UploadFailed, CP!ChooseWindow, CP!HandleScheduleAppointment,
     CP!ScheduleFailed, CP!UploadAnswered, CP!ScheduleAnswered, CP!DocumentStored, CpInv, CpPage
<1>3. uploading' # None => uploading' \in CpUploads
  BY DEF CP!ChooseDocumentType, CP!HandleFileUpload, CP!UploadFailed, CP!ChooseWindow, CP!HandleScheduleAppointment,
     CP!ScheduleFailed, CP!UploadAnswered, CP!ScheduleAnswered, CP!DocumentStored, CpInv, CpPage, CpUploads
<1>4. scheduling' # None => scheduling' \in CpSchedules
  <2>1. CASE CP!HandleScheduleAppointment
    <3>1. scheduling' = [window |-> CP!Window(date, slot), at |-> "going"] /\ date \in Dates /\ slot \in Slots
      BY <2>1 DEF CP!HandleScheduleAppointment, CpInv, CpPage
    <3> QED BY <3>1, CpWindow DEF CpSchedules
  <2>2. CASE scheduling' \in {scheduling, None}
    BY <2>2 DEF CpInv, CpPage
  <2> QED BY <2>1, <2>2 DEF CP!ChooseDocumentType, CP!HandleFileUpload, CP!UploadFailed, CP!ChooseWindow,
          CP!ScheduleFailed, CP!UploadAnswered, CP!ScheduleAnswered, CP!DocumentStored
<1> QED BY <1>1, <1>2, <1>3, <1>4 DEF CpInv, CpServer, CpPage, CP!serverVars, CP!dialogVars

LEMMA CpServe ==
    ASSUME CpConstants, CpInv, NEW a, NEW b, CP!ServeUpload(a, b) \/ CP!ServeSchedule(a, b)
    PROVE  CpInv'
<1>1. UNCHANGED <<documentType, date, slot, CP!dialogVars>>
  BY DEF CP!ServeUpload, CP!ServeSchedule
<1>2. CASE CP!ServeUpload(a, b)
  <2>1. \E x \in {"answered", "failed"} : uploading' = [uploading EXCEPT !.at = x]
    BY <1>2 DEF CP!ServeUpload
  <2>2. uploading' \in CpUploads /\ UNCHANGED <<scheduling, window>>
    BY <1>2, <2>1 DEF CP!ServeUpload, CpInv, CpPage, CpUploads
  <2>3. CpServer'
    <3>1. CASE CP!AssertActionAllowed("document") /\ CP!Resolve("document")
      <4>1. status = "EXCEPTION" /\ reason = CP!ResolvedBy("document") /\ window' \in CP!Windows \cup {None}
        BY <2>2, <3>1 DEF CP!AssertActionAllowed, CP!HeldForIt, CpInv, CpServer
      <4>2. "document" \in CpAnswers
        BY DEF CpAnswers
      <4> QED BY <3>1, <4>1, <4>2, CpResolved DEF CpInv
    <3>2. CASE UNCHANGED <<status, reason, heldFor, answered>>
      BY <2>2, <3>2 DEF CpInv, CpServer
    <3> QED BY <1>2, <3>1, <3>2 DEF CP!ServeUpload
  <2> QED BY <1>1, <2>2, <2>3 DEF CpInv, CpPage, CP!dialogVars
<1>3. CASE CP!ServeSchedule(a, b)
  <2>1. scheduling # None /\ \E x \in {"answered", "failed"} : scheduling' = [scheduling EXCEPT !.at = x]
    BY <1>3 DEF CP!ServeSchedule
  <2>2. scheduling' \in CpSchedules /\ scheduling.window \in CP!Windows /\ UNCHANGED uploading
    BY <1>3, <2>1 DEF CP!ServeSchedule, CpInv, CpPage, CpSchedules
  <2>3. CpServer'
    <3>1. CASE CP!AssertActionAllowed("appointment") /\ CP!Resolve("appointment") /\ window' = scheduling.window
      <4>1. status = "EXCEPTION" /\ reason = CP!ResolvedBy("appointment") /\ window' \in CP!Windows \cup {None}
        BY <2>2, <3>1 DEF CP!AssertActionAllowed, CP!HeldForIt
      <4>2. "appointment" \in CpAnswers
        BY DEF CpAnswers
      <4> QED BY <3>1, <4>1, <4>2, CpResolved DEF CpInv
    <3>2. CASE UNCHANGED <<status, reason, heldFor, answered, window>>
      BY <3>2 DEF CpInv, CpServer
    <3> QED BY <1>3, <3>1, <3>2 DEF CP!ServeSchedule
  <2> QED BY <1>1, <2>2, <2>3 DEF CpInv, CpPage, CP!dialogVars
<1> QED BY <1>2, <1>3

LEMMA CpDialog ==
    ASSUME CpConstants, CpInv, CP!ToggleDialog \/ CP!FillForm \/ CP!HandleSubmit
    PROVE  CpInv'
<1>1. UNCHANGED <<CP!serverVars, CP!hubVars>>
  BY DEF CP!ToggleDialog, CP!FillForm, CP!HandleSubmit
<1>2. open' \in BOOLEAN
  BY DEF CP!ToggleDialog, CP!FillForm, CP!HandleSubmit, CpInv, CpPage
<1>3. form' \in CpForms
  BY DEF CP!ToggleDialog, CP!FillForm, CP!HandleSubmit, CpInv, CpPage, CpForms
<1>4. bookings' \subseteq CpBookings
  <2>1. CASE CP!HandleSubmit
    <3>1. bookings' = bookings \cup {[window |-> CP!Window(form.date, form.slot), at |-> "going", mine |-> TRUE]}
          /\ form.date \in Dates /\ form.slot \in Slots
      BY <2>1 DEF CP!HandleSubmit, CpInv, CpPage, CpForms
    <3>2. CP!Window(form.date, form.slot) \in CP!Windows
      BY <3>1, CpWindow
    <3> DEFINE request == [window |-> CP!Window(form.date, form.slot), at |-> "going", mine |-> TRUE]
    <3>3. request \in CpBookings
      BY <3>2 DEF CpBookings
    <3> HIDE DEF request
    <3>4. bookings' = bookings \cup {request}
      BY <3>1 DEF request
    <3> QED BY <3>3, <3>4 DEF CpInv, CpPage
  <2> QED BY <2>1 DEF CP!ToggleDialog, CP!FillForm, CpInv, CpPage
<1> QED BY <1>1, <1>2, <1>3, <1>4 DEF CpInv, CpServer, CpPage, CP!serverVars, CP!hubVars

LEMMA CpBooked ==
    ASSUME CpConstants, CpInv, NEW r \in bookings,
           \/ CP!BookingFailed(r) \/ (\E m \in Loads : CP!BookingAnswered(r, m)) \/ \E a, b \in BOOLEAN : CP!ServeBooking(r, a, b)
    PROVE  CpInv'
<1>1. UNCHANGED CP!hubVars /\ r \in CpBookings
  BY DEF CP!BookingFailed, CP!BookingAnswered, CP!ServeBooking, CpInv, CpPage
<1>2. open' \in BOOLEAN /\ form' \in CpForms
  BY DEF CP!BookingFailed, CP!BookingAnswered, CP!ServeBooking, CP!FormOnFailure, CP!FormStays, CpInv, CpPage
<1>3. bookings' \subseteq CpBookings
  <2>1. \A x \in {"answered", "failed"} : [r EXCEPT !.at = x] \in CpBookings
    BY <1>1 DEF CpBookings
  <2>2. \/ bookings' = bookings \ {r}
        \/ \E x \in {"answered", "failed"} : bookings' = (bookings \ {r}) \cup {[r EXCEPT !.at = x]}
    BY DEF CP!BookingFailed, CP!BookingAnswered, CP!ServeBooking
  <2> QED BY <2>1, <2>2 DEF CpInv, CpPage
<1>4. CpServer'
  <2>1. \/ UNCHANGED <<status, reason, heldFor, answered, window>>
        \/ window' = r.window /\ UNCHANGED <<status, reason, heldFor, answered>>
        \/ window' = r.window /\ status = "EXCEPTION" /\ CP!MayBook /\ CP!Resolve("appointment")
    BY DEF CP!BookingFailed, CP!BookingAnswered, CP!ServeBooking, CP!serverVars
  <2>2. r.window \in CP!Windows
    BY <1>1 DEF CpBookings
  <2>3. CASE UNCHANGED <<status, reason, heldFor, answered>> /\ window' \in {window, r.window}
    BY <2>2, <2>3 DEF CpInv, CpServer
  <2>4. CASE window' = r.window /\ status = "EXCEPTION" /\ CP!MayBook /\ CP!Resolve("appointment")
    <3>1. reason = CP!ResolvedBy("appointment") /\ "appointment" \in CpAnswers
      BY <2>4 DEF CP!MayBook, CP!WaitsForIt, CP!ResolvedBy, CpAnswers
    <3> QED BY <2>2, <2>4, <3>1, CpResolved DEF CpInv
  <2> QED BY <2>1, <2>3, <2>4
<1> QED BY <1>1, <1>2, <1>3, <1>4 DEF CpInv, CpPage, CP!hubVars

LEMMA CpStep == CpConstants /\ CpInv /\ [CP!Next]_(CP!vars) => CpInv'
<1> SUFFICES ASSUME CpConstants, CpInv, [CP!Next]_(CP!vars) PROVE CpInv'
  OBVIOUS
<1>1. CASE UNCHANGED CP!vars
  BY <1>1 DEF CP!vars, CpInv, CpServer, CpPage
<1>2. CASE CP!Next
  BY <1>2, CpOthers, CpReads, CpHub, CpServe, CpDialog, CpBooked DEF CP!Next
<1> QED BY <1>1, <1>2

\* At every moment, of any holds, each is answered once, by the document or the appointment it waited
\* for, although the page's two buttons and the dialog may all be under way, no request says which hold
\* it means, and lost answers are tried again.
THEOREM HeldAndAnsweredOnce ==
    ASSUME CpConstants
    PROVE  CP!Spec => [](CP!TypeOK /\ CP!OncePerIntent /\ CP!ActedAsShown)
<1>1. CpInv => CP!TypeOK
  <2>1. CpInv => ((reason = None) = (status # "EXCEPTION"))
    BY DEF CpInv, CpServer
  <2> QED BY <2>1 DEF CpInv, CpServer, CpPage, CpStatuses, CP!TypeOK
<1>2. CpConstants /\ CpInv => CP!OncePerIntent
  <2>1. Len(<<>>) = 0 /\ (\A a : Len(<<a>>) = 1) /\ (\A n : n = 0 \/ n = 1 => n <= 1)
    OBVIOUS
  <2>2. ASSUME CpInv, NEW k \in 1..MaxHolds PROVE Len(answered[k]) <= 1
    <3>1. Len(answered[k]) = 0 \/ Len(answered[k]) = 1
      BY <2>1, <2>2 DEF CpInv, CpServer
    <3> QED BY <2>1, <3>1, Zenon
  <2>3. CpInv /\ reason # None => answered[Len(heldFor)] = <<>>
    BY DEF CpInv, CpServer
  <2> QED BY <2>2, <2>3 DEF CP!OncePerIntent
<1>3. CpConstants /\ CpInv => CP!ActedAsShown
  <2> SUFFICES ASSUME CpConstants, CpInv, NEW k \in DOMAIN heldFor, NEW i \in DOMAIN answered[k]
               PROVE  heldFor[k] = CP!ResolvedBy(answered[k][i])
    BY DEF CP!ActedAsShown
  <2>1. k \in 1..MaxHolds
    BY DEF CpInv, CpServer, CpConstants
  <2>2. PICK a \in CpAnswers : answered[k] = <<a>> /\ heldFor[k] = CP!ResolvedBy(a)
    BY <2>1 DEF CpInv, CpServer
  <2> QED BY <2>2
<1> QED BY <1>1, <1>2, <1>3, CpInit, CpStep, PTL DEF CP!Spec

\* Reads, failures and answers leave what was chosen as it is, but for a read that takes the dialog
\* away with its button.
THEOREM HoldTypingKept ==
    CP!Spec => [][CP!KeepsTyping]_(CP!vars)
<1>1. CP!Next => CP!KeepsTyping
  BY DEF CP!Next, CP!KeepsTyping, CP!OthersAct, CP!ChooseDocumentType, CP!HandleFileUpload, CP!UploadFailed, CP!ChooseWindow,
     CP!HandleScheduleAppointment, CP!ScheduleFailed, CP!ToggleDialog, CP!FillForm, CP!HandleSubmit, CP!ReadDetails,
     CP!DetailsAnswered, CP!DetailsFail, CP!UploadAnswered, CP!ScheduleAnswered, CP!BookingFailed, CP!BookingAnswered,
     CP!DocumentStored, CP!ServeUpload, CP!ServeSchedule, CP!ServeBooking, CP!FormOnFailure, CP!FormStays, CP!Show,
     CP!pageVars, CP!hubVars, CP!dialogVars
<1> QED BY <1>1, PTL DEF CP!Spec
=============================================================================
