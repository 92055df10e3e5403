---------------------------- MODULE WeightClaims ----------------------------
(***************************************************************************)
(* The weight-mismatch page (disputes/weight-mismatch/page.tsx) and the       *)
(* claims behind it (delhivery_modules.py): a seller claims a lighter weight  *)
(* for one parcel, an admin accepts or rejects it once, while others claim,   *)
(* decide and weigh the parcel again.                                        *)
(***************************************************************************)
EXTENDS Naturals, FiniteSets

CONSTANTS None,
    Parcels, Weights,           \* audited parcels; weights in the order of grams
    CanWrite, CanManageFinance, \* capabilities of the viewer
    Loads, MaxOthers, MaxTurns

VARIABLES
    row, tickets, settled, others,              \* the server, by parcel
    searchQuery, disputes, cached, loads,       \* the list and its reads; a search finds parcel 1
    viewMode, selected, grams, gramsOf,         \* the claim form; whose weight is in it
    claim,                                      \* the claim under way
    preview, resolveTarget, resolving, turns

vars == <<row, tickets, settled, others, searchQuery, disputes, cached, loads, viewMode, selected, grams, gramsOf, claim,
          preview, resolveTarget, resolving, turns>>
serverVars == <<row, tickets, settled, others>>
listVars == <<searchQuery, disputes, cached, loads>>
formVars == <<viewMode, selected, grams, gramsOf>>
reviewVars == <<preview, resolveTarget, resolving>>

Manifested == 1
Final == {"ACCEPTED", "REJECTED"}
Idle == [of |-> None, rows |-> None]

-----------------------------------------------------------------------------
(* The server.                                                             *)

\* cost_diff_inr is zero or more, and more only when the charged weight cost more.
Overcharged(r) == r.charged > Manifested

\* _load_claimable_dispute, on the locked row: an open claim is not claimed again.
NotFinal(r) == r.status \notin Final /\ Overcharged(r)
NotClaimed(r) == r.status = "NONE" /\ Overcharged(r)
Claimable(r) == NotClaimed(r)

RaiseOn(p, g) ==
    /\ row' = [row EXCEPT ![p].status = "CLAIM_RAISED", ![p].claimed = g] /\ tickets' = [tickets EXCEPT ![p] = @ + 1]
    /\ UNCHANGED settled

\* resolve_weight_dispute: both outcomes are final; the open ticket is resolved with the claim.
Undecided(r) == r.status \in {"CLAIM_RAISED"} \cup Final
AwaitsDecision(r) == r.status = "CLAIM_RAISED"
Resolvable(r) == AwaitsDecision(r)

\* settle_accepted_weight_claim never bills less than what was declared.
ResolveAs(p, decision) ==
    /\ row' = [row EXCEPT ![p].status = decision] /\ tickets' = [tickets EXCEPT ![p] = 0]
    /\ settled' = IF decision # "ACCEPTED" THEN settled
                  ELSE [settled EXCEPT ![p] = [times |-> @.times + 1, at |-> row[p].claimed]]

\* Another screen claims or decides, or the hub weighs the parcel again.
OthersAct ==
    /\ others < MaxOthers /\ others' = others + 1
    /\ \E p \in Parcels :
          \/ \E g \in Weights : Claimable(row[p]) /\ g < row[p].charged /\ RaiseOn(p, g)
          \/ \E d \in Final : Resolvable(row[p]) /\ ResolveAs(p, d)
          \/ /\ row' \in {[row EXCEPT ![p].charged = w] : w \in Weights \ {row[p].charged}}
             /\ UNCHANGED <<tickets, settled>>
    /\ UNCHANGED <<listVars, formVars, claim, reviewVars, turns>>

-----------------------------------------------------------------------------
(* The list.                                                               *)

Found(q) == IF q = "all" THEN Parcels ELSE {1}
FilteredDisputes == DOMAIN disputes \cap Found(searchQuery)

\* Nothing tells one read from a later one.
FetchDisputes(q, slot) ==
    /\ loads[slot] = Idle /\ loads' = [loads EXCEPT ![slot] = [of |-> q, rows |-> None]]
    /\ disputes' = IF cached[q] = None THEN disputes ELSE cached[q]

Init ==
    /\ row \in [Parcels -> [status: {"NONE"}, charged: Weights \ {Manifested}, claimed: {None}]]
    /\ tickets = [p \in Parcels |-> 0] /\ settled = [p \in Parcels |-> [times |-> 0, at |-> None]] /\ others = 0
    /\ searchQuery = "all" /\ cached = [q \in {"all", "one"} |-> None] /\ disputes = [p \in {} |-> None]
    /\ \E slot \in Loads : loads = [m \in Loads |-> IF m = slot THEN [Idle EXCEPT !.of = "all"] ELSE Idle]
    /\ viewMode = "list" /\ selected = None /\ grams = None /\ gramsOf = None /\ claim = None
    /\ preview = None /\ resolveTarget = None /\ resolving = None /\ turns = 0

SetSearchQuery(slot) ==
    /\ viewMode = "list" /\ preview = None /\ resolveTarget = None /\ turns < MaxTurns /\ turns' = turns + 1
    /\ searchQuery' = (IF searchQuery = "all" THEN "one" ELSE "all") /\ FetchDisputes(searchQuery', slot)
    /\ UNCHANGED <<serverVars, cached, formVars, claim, reviewVars>>

ReadDisputes(m) ==
    /\ loads[m].of # None /\ loads[m].rows = None
    /\ loads' = [loads EXCEPT ![m].rows = [p \in Found(loads[m].of) |-> row[p]]]
    /\ UNCHANGED <<serverVars, searchQuery, disputes, cached, formVars, claim, reviewVars, turns>>

\* The weight in the form is not the list's.
GramsReloaded == IF selected = None THEN grams ELSE Manifested
GramsKept == grams
GramsOnReload == GramsKept

DisputesAnswered(m) ==
    /\ loads[m].rows # None /\ loads' = [loads EXCEPT ![m] = Idle]
    /\ cached' = [cached EXCEPT ![loads[m].of] = loads[m].rows] /\ disputes' = loads[m].rows
    /\ grams' = GramsOnReload
    /\ UNCHANGED <<serverVars, searchQuery, viewMode, selected, gramsOf, claim, reviewVars, turns>>

DisputesFail(m) ==
    /\ loads[m].of # None /\ loads' = [loads EXCEPT ![m] = Idle]
    /\ UNCHANGED <<serverVars, searchQuery, disputes, cached, formVars, claim, reviewVars, turns>>

-----------------------------------------------------------------------------
(* The claim.                                                              *)

OnList == viewMode = "list" /\ preview = None /\ resolveTarget = None

Fill(p) == viewMode' = "create" /\ selected' = p /\ grams' = Manifested /\ gramsOf' = p

\* Raise Claim on a row, or in the preview of a row, which may be older than the list.
HandleOpenCreateClaimForRow ==
    /\ CanWrite
    /\ \/ OnList /\ \E p \in FilteredDisputes : disputes[p].status = "NONE" /\ Fill(p)
       \/ preview # None /\ preview.row.status = "NONE" /\ Fill(preview.of)
    /\ preview' = None /\ UNCHANGED <<serverVars, listVars, claim, resolveTarget, resolving, turns>>

Shown(p) == p \in DOMAIN disputes /\ disputes[p].status = "NONE" /\ Overcharged(disputes[p])

\* New Claim: the first row that can still be claimed, or an empty form.
HandleOpenNewClaimBlank ==
    /\ CanWrite /\ OnList
    /\ LET open == {p \in FilteredDisputes : Shown(p)}
       IN  \/ open # {} /\ \E p \in open : Fill(p)
           \/ open = {} /\ viewMode' = "create" /\ selected' = None /\ grams' = None /\ gramsOf' = None
    /\ UNCHANGED <<serverVars, listVars, claim, reviewVars, turns>>

\* A parcel typed in place of the chosen one brings its own weight.
WeightStays(p) == [grams |-> grams, of |-> gramsOf]
WeightOf(p) == [grams |-> Manifested, of |-> p]
WeightOnSelect(p) == WeightOf(p)

HandleSelectSingleAwb ==
    /\ viewMode = "create"
    /\ \E p \in DOMAIN disputes \ {selected} :
          Shown(p) /\ selected' = p /\ grams' = WeightOnSelect(p).grams /\ gramsOf' = WeightOnSelect(p).of
    /\ UNCHANGED <<serverVars, listVars, viewMode, claim, reviewVars, turns>>

HandleRemoveAwbChip ==
    /\ viewMode = "create" /\ selected # None /\ selected' = None
    /\ UNCHANGED <<serverVars, listVars, viewMode, grams, gramsOf, claim, reviewVars, turns>>

TypeGrams ==
    /\ viewMode = "create" /\ selected \in DOMAIN disputes /\ \E g \in Weights \ {grams} : grams' = g /\ gramsOf' = selected
    /\ UNCHANGED <<serverVars, listVars, viewMode, selected, claim, reviewVars, turns>>

\* The arrow leaves the form also while a claim is under way.
BackToList ==
    /\ viewMode = "create" /\ viewMode' = "list"
    /\ UNCHANGED <<serverVars, listVars, selected, grams, gramsOf, claim, reviewVars, turns>>

\* The weight is compared with the row when the list still has it.
HandleSubmitClaims ==
    /\ viewMode = "create" /\ claim = None /\ selected # None /\ grams # None
    /\ selected \in DOMAIN disputes => grams < disputes[selected].charged
    /\ claim' = [of |-> selected, grams |-> grams, weightOf |-> gramsOf, at |-> "going"]
    /\ UNCHANGED <<serverVars, listVars, formVars, reviewVars, turns>>

ServeClaim(reaches, answers) ==
    /\ claim # None /\ claim.at = "going"
    /\ LET p == claim.of
           done == reaches /\ Claimable(row[p]) /\ claim.grams < row[p].charged
       IN  /\ IF done THEN RaiseOn(p, claim.grams) ELSE UNCHANGED <<row, tickets, settled>>
           /\ claim' = [claim EXCEPT !.at = IF done /\ answers THEN "answered" ELSE "failed"]
    /\ UNCHANGED <<others, listVars, formVars, reviewVars, turns>>

\* Also the answer to a form already left goes back to the list.
ClaimAnswered(slot) ==
    /\ claim # None /\ claim.at = "answered" /\ claim' = None /\ viewMode' = "list" /\ FetchDisputes(searchQuery, slot)
    /\ UNCHANGED <<serverVars, searchQuery, cached, selected, grams, gramsOf, reviewVars, turns>>

ClaimFailed ==
    /\ claim # None /\ claim.at = "failed" /\ claim' = None
    /\ UNCHANGED <<serverVars, listVars, formVars, reviewVars, turns>>

-----------------------------------------------------------------------------
(* The evidence and the decision.                                          *)

TogglePreview ==
    /\ viewMode = "list" /\ resolveTarget = None
    /\ \/ preview = None /\ \E p \in FilteredDisputes : preview' = [of |-> p, row |-> disputes[p]]
       \/ preview # None /\ preview' = None
    /\ UNCHANGED <<serverVars, listVars, formVars, claim, resolveTarget, resolving, turns>>

HandleOpenAdminResolve ==
    /\ CanManageFinance /\ OnList
    /\ \E p \in FilteredDisputes, d \in Final :
          /\ disputes[p].status = "CLAIM_RAISED" /\ ~(resolving # None /\ resolving.of = p)
          /\ resolveTarget' = [of |-> p, row |-> disputes[p], decision |-> d]
    /\ UNCHANGED <<serverVars, listVars, formVars, claim, preview, resolving, turns>>

\* Escape; Cancel is not offered while a decision is under way.
CloseResolve ==
    /\ resolveTarget # None /\ resolveTarget' = None
    /\ UNCHANGED <<serverVars, listVars, formVars, claim, preview, resolving, turns>>

HandleConfirmAdminResolve ==
    /\ resolveTarget # None /\ resolving = None
    /\ resolving' = [of |-> resolveTarget.of, decision |-> resolveTarget.decision,
                     expected |-> resolveTarget.row.claimed, at |-> "going"]
    /\ UNCHANGED <<serverVars, listVars, formVars, claim, preview, resolveTarget, turns>>

ServeResolve(reaches, answers) ==
    /\ resolving # None /\ resolving.at = "going"
    /\ LET p == resolving.of
           done == reaches /\ Resolvable(row[p]) /\ resolving.expected = row[p].claimed
       IN  /\ IF done THEN ResolveAs(p, resolving.decision) ELSE UNCHANGED <<row, tickets, settled>>
           /\ resolving' = [resolving EXCEPT !.at = IF done /\ answers THEN "answered" ELSE "failed"]
    /\ UNCHANGED <<others, listVars, formVars, claim, preview, resolveTarget, turns>>

ResolveAnswered(slot) ==
    /\ resolving # None /\ resolving.at = "answered" /\ resolving' = None /\ resolveTarget' = None
    /\ FetchDisputes(searchQuery, slot) /\ UNCHANGED <<serverVars, searchQuery, cached, formVars, claim, preview, turns>>

ResolveFailed ==
    /\ resolving # None /\ resolving.at = "failed" /\ resolving' = None
    /\ UNCHANGED <<serverVars, listVars, formVars, claim, preview, resolveTarget, turns>>

Next ==
    \/ OthersAct \/ HandleOpenCreateClaimForRow \/ HandleOpenNewClaimBlank \/ HandleSelectSingleAwb \/ HandleRemoveAwbChip
    \/ TypeGrams \/ BackToList \/ HandleSubmitClaims \/ ClaimFailed \/ TogglePreview \/ HandleOpenAdminResolve
    \/ CloseResolve \/ HandleConfirmAdminResolve \/ ResolveFailed
    \/ \E m \in Loads :
          SetSearchQuery(m) \/ ReadDisputes(m) \/ DisputesAnswered(m) \/ DisputesFail(m) \/ ClaimAnswered(m) \/ ResolveAnswered(m)
    \/ \E a, b \in BOOLEAN : ServeClaim(a, b) \/ ServeResolve(a, b)

Spec == Init /\ [][Next]_vars

-----------------------------------------------------------------------------
TypeOK ==
    /\ \A p \in Parcels : row[p].status \in {"NONE", "CLAIM_RAISED"} \cup Final /\ row[p].claimed \in Weights \cup {None}
    /\ searchQuery \in {"all", "one"} /\ viewMode \in {"list", "create"} /\ selected \in Parcels \cup {None}
    /\ DOMAIN disputes \subseteq Parcels

\* A claim goes out with a weight meant for its parcel, by someone who may write; a decision is one
\* the viewer may make.
ActedAsShown ==
    /\ claim # None => CanWrite /\ claim.weightOf = claim.of
    /\ resolving # None => CanManageFinance /\ resolving.decision \in Final

\* A parcel is claimed once, with one ticket that is open for as long as the claim is, and settled
\* once, at the weight that was claimed.
OncePerIntent ==
    \A p \in Parcels :
        /\ tickets[p] = (IF row[p].status = "CLAIM_RAISED" THEN 1 ELSE 0)
        /\ settled[p].times = (IF row[p].status = "ACCEPTED" THEN 1 ELSE 0)
        /\ settled[p].at \in {None, row[p].claimed}

\* The list is read again under an open form or dialog, which keeps what it holds.
KeepsTyping ==
    (\E m \in Loads : loads[m].of # None /\ loads'[m] # loads[m])
    /\ UNCHANGED <<claim, resolving, searchQuery>> => UNCHANGED <<formVars, preview, resolveTarget>>
=============================================================================
