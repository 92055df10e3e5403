------------------------------- MODULE Journey -------------------------------
(***************************************************************************)
(* How the row of a parcel moves while people look at it: the pickup it is   *)
(* linked to and every change of status the server lets anybody make.        *)
(* Rows have the fields status, held (the status a hold began in) and pur    *)
(* (the pickup: "none", "open" or "picked"); Tracking and OpsBoard extend it. *)
(***************************************************************************)
EXTENDS NdrRules

Linked(row) == [row EXCEPT !.status = "ASSIGNED", !.held = NoStatus, !.pur = "open"]

\* The whole pickup is called off, or it leaves this parcel behind.
Unlinked(row) == [row EXCEPT !.status = IF @ = "ASSIGNED" THEN "OPEN" ELSE @, !.pur = "none"]
LeftBehind(row) == [row EXCEPT !.status = "OPEN", !.held = NoStatus, !.pur = "none"]

\* A parcel on hold goes with the truck and stays on hold.
Dispatched(row) ==
    IF row.status \in PrePickup THEN [row EXCEPT !.status = "IN_TRANSIT", !.held = NoStatus, !.pur = "picked"]
    ELSE [row EXCEPT !.pur = "picked"]

AfterPickup(row) == row.status \notin PrePickup /\ (row.status = "EXCEPTION" => IsPickedUp(row.held))
Resume(row) == ResumeStatus(NoReason, "FORWARD", row.pur # "none", row.held)

\* Out of a hold: back to where it was held, or one of the ways out the seller is offered there.
ExitAllowed(row, to) ==
    \/ to = Resume(row)
    \/ Resume(row) = "IN_TRANSIT" /\ to = "OUT_FOR_DELIVERY"
    \/ to = "CANCELLED" /\ ~AfterPickup(row)
    \/ to \in {"RTO_INITIATED", "LOST"} /\ AfterPickup(row)

MoveAllowed(row, to) ==
    /\ row.status \notin Terminal /\ to # row.status /\ ValidTransition(row.status, to)
    /\ row.status = "ASSIGNED" /\ to = "IN_TRANSIT" => row.pur # "open"
    /\ row.status = "EXCEPTION" => ExitAllowed(row, to)
    /\ to = "CANCELLED" => ~AfterPickup(row)

Moved(row, to) ==
    [row EXCEPT !.status = to, !.held = IF to = "EXCEPTION" THEN row.status ELSE NoStatus,
                !.pur = IF to \in {"CANCELLED", "QC_FAILED", "REJECTED_AT_PICKUP"} THEN "none" ELSE @]

=============================================================================
