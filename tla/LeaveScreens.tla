------------------------------ MODULE LeaveScreens ------------------------------
(***************************************************************************)
(* What the screens of the web client offer of the leave requests: the     *)
(* list findMyApprovals() makes for the Leave Request tab of the portals,  *)
(* the staff's leave panel, and My Leave.  The list finds out who decides  *)
(* by a walk of its own, not by the checks approve() and                   *)
(* approveCancellation() make (Deciding, DecidingCancellation), and a      *)
(* request that no screen offers to whoever may decide it waits for ever.  *)
(***************************************************************************)
EXTENDS LeaveRequests

\* ADMIN and HR work in the Workbench, everybody else in a portal.
InPortal(u) == ~IsRescuer(RoleOf[u])

\* Slip: only the login a tier names counts, not the one it resolves to.
CanDecideNamed(u, r) ==
    /\ r \in Filed /\ req[r].status = "PENDING"
    /\ req[r].tier \in DOMAIN TiersOf(r)
    /\ TiersOf(r)[req[r].tier] = u

\* findMyApprovals: canDecide.
CanDecide(u, r) ==
    /\ r \in Filed /\ req[r].status = "PENDING"
    /\ req[r].tier \in DOMAIN TiersOf(r)
    /\ ResolveTierApprover(TiersOf(r)[req[r].tier], req[r].employee, headLogin) = u

\* findMyApprovals: canDecideCancellation.
CanDecideCancellation(u, r) ==
    /\ r \in Filed /\ req[r].status = "APPROVED" /\ req[r].cStatus = "PENDING"
    /\ req[r].cTier \in CancellationOrders(TiersOf(r))
    /\ IF req[r].cTier \in DOMAIN TiersOf(r)
       THEN ResolveTierApprover(TiersOf(r)[req[r].cTier], req[r].employee, headLogin) = u
       ELSE IsRescuer(RoleOf[u])

\* Approve and Reject: the panel has them on every waiting request.
OffersDecision(u, r) ==
    /\ r \in Filed /\ req[r].status = "PENDING"
    /\ InPortal(u) => CanDecide(u, r)

OffersCancellation(u, r) ==
    /\ r \in Filed /\ req[r].cStatus = "PENDING"
    /\ InPortal(u) => CanDecideCancellation(u, r)

\* My Leave: Withdraw, or Request cancellation of an approved leave.
OffersOwnCancel(u, r) ==
    /\ InPortal(u)
    /\ r \in Filed /\ EmployeeOf[u] = req[r].employee
    /\ \/ req[r].status = "PENDING"
       \/ req[r].status = "APPROVED" /\ req[r].cStatus # "PENDING"

(* findMyApprovals, as its comment has it ("resolved the same way checkTier-      *)
(* Authorization/checkCancellationTierAuthorization do"): a portal offers a       *)
(* decision to those who may take it and to nobody else, through every change of  *)
(* tiers, workflow and heads; whom the checks let in as a rescue is offered it on *)
(* the staff's panel; and who may ask for the cancellation of his leave is        *)
(* offered that.  Left out is a MANAGER in the simple flow, whom approve() admits *)
(* and no screen of his portal asks.                                              *)
ScreensOfferDecisions ==
    \A u \in Users, r \in Filed :
        LET mayDecide == Deciding(u, r) /\ (InPortal(u) => req[r].tier # Null)
            mayCancel == DecidingCancellation(u, r)
        IN  /\ mayDecide => OffersDecision(u, r)
            /\ mayCancel => OffersCancellation(u, r)
            /\ InPortal(u) /\ SignedIn(u) =>
                  /\ OffersDecision(u, r) => mayDecide
                  /\ OffersCancellation(u, r) => mayCancel
                  /\ RequestingCancellation(u, r) => OffersOwnCancel(u, r)
=============================================================================
