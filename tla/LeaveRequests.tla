----------------------------- MODULE LeaveRequests -----------------------------
(***************************************************************************)
(* The leave requests of LeaveService with the state they act on: balances *)
(* (half days used against half days entitled), the attendance rows of the *)
(* days a leave covers, the departments' approval chains and heads, and    *)
(* the logins that may still sign in.                                      *)
(*                                                                         *)
(* Here every handler runs alone, from its first query to its last write:  *)
(* the system one user at a time sees.  LeaveHandlers splits the same      *)
(* handlers at their awaits and checks what is left when they overlap.     *)
(***************************************************************************)
EXTENDS LeaveRules

CONSTANTS
    RequestIds,
    SavableChains,   \* the chains an administrator saves (input set)
    Entitlements,    \* the entitlements HR sets (input set)
    HeadChoices,     \* the logins a department may be headed by (input set)
    LoginsAtRisk,    \* the logins that may be disabled or deleted (input set)
    PunchDays,       \* the days on which attendance may be recorded (input set)
    CorrectDays,     \* the days HR may correct by hand (input set)
    FirstToday       \* the day the model starts on

ASSUME InputAssumption ==
    /\ SavableChains \subseteq {c \in Chain : \A o \in DOMAIN c : c[o] # Null}
    /\ Entitlements \subseteq Nat
    /\ HeadChoices \subseteq {u \in Users : EmployeeOf[u] # Null} \cup {Null}
    /\ LoginsAtRisk \subseteq Users
    /\ PunchDays \subseteq Days
    /\ CorrectDays \subseteq Days
    /\ FirstToday \in Int

VARIABLES
    req,         \* rows of LeaveRequest; Null for an id not used yet
    approved,    \* the tiers with an APPROVED row in LeaveApprovalDecision
    used,        \* LeaveBalance.used
    entitled,    \* LeaveBalance.allocated + carriedForward
    attendance,  \* what AttendanceRecord holds for an employee and a day
    workflow,    \* the active tiers of a department
    headLogin,   \* the login of Department.manager
    login,       \* whether a login may sign in
    today,
    standing,    \* history: tiers in the chain ever since the request was filed
    edited       \* history: employee days HR has corrected without a punch

dbVars == <<req, approved, used, entitled, attendance>>
orgVars == <<workflow, headLogin, login>>
vars == <<req, approved, used, entitled, attendance, workflow, headLogin,
          login, today, standing, edited>>

Statuses == {"PENDING", "APPROVED", "REJECTED", "CANCELLED"}
CancelStatuses == {"NONE", "PENDING", "APPROVED", "REJECTED"}

\* MARKED: a row without a punch whose status is not ON_LEAVE.
\* OVERTIME: a complete pair of punches with overtime minutes.
Rows == {"NONE", "ON_LEAVE", "MARKED", "PUNCHED", "OVERTIME"}

Request ==
    [employee : Employees, type : LeaveTypes, first : Days, last : Days,
     charge : Nat, status : Statuses,
     tier : TierOrders \cup {Null}, cStatus : CancelStatuses,
     cTier : (1 .. MaxTier + 1) \cup {Null}, closedBy : Users \cup {Null}]

ASSUME NullRowAssumption == Null \notin Request

Filed == {r \in RequestIds : req[r] # Null}
Live(r) == r \in Filed /\ req[r].status \in {"PENDING", "APPROVED"}
Granted(r) == r \in Filed /\ req[r].status = "APPROVED"
Covers(r, e, d) ==
    req[r].employee = e /\ req[r].first <= d /\ d <= req[r].last

TiersOf(r) == ActiveTiers(req[r].employee, workflow)
Balance(r) == <<req[r].employee, req[r].type, YearOf[req[r].first]>>
SignedIn(u) == login[u] = "ACTIVE"

TypeOK ==
    /\ req \in [RequestIds -> Request \cup {Null}]
    /\ approved \in [RequestIds -> SUBSET TierOrders]
    /\ used \in [Employees \X LeaveTypes \X Years -> Nat]
    /\ entitled \in [Employees \X LeaveTypes \X Years -> Nat]
    /\ attendance \in [Employees \X Days -> Rows]
    /\ workflow \in [Departments -> Chain]
    /\ headLogin \in [Departments -> Users \cup {Null}]
    /\ login \in [Users -> {"ACTIVE", "DISABLED", "DELETED"}]
    /\ today \in Int
    /\ standing \in [RequestIds -> SUBSET TierOrders]
    /\ edited \subseteq Employees \X Days

Init ==
    /\ req = [r \in RequestIds |-> Null]
    /\ approved = [r \in RequestIds |-> {}]
    /\ used = [b \in Employees \X LeaveTypes \X Years |-> 0]
    /\ entitled = [b \in Employees \X LeaveTypes \X Years |-> 0]
    /\ attendance = [k \in Employees \X Days |-> "NONE"]
    /\ workflow = [d \in Departments |-> NoTiers]
    /\ headLogin = [d \in Departments |-> Null]
    /\ login = [u \in Users |-> "ACTIVE"]
    /\ today = FirstToday
    /\ standing = [r \in RequestIds |-> {}]
    /\ edited = {}

-----------------------------------------------------------------------------
(* Side effects of a decision. *)

\* Slip: charges the year the leave ends in.
ApplyApprovalLateYear(e, t, first, last, charge) ==
    /\ used' = [used EXCEPT ![<<e, t, YearOf[last]>>] = @ + charge]
    /\ attendance' = [k \in Employees \X Days |->
                        IF k[1] = e /\ k[2] \in first .. last /\ attendance[k] = "NONE"
                        THEN "ON_LEAVE" ELSE attendance[k]]

\* applyApprovalSideEffects: charge the balance of the year the leave starts
\* in, and give every covered day without a row an ON_LEAVE row.
ApplyApproval(e, t, first, last, charge) ==
    /\ used' = [used EXCEPT ![<<e, t, YearOf[first]>>] = @ + charge]
    /\ attendance' = [k \in Employees \X Days |->
                        IF k[1] = e /\ k[2] \in first .. last /\ attendance[k] = "NONE"
                        THEN "ON_LEAVE" ELSE attendance[k]]

\* Slip: the deletion without its date range.
ReverseApprovalAllDays(r) ==
    /\ used' = [used EXCEPT ![Balance(r)] =
                    IF @ < req[r].charge THEN 0 ELSE @ - req[r].charge]
    /\ attendance' = [k \in Employees \X Days |->
                        IF k[1] = req[r].employee /\ attendance[k] = "ON_LEAVE"
                        THEN "NONE" ELSE attendance[k]]

\* reverseApprovalSideEffects: refund, never below zero, and drop the covered
\* ON_LEAVE rows that carry no punch.
ReverseApproval(r) ==
    /\ used' = [used EXCEPT ![Balance(r)] =
                    IF @ < req[r].charge THEN 0 ELSE @ - req[r].charge]
    /\ attendance' = [k \in Employees \X Days |->
                        IF Covers(r, k[1], k[2]) /\ attendance[k] = "ON_LEAVE"
                        THEN "NONE" ELSE attendance[k]]

-----------------------------------------------------------------------------
(* Filing a request: LeaveController.createRequest and createMyRequest. *)

MayFile(u, e, override) ==
    /\ SignedIn(u)
    /\ \/ EmployeeOf[u] = e /\ ~override
       \/ MayFileFor(u, e, workflow, headLogin) /\ (override => IsRescuer(RoleOf[u]))

\* Slip: only requests still waiting count as taken days.
DaysFreeOfPending(e, first, last) ==
    \A s \in RequestIds :
        s \in Filed /\ req[s].status = "PENDING" /\ req[s].employee = e
            => ~Overlap(req[s], [first |-> first, last |-> last])

DaysFree(e, first, last) ==
    \A s \in RequestIds :
        Live(s) /\ req[s].employee = e => ~Overlap(req[s], [first |-> first, last |-> last])

Funded(e, t, first, charge) ==
    \/ RuleOf[t] = "UNPAID"
    \/ RuleOf[t] = "POOLED" /\ charge + used[<<e, t, YearOf[first]>>]
                                 <= entitled[<<e, t, YearOf[first]>>]
    \/ RuleOf[t] = "COMPENSATORY" /\ \E d \in Days : attendance[<<e, d>>] = "OVERTIME"
    \/ RuleOf[t] = "MATERNITY" /\ e \in MaternityEligible /\ charge <= MaxMaternity

Filing(u, e, t, first, last, session, override) ==
    /\ MayFile(u, e, override)
    /\ ValidSpan(first, last, session)
    /\ DaysFree(e, first, last)
    /\ override \/ Funded(e, t, first, LeaveCharge(e, first, last, session))

NewRequest(e, t, first, last, session, tier, status, by) ==
    [employee |-> e, type |-> t, first |-> first, last |-> last,
     charge |-> LeaveCharge(e, first, last, session),
     status |-> status, tier |-> tier, cStatus |-> "NONE", cTier |-> Null,
     closedBy |-> by]

\* A type that needs approval: the request waits at the first tier, or in the
\* simple flow when the department has no active workflow.
CreatePending(u, r, e, t, first, last, session, override) ==
    /\ r \notin Filed
    /\ Filing(u, e, t, first, last, session, override)
    /\ NeedsApproval[t]
    /\ LET orders == DOMAIN ActiveTiers(e, workflow)
       IN  /\ req' = [req EXCEPT ![r] = NewRequest(e, t, first, last, session,
                                          FirstIn(orders), "PENDING", Null)]
           /\ standing' = [standing EXCEPT ![r] = orders]
    /\ UNCHANGED <<approved, used, entitled, attendance, orgVars, today, edited>>

\* A type that needs none is approved, charged and marked on the spot.
CreateApproved(u, r, e, t, first, last, session, override) ==
    /\ r \notin Filed
    /\ Filing(u, e, t, first, last, session, override)
    /\ ~NeedsApproval[t]
    /\ req' = [req EXCEPT ![r] = NewRequest(e, t, first, last, session,
                                    Null, "APPROVED", u)]
    /\ ApplyApproval(e, t, first, last, LeaveCharge(e, first, last, session))
    /\ UNCHANGED <<approved, entitled, orgVars, today, standing, edited>>

-----------------------------------------------------------------------------
(* Deciding a PENDING request. *)

\* Slip: a decided request may be decided again.
DecidingAgain(u, r) ==
    /\ SignedIn(u)
    /\ r \in Filed
    /\ MayDecide(u, req[r].employee, req[r].tier, TiersOf(r), headLogin)

Deciding(u, r) ==
    /\ SignedIn(u)
    /\ r \in Filed
    /\ req[r].status = "PENDING"
    /\ MayDecide(u, req[r].employee, req[r].tier, TiersOf(r), headLogin)

\* approve(), a tier with a later one: the decision is recorded and the
\* request moves on.
ApproveTier(u, r) ==
    /\ Deciding(u, r)
    /\ req[r].tier \in DOMAIN TiersOf(r)
    /\ NextIn(DOMAIN TiersOf(r), req[r].tier) # Null
    /\ approved' = [approved EXCEPT ![r] = @ \cup {req[r].tier}]
    /\ req' = [req EXCEPT ![r].tier = NextIn(DOMAIN TiersOf(r), req[r].tier)]
    /\ UNCHANGED <<used, entitled, attendance, orgVars, today, standing, edited>>

\* approve(), the last tier.
ApproveFinal(u, r) ==
    /\ Deciding(u, r)
    /\ req[r].tier \in DOMAIN TiersOf(r)
    /\ NextIn(DOMAIN TiersOf(r), req[r].tier) = Null
    /\ approved' = [approved EXCEPT ![r] = @ \cup {req[r].tier}]
    /\ req' = [req EXCEPT ![r].status = "APPROVED", ![r].tier = Null, ![r].closedBy = u]
    /\ ApplyApproval(req[r].employee, req[r].type, req[r].first, req[r].last, req[r].charge)
    /\ UNCHANGED <<entitled, orgVars, today, standing, edited>>

\* approve(), the simple flow: no tier to stand at, or the tier it stood at is
\* gone.  No decision row, and currentTierOrder keeps its value.
ApproveSimple(u, r) ==
    /\ Deciding(u, r)
    /\ req[r].tier \notin DOMAIN TiersOf(r)
    /\ req' = [req EXCEPT ![r].status = "APPROVED", ![r].closedBy = u]
    /\ ApplyApproval(req[r].employee, req[r].type, req[r].first, req[r].last, req[r].charge)
    /\ UNCHANGED <<approved, entitled, orgVars, today, standing, edited>>

Reject(u, r) ==
    /\ Deciding(u, r)
    /\ req' = [req EXCEPT ![r].status = "REJECTED", ![r].tier = Null, ![r].closedBy = u]
    /\ UNCHANGED <<approved, used, entitled, attendance, orgVars, today, standing, edited>>

-----------------------------------------------------------------------------
(* Cancelling at once: cancel(), and cancelOwn() on a request that is not    *)
(* APPROVED.  The reason an APPROVED one needs is the caller's to give.      *)

Cancelling(u, r) ==
    /\ SignedIn(u)
    /\ r \in Filed
    /\ \/ RoleOf[u] \in {"ADMIN", "HR", "MANAGER"}
       \/ EmployeeOf[u] = req[r].employee /\ req[r].status # "APPROVED"

\* Slip: the cancellation chain of the row is left as it was.
CancelledRowChainKept(row, cStatus, u) ==
    [row EXCEPT !.status = "CANCELLED", !.tier = Null, !.closedBy = u]

CancelledRow(row, cStatus, u) ==
    [row EXCEPT !.status = "CANCELLED", !.tier = Null, !.cStatus = cStatus,
                !.cTier = Null, !.closedBy = u]

CancelGranted(u, r) ==
    /\ Cancelling(u, r)
    /\ req[r].status = "APPROVED"
    /\ ReverseApproval(r)
    /\ req' = [req EXCEPT ![r] = CancelledRow(@, "NONE", u)]
    /\ UNCHANGED <<approved, entitled, orgVars, today, standing, edited>>

CancelOther(u, r) ==
    /\ Cancelling(u, r)
    /\ req[r].status \in {"PENDING", "REJECTED"}
    /\ req' = [req EXCEPT ![r] = CancelledRow(@, "NONE", u)]
    /\ UNCHANGED <<approved, used, entitled, attendance, orgVars, today, standing, edited>>

-----------------------------------------------------------------------------
(* The cancellation chain of an APPROVED request. *)

\* The employee's own, not yet started.
RequestingCancellation(u, r) ==
    /\ SignedIn(u)
    /\ r \in Filed
    /\ EmployeeOf[u] = req[r].employee
    /\ req[r].status = "APPROVED"
    /\ req[r].cStatus # "PENDING"
    /\ today < req[r].first

RequestCancellation(u, r) ==
    /\ RequestingCancellation(u, r)
    /\ req' = [req EXCEPT ![r].cStatus = "PENDING",
                          ![r].cTier = FirstIn(CancellationOrders(TiersOf(r)))]
    /\ UNCHANGED <<approved, used, entitled, attendance, orgVars, today, standing, edited>>

DecidingCancellation(u, r) ==
    /\ SignedIn(u)
    /\ r \in Filed
    /\ req[r].cStatus = "PENDING"
    /\ MayDecideCancellation(u, req[r].employee, req[r].cTier, TiersOf(r), headLogin)

\* The tier the cancellation moves to; Null when the current one is the last
\* of the chain or no longer part of it.
NextCancellationTier(r) ==
    LET orders == CancellationOrders(TiersOf(r))
    IN  IF req[r].cTier \in orders THEN NextIn(orders, req[r].cTier) ELSE Null

ApproveCancellationTier(u, r) ==
    /\ DecidingCancellation(u, r)
    /\ NextCancellationTier(r) # Null
    /\ req' = [req EXCEPT ![r].cTier = NextCancellationTier(r)]
    /\ UNCHANGED <<approved, used, entitled, attendance, orgVars, today, standing, edited>>

ApproveCancellationFinal(u, r) ==
    /\ DecidingCancellation(u, r)
    /\ NextCancellationTier(r) = Null
    /\ ReverseApproval(r)
    /\ req' = [req EXCEPT ![r] = CancelledRow(@, "APPROVED", u)]
    /\ UNCHANGED <<approved, entitled, orgVars, today, standing, edited>>

RejectCancellation(u, r) ==
    /\ DecidingCancellation(u, r)
    /\ req' = [req EXCEPT ![r].cStatus = "REJECTED", ![r].cTier = Null]
    /\ UNCHANGED <<approved, used, entitled, attendance, orgVars, today, standing, edited>>

-----------------------------------------------------------------------------
(* What the requests depend on, changed by other services. *)

\* LeaveWorkflowService.save (tiers given and active) and, with NoTiers,
\* remove or a save that turns the workflow off.
SetWorkflow(u, d, tiers) ==
    /\ SignedIn(u) /\ RoleOf[u] = "ADMIN"
    /\ \A o \in DOMAIN tiers : tiers[o] \in Users => login[tiers[o]] # "DELETED"
    /\ workflow' = [workflow EXCEPT ![d] = tiers]
    /\ standing' = [r \in RequestIds |->
                      IF r \in Filed /\ DepartmentOf[req[r].employee] = d
                      THEN standing[r] \cap DOMAIN tiers ELSE standing[r]]
    /\ UNCHANGED <<dbVars, headLogin, login, today, edited>>

\* DepartmentsService.update with another headEmployeeId.
SetHead(d, u) ==
    /\ u \in Users => login[u] # "DELETED"
    /\ headLogin' = [headLogin EXCEPT ![d] = u]
    /\ UNCHANGED <<dbVars, workflow, login, today, standing, edited>>

\* UsersService.update with isActive, and UsersService.remove, whose foreign
\* keys set the approver of the login's tiers to NULL.
SwitchLogin(u) ==
    /\ login[u] # "DELETED"
    /\ login' = [login EXCEPT ![u] = IF @ = "ACTIVE" THEN "DISABLED" ELSE "ACTIVE"]
    /\ UNCHANGED <<dbVars, workflow, headLogin, today, standing, edited>>

DeleteLogin(u) ==
    /\ login[u] # "DELETED"
    /\ login' = [login EXCEPT ![u] = "DELETED"]
    /\ workflow' = [d \in Departments |->
                      [o \in DOMAIN workflow[d] |->
                         IF workflow[d][o] = u THEN Null ELSE workflow[d][o]]]
    /\ headLogin' = [d \in Departments |-> IF headLogin[d] = u THEN Null ELSE headLogin[d]]
    /\ UNCHANGED <<dbVars, today, standing, edited>>

\* adjustBalance(): sets the entitlement, never what is used.
AdjustBalance(u, b, n) ==
    /\ SignedIn(u) /\ IsRescuer(RoleOf[u])
    /\ entitled' = [entitled EXCEPT ![b] = n]
    /\ UNCHANGED <<req, approved, used, attendance, orgVars, today, standing, edited>>

\* AttendanceService.processDay: a day with a punch log is upserted whole.
ProcessDay(e, d, row) ==
    /\ row \in {"PUNCHED", "OVERTIME"}
    /\ attendance' = [attendance EXCEPT ![<<e, d>>] = row]
    /\ UNCHANGED <<req, approved, used, entitled, orgVars, today, standing, edited>>

\* AttendanceService.correct: sets a status, or check-in and check-out, of an
\* existing row.  It cannot take a punch away, so only rows without one matter.
CorrectAttendance(e, d, row) ==
    /\ attendance[<<e, d>>] \in {"ON_LEAVE", "MARKED"}
    /\ row \in {"ON_LEAVE", "MARKED", "PUNCHED"}
    /\ attendance' = [attendance EXCEPT ![<<e, d>>] = row]
    /\ edited' = edited \cup {<<e, d>>}
    /\ UNCHANGED <<req, approved, used, entitled, orgVars, today, standing>>

NextDay ==
    /\ today < MaxDay
    /\ today' = today + 1
    /\ UNCHANGED <<dbVars, orgVars, standing, edited>>

-----------------------------------------------------------------------------
Decide(u, r) ==
    \/ ApproveTier(u, r) \/ ApproveFinal(u, r) \/ ApproveSimple(u, r) \/ Reject(u, r)
    \/ CancelGranted(u, r) \/ CancelOther(u, r)
    \/ RequestCancellation(u, r)
    \/ ApproveCancellationTier(u, r) \/ ApproveCancellationFinal(u, r)
    \/ RejectCancellation(u, r)

Create(u, r) ==
    \E e \in Employees, t \in LeaveTypes, first, last \in Days,
       session \in {"FULL_DAY", "HALF_DAY"}, override \in BOOLEAN :
        \/ CreatePending(u, r, e, t, first, last, session, override)
        \/ CreateApproved(u, r, e, t, first, last, session, override)

Surroundings ==
    \/ \E u \in Users, d \in Departments, tiers \in SavableChains \cup {NoTiers} :
          SetWorkflow(u, d, tiers)
    \/ \E d \in Departments, u \in HeadChoices : SetHead(d, u)
    \/ \E u \in LoginsAtRisk : SwitchLogin(u) \/ DeleteLogin(u)
    \/ \E u \in Users, b \in Employees \X LeaveTypes \X Years, n \in Entitlements :
          AdjustBalance(u, b, n)
    \/ \E e \in Employees, d \in PunchDays, row \in Rows : ProcessDay(e, d, row)
    \/ \E e \in Employees, d \in CorrectDays, row \in Rows : CorrectAttendance(e, d, row)
    \/ NextDay

Next ==
    \/ \E u \in Users, r \in RequestIds : Create(u, r) \/ Decide(u, r)
    \/ Surroundings

Spec == Init /\ [][Next]_vars

-----------------------------------------------------------------------------
(* Properties. *)

\* No two requests of one employee that are PENDING or APPROVED share a day
\* (the overlap guard of create(), leave.service.ts:563): however a request is
\* decided, cancelled or re-filed afterwards, the guard never needs repeating.
NoOverlap ==
    \A r, s \in RequestIds :
        r # s /\ Live(r) /\ Live(s) /\ req[r].employee = req[s].employee
            => ~Overlap(req[r], req[s])

\* Every day of an APPROVED leave has an attendance row, so no report shows it
\* as an unexplained absence: cancelling one leave never takes the rows of
\* another (applyApprovalSideEffects against reverseApprovalSideEffects).
GrantedDaysMarked ==
    \A r \in RequestIds, d \in Days :
        Granted(r) /\ Covers(r, req[r].employee, d)
            => attendance[<<req[r].employee, d>>] # "NONE"

\* An ON_LEAVE row that HR has not corrected by hand belongs to a leave that is
\* APPROVED now: whichever way a leave ends, its placeholder rows end with it.
NoOrphanPlaceholder ==
    \A e \in Employees, d \in Days :
        attendance[<<e, d>>] = "ON_LEAVE" /\ <<e, d>> \notin edited
            => \E r \in RequestIds : Granted(r) /\ Covers(r, e, d)

Charges == [r \in Filed |-> req[r].charge]
GrantedOn(b) == {r \in RequestIds : Granted(r) /\ Balance(r) = b}

\* What a balance says is used is exactly what its APPROVED leaves were charged:
\* nothing is charged twice, refunded twice or hidden by the floor at zero in
\* reverseApprovalSideEffects, whatever else HR does to the balance.
UsedMatchesGranted ==
    \A b \in DOMAIN used : used[b] = SumFunctionOnSet(Charges, GrantedOn(b))

\* A cancellation chain runs only over an APPROVED leave, stands at a tier
\* exactly while it runs, and is APPROVED only on a CANCELLED leave: a direct
\* cancel() in the middle of the chain leaves nothing of it to be decided.
CancellationInStep ==
    \A r \in Filed :
        /\ req[r].cStatus = "PENDING" => req[r].status = "APPROVED"
        /\ req[r].cStatus = "APPROVED" => req[r].status = "CANCELLED"
        /\ (req[r].cTier # Null) = (req[r].cStatus = "PENDING")

\* A leave cancelled through its chain was closed by ADMIN or HR, however the
\* department's tiers were edited while the chain ran ("approving the final
\* tier (always HR Admin)", leave.service.ts:1244).
HrAdminClosesChain ==
    \A r \in Filed : req[r].cStatus = "APPROVED" => IsRescuer(RoleOf[req[r].closedBy])

\* A request approved along its chain has the approval of every tier that stood
\* in the chain from the day it was filed: saving the workflow while the
\* request travels never makes it jump a tier it still had to pass.
NoTierSkipped ==
    \A r \in Filed :
        req[r].status = "APPROVED" /\ req[r].tier = Null => standing[r] \subseteq approved[r]

\* Removing a department's workflow "reverts a department to the original simple
\* flow (any ADMIN/HR/MANAGER may decide any request in it)"
\* (leave-workflow.service.ts:118), the requests on their way included.
SimpleFlowRestored ==
    \A r \in Filed, u \in Users :
        (/\ req[r].status = "PENDING" /\ DOMAIN TiersOf(r) = {}
         /\ SignedIn(u) /\ RoleOf[u] \in {"ADMIN", "HR", "MANAGER"})
        => MayDecide(u, req[r].employee, req[r].tier, TiersOf(r), headLogin)

\* A day with a punch never loses it, whatever is decided about a leave over it
\* ("never touch a day that has real punch data", leave.service.ts:912).
PunchesKept ==
    [][\A k \in Employees \X Days :
          attendance[k] \in {"PUNCHED", "OVERTIME"}
              => attendance'[k] \in {"PUNCHED", "OVERTIME"}]_vars

-----------------------------------------------------------------------------
(* The lifecycle each employee is promised, under this mapping. *)

PhaseOf(row) ==
    CASE row = Null -> "UNFILED"
      [] row # Null /\ row.status = "PENDING" -> "OPEN"
      [] row # Null /\ row.status = "APPROVED" -> "GRANTED"
      [] row # Null /\ row.status = "REJECTED" -> "REFUSED"
      [] row # Null /\ row.status = "CANCELLED" -> "WITHDRAWN"

HolderOf(row) == IF row = Null THEN Null ELSE row.employee
SpanOf(row) == IF row = Null THEN {} ELSE row.first .. row.last

Lifecycle == INSTANCE LeaveLifecycle WITH
    phase <- [r \in RequestIds |-> PhaseOf(req[r])],
    holder <- [r \in RequestIds |-> HolderOf(req[r])],
    span <- [r \in RequestIds |-> SpanOf(req[r])]

\* The service implements the abstract lifecycle: a leave day is held by one
\* request at a time, a decision is final except that it may be withdrawn, and
\* a withdrawn request never comes back.
ImplementsLifecycle == Lifecycle!Spec
=============================================================================
