------------------------------ MODULE LeaveRules ------------------------------
(***************************************************************************)
(* The decision rules of the leave service (leave/leave.service.ts) as     *)
(* operators on values: how many days a request costs, who may decide it,  *)
(* which tier comes next, which days two requests share.  They read no     *)
(* variable, so the serial model (LeaveRequests) and the model of          *)
(* overlapping handlers (LeaveHandlers) apply the same rules to what each  *)
(* of them has read from the database.                                     *)
(*                                                                         *)
(* A department's approval chain is a function from tier orders to who     *)
(* approves the tier: a login, REPORTING_SUPERIOR, or Null (the approver's *)
(* login was deleted).  The function with the empty domain stands for no   *)
(* workflow and for an inactive one, which the service treats alike.       *)
(* Charges and balances are counted in half days.                          *)
(***************************************************************************)
EXTENDS Integers, FiniteSets, FiniteSetsExt, Common

CONSTANTS
    Employees,         \* rows of Employee
    Users,             \* rows of User: the logins
    Departments,
    LeaveTypes,
    Years,
    MaxDay,            \* calendar days are 1..MaxDay
    MaxTier,           \* tier orders are 1..MaxTier
    MaxMaternity,      \* the 112-day cap, in half days
    RoleOf,            \* User.role
    EmployeeOf,        \* User.employeeId
    EmployeeRole,      \* Employee.employeeRole
    DepartmentOf,      \* Employee.departmentId
    WeeklyOff,         \* the days off in the weekend rule of the employee's shift
    MaternityEligible, \* female, two years of tenure, document attached
    YearOf,            \* the calendar year of a day
    RuleOf,            \* what the balance step of create() checks for a type
    NeedsApproval      \* LeaveType.requiresApproval

Days == 1 .. MaxDay
TierOrders == 1 .. MaxTier

Roles == {"ADMIN", "HR", "MANAGER", "SUPERVISOR", "EMPLOYEE"}
EmployeeRoles == {"EMPLOYEE", "SUPERVISOR", "MANAGER", "MANAGING_DIRECTOR"}
REPORTING_SUPERIOR == "REPORTING_SUPERIOR"

Chain == UNION {[S -> Users \cup {REPORTING_SUPERIOR, Null}] : S \in SUBSET TierOrders}
NoTiers == [o \in {} |-> Null]

ASSUME BoundsAssumption ==
    /\ MaxDay \in Nat
    /\ MaxTier \in Nat
    /\ MaxMaternity \in Nat
ASSUME NullAssumption == Null \notin Nat \cup Users \cup Employees \cup Departments
ASSUME DirectoryAssumption ==
    /\ RoleOf \in [Users -> Roles]
    /\ EmployeeOf \in [Users -> Employees \cup {Null}]
    /\ EmployeeRole \in [Employees -> EmployeeRoles]
    /\ DepartmentOf \in [Employees -> Departments \cup {Null}]
    /\ WeeklyOff \in [Employees -> SUBSET Days]
    /\ MaternityEligible \subseteq Employees
ASSUME TypesAssumption ==
    /\ YearOf \in [Days -> Years]
    /\ RuleOf \in [LeaveTypes -> {"POOLED", "UNPAID", "COMPENSATORY", "MATERNITY"}]
    /\ NeedsApproval \in [LeaveTypes -> BOOLEAN]

-----------------------------------------------------------------------------
(* What a request covers and costs. *)

\* The charge of a request: one half day for a half-day session, otherwise the
\* days that are not weekly offs, and one whole day if there is none.
LeaveCharge(e, first, last, session) ==
    LET working == Cardinality({d \in first .. last : d \notin WeeklyOff[e]})
    IN  IF session # "FULL_DAY" THEN 1 ELSE IF working = 0 THEN 2 ELSE 2 * working

\* The inputs calculateLeaveDays accepts.
ValidSpan(first, last, session) ==
    /\ first <= last
    /\ session # "FULL_DAY" => first = last

Overlap(a, b) == a.first <= b.last /\ b.first <= a.last

-----------------------------------------------------------------------------
(* Who decides. *)

IsRescuer(role) == role \in {"ADMIN", "HR"}

\* The active, non-empty tier chain of the employee's department, if any.
ActiveTiers(e, workflow) ==
    IF DepartmentOf[e] = Null THEN NoTiers ELSE workflow[DepartmentOf[e]]

\* The login a tier names; a REPORTING_SUPERIOR tier names the login of
\* whoever heads the department now.
ResolveTierApprover(approver, e, headLogin) ==
    IF approver = REPORTING_SUPERIOR THEN headLogin[DepartmentOf[e]] ELSE approver

\* A login may act on a tier it is resolved to; ADMIN and HR may when nobody is.
MayActOnTier(u, approver, e, headLogin) ==
    LET resolved == ResolveTierApprover(approver, e, headLogin)
    IN  resolved = u \/ (resolved = Null /\ IsRescuer(RoleOf[u]))

MayDecide(u, e, tier, tiers, headLogin) ==
    IF tier = Null THEN RoleOf[u] \in {"ADMIN", "HR", "MANAGER"}
    ELSE IF tier \notin DOMAIN tiers THEN IsRescuer(RoleOf[u])
    ELSE MayActOnTier(u, tiers[tier], e, headLogin)

\* The order of the tier after `tier`, or Null when it is the last one.
NextIn(orders, tier) ==
    LET later == {o \in orders : o > tier}
    IN  IF later = {} THEN Null ELSE Min(later)
\* Slip: the chain read in descending order.
LastIn(orders) == IF orders = {} THEN Null ELSE Max(orders)

FirstIn(orders) == IF orders = {} THEN Null ELSE Min(orders)

\* Slip: one past the order after the last tier.
HrAdminOrderPast(tiers) ==
    IF DOMAIN tiers = {} THEN 1 ELSE Max(DOMAIN tiers) + 2

\* The implicit last tier of a cancellation: one above the department's tiers.
HrAdminOrder(tiers) ==
    IF DOMAIN tiers = {} THEN 1 ELSE Max(DOMAIN tiers) + 1
\* Slip: the implicit tier only where the department has none.
CancellationOrdersOrTiers(tiers) ==
    IF DOMAIN tiers = {} THEN {HrAdminOrder(tiers)} ELSE DOMAIN tiers

CancellationOrders(tiers) == DOMAIN tiers \cup {HrAdminOrder(tiers)}

MayDecideCancellation(u, e, cTier, tiers, headLogin) ==
    /\ cTier # Null
    /\ IF cTier \in DOMAIN tiers
       THEN MayActOnTier(u, tiers[cTier], e, headLogin)
       ELSE IsRescuer(RoleOf[u])

-----------------------------------------------------------------------------
(* Who may file. *)

\* The departments a login leads: it is the login of their head, or an active
\* tier of theirs names it.
Leads(u, workflow, headLogin) ==
    {d \in Departments :
        headLogin[d] = u \/ \E o \in DOMAIN workflow[d] : workflow[d][o] = u}

\* assertCanActOnBehalf: MANAGER and SUPERVISOR file only inside a department
\* they lead and never for someone above their own tier.
MayFileFor(u, e, workflow, headLogin) ==
    \/ IsRescuer(RoleOf[u])
    \/ /\ RoleOf[u] \in {"MANAGER", "SUPERVISOR"}
       /\ EmployeeOf[u] # Null
       /\ DepartmentOf[e] \in Leads(u, workflow, headLogin)
       /\ EmployeeRole[e] \notin IF RoleOf[u] = "SUPERVISOR"
                                 THEN {"MANAGER", "MANAGING_DIRECTOR"}
                                 ELSE {"MANAGING_DIRECTOR"}
=============================================================================
