------------------------------ MODULE MCLeaveChain ------------------------------
(* LeaveRequests, and what its screens offer, with the approval chain, the    *)
(* department head and the logins free to change while requests travel;      *)
(* attendance and balances stand still.                                      *)
EXTENDS LeaveScreens, TLC

CONSTANTS e1, e2, admin, lead, staff, dept, maternity

MCRoleOf == admin :> "ADMIN" @@ lead :> "MANAGER" @@ staff :> "EMPLOYEE"
MCEmployeeOf == admin :> Null @@ lead :> e2 @@ staff :> e1
MCEmployeeRole == e1 :> "EMPLOYEE" @@ e2 :> "MANAGER"
MCDepartmentOf == e1 :> dept @@ e2 :> dept
MCWeeklyOff == e1 :> {1} @@ e2 :> {}
MCYearOf == [d \in Days |-> 1]
MCRuleOf == maternity :> "MATERNITY"
MCNeedsApproval == maternity :> TRUE

OneTier == 1 :> lead
TwoTiers == 1 :> REPORTING_SUPERIOR @@ 2 :> lead
LateTier == 2 :> REPORTING_SUPERIOR
MCSavableChains == {OneTier, TwoTiers, LateTier}
=============================================================================
