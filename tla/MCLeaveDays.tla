------------------------------- MODULE MCLeaveDays -------------------------------
(* LeaveRequests with two requests of one employee over days of two years,    *)
(* punches and hand corrections between the steps; the department has no      *)
(* tiers; one HR login files and decides.                                      *)
EXTENDS LeaveRequests, TLC

CONSTANTS e1, hr, dept, annual, compensatory

MCRoleOf == hr :> "HR"
MCEmployeeOf == hr :> e1
MCEmployeeRole == e1 :> "EMPLOYEE"
MCDepartmentOf == e1 :> dept
MCWeeklyOff == e1 :> {2}
MCYearOf == [d \in Days |-> IF d = 1 THEN 1 ELSE 2]
MCRuleOf == annual :> "POOLED" @@ compensatory :> "COMPENSATORY"
MCNeedsApproval == annual :> TRUE @@ compensatory :> FALSE
RequestSymmetry == Permutations(RequestIds)
=============================================================================
