----------------------------- MODULE MCLeaveHandlers -----------------------------
(* LeaveHandlers for one employee, who is also the ADMIN, and a lead who only  *)
(* decides at the tiers that name him.                                         *)
EXTENDS LeaveHandlers, TLC

CONSTANTS e1, hr, lead, dept, annual, compensatory, h1, h2

MCRoleOf == hr :> "ADMIN" @@ lead :> "EMPLOYEE"
MCEmployeeOf == hr :> e1 @@ lead :> Null
MCEmployeeRole == e1 :> "EMPLOYEE"
MCDepartmentOf == e1 :> dept
MCWeeklyOff == e1 :> {}
MCYearOf == [d \in Days |-> 1]
MCRuleOf == [t \in LeaveTypes |-> IF t = annual THEN "POOLED" ELSE "COMPENSATORY"]
MCNeedsApproval == [t \in LeaveTypes |-> t = annual]

OneTier == 1 :> lead
TwoTiers == 1 :> lead @@ 2 :> lead
LateTier == 2 :> hr
NoChains == {}
OneChain == {OneTier}
Chains == {TwoTiers, LateTier}

HandlerSymmetry == Permutations(Handlers)
RequestSymmetry == Permutations(RequestIds)
=============================================================================
