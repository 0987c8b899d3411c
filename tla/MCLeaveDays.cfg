CONSTANTS
    e1 = e1
    hr = hr
    dept = dept
    annual = annual
    compensatory = compensatory
    Null = Null
    Employees = {e1}
    Users = {hr}
    Departments = {dept}
    LeaveTypes = {annual, compensatory}
    Years = {1, 2}
    MaxDay = 2
    MaxTier = 1
    MaxMaternity = 3
    RoleOf <- MCRoleOf
    EmployeeOf <- MCEmployeeOf
    EmployeeRole <- MCEmployeeRole
    DepartmentOf <- MCDepartmentOf
    WeeklyOff <- MCWeeklyOff
    MaternityEligible = {}
    YearOf <- MCYearOf
    RuleOf <- MCRuleOf
    NeedsApproval <- MCNeedsApproval
    RequestIds = {r1, r2}
    SavableChains = {}
    Entitlements = {3}
    HeadChoices = {}
    LoginsAtRisk = {}
    PunchDays = {2}
    CorrectDays = {2}
    FirstToday = 1
SPECIFICATION Spec
SYMMETRY RequestSymmetry
INVARIANTS
    NoOverlap
    GrantedDaysMarked
    UsedMatchesGranted
PROPERTIES
    ImplementsLifecycle
