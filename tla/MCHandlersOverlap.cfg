CONSTANTS
    e1 = e1
    hr = hr
    lead = lead
    dept = dept
    annual = annual
    compensatory = compensatory
    h1 = h1
    h2 = h2
    Null = Null
    Employees = {e1}
    Users = {hr, lead}
    Departments = {dept}
    LeaveTypes = {annual}
    Years = {1}
    MaxDay = 1
    MaxTier = 2
    MaxMaternity = 3
    RoleOf <- MCRoleOf
    EmployeeOf <- MCEmployeeOf
    EmployeeRole <- MCEmployeeRole
    DepartmentOf <- MCDepartmentOf
    WeeklyOff <- MCWeeklyOff
    MaternityEligible = {}
    YearOf <- MCYearOf
    RuleOf <- MCRuleOf
    NeedsApproval <- MCNeedsApproval
    RequestIds = {r1}
    SavableChains <- Chains
    Entitlements = {}
    HeadChoices = {}
    LoginsAtRisk = {}
    PunchDays = {1}
    CorrectDays = {}
    FirstToday = 0
    Handlers = {h1, h2}
    MayCrash = FALSE
    Interrupted = TRUE
    Calls = {"CREATE", "APPROVE", "REJECT", "CANCEL"}
SPECIFICATION HSpec
SYMMETRY HandlerSymmetry
INVARIANT GrantedTierByTier
PROPERTY PunchesKept
