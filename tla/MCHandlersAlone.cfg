CONSTANTS
    e1 = e1
    hr = hr
    lead = lead
    dept = dept
    annual = annual
    compensatory = compensatory
    h1 = h1
    h2 = h2
    Null = Null
    Employees = {e1}
    Users = {hr, lead}
    Departments = {dept}
    LeaveTypes = {annual, compensatory}
    Years = {1}
    MaxDay = 2
    MaxTier = 2
    MaxMaternity = 3
    RoleOf <- MCRoleOf
    EmployeeOf <- MCEmployeeOf
    EmployeeRole <- MCEmployeeRole
    DepartmentOf <- MCDepartmentOf
    WeeklyOff <- MCWeeklyOff
    MaternityEligible = {}
    YearOf <- MCYearOf
    RuleOf <- MCRuleOf
    NeedsApproval <- MCNeedsApproval
    RequestIds = {r1}
    SavableChains <- Chains
    Entitlements = {4}
    HeadChoices = {}
    LoginsAtRisk = {}
    PunchDays = {1}
    CorrectDays = {}
    FirstToday = 1
    Handlers = {h1}
    MayCrash = FALSE
    Interrupted = FALSE
    Calls = {"CREATE", "APPROVE", "REJECT", "CANCEL",
             "REQUEST", "APPROVE_CANCEL", "REJECT_CANCEL"}
SPECIFICATION HSpec

INVARIANT HTypeOK
PROPERTY ImplementsSerial
