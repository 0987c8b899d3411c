CONSTANTS
    e1 = e1
    e2 = e2
    admin = admin
    lead = lead
    staff = staff
    dept = dept
    maternity = maternity
    Null = Null
    Employees = {e1, e2}
    Users = {admin, lead, staff}
    Departments = {dept}
    LeaveTypes = {maternity}
    Years = {1}
    MaxDay = 2
    MaxTier = 2
    MaxMaternity = 2
    RoleOf <- MCRoleOf
    EmployeeOf <- MCEmployeeOf
    EmployeeRole <- MCEmployeeRole
    DepartmentOf <- MCDepartmentOf
    WeeklyOff <- MCWeeklyOff
    MaternityEligible = {e1}
    YearOf <- MCYearOf
    RuleOf <- MCRuleOf
    NeedsApproval <- MCNeedsApproval
    RequestIds = {r1}
    SavableChains <- MCSavableChains
    Entitlements = {}
    HeadChoices = {lead, Null}
    LoginsAtRisk = {lead}
    PunchDays = {}
    CorrectDays = {}
    FirstToday = 1
SPECIFICATION Spec
INVARIANTS
    TypeOK
    CancellationInStep
    HrAdminClosesChain
    NoTierSkipped
    ScreensOfferDecisions
