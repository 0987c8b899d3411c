SPECIFICATION ClientsSpec
CONSTANTS
    Null = Null
    c1 = c1
    c2 = c2
    Callers = {c1, c2}
    Addresses = {a1}
    MaxSockets = 2
    ConnectRetries = 0
    PoolOps <- MCPoolOps
    Devices = {d1, d2}
    Places = {p1}
    Clients = {v1}
    DeviceCalls = {"DISCONNECT", "ASK"}
    lead = lead
    staff = staff
    u1 = u1
    u2 = u2
    n1 = n1
    Timer = timer
    Gone = gone
    Employees = {1, 2}
    Uids = {u1, u2}
    Names = {n1}
    Slots = {1, 2}
    SlotOf <- MCSlotOf
    Cut <- MCCut
    Enrolled <- MCEnrolled
    Pushes = {c1}
    HrCodes = {u1}
    HrNames = {n1}
    UidChoices = {}
    StatusEdits = {}
    LeaveAs = {}
    Patient = TRUE
    MayCrash = TRUE
    Pages = {w1, w2}
    Visitors = {lead, staff}
    Casts <- MCCasts
    OpenedAt = {"HRADMIN"}
INVARIANTS
    ClientsTypeOK OneCommandAtATime NothingLeaked PausedOnlyUnanswered
    NobodyInherits
PROPERTIES
    OneCloseAbsorbed CallsEnd
    StatusSettles
    RefusedLeave FailedPushesHeal
