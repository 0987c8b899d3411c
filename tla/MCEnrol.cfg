SPECIFICATION Spec
CONSTANTS
    u1 = u1  u2 = u2  n1 = n1  n2 = n2
    Timer = timer
    Null = null
    Gone = gone
    Employees = {1, 2}
    Uids = {u1, u2}
    Names = {n1, n2}
    Slots = {1, 2}
    SlotOf <- MCSlotOf
    Cut <- MCCut
    Enrolled <- MCEnrolled
    Pushes = {p1}
    HrCodes = {u1}
    HrNames = {n2}
    UidChoices = {}
    StatusEdits = {}
    LeaveAs = {"RESIGNED"}
    Patient = TRUE
    MayCrash = TRUE
INVARIANTS TypeOK SyncedIsEnrolled
