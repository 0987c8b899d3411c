SPECIFICATION DeskSpec
CONSTANTS
    Null = Null
    Staff = {e1}
    Days = {1, 2}
    Times = {9, 14}
    ShiftStart = 8
    ShiftEnd = 13
    Grace = 0
    Clerks = {k1}
    Sync = sync
    HandDays = {1}
    HandTimes = {14}
    HandModes = {"OUT"}
    HolidayDays = {2}
    Duties = {x1}
    Plans = {"OFF", "s1"}
    Planners = {hr, mg}
    Managers = {mg}
    casual = casual
    Kinds = {casual}
    Asked = {casual}
    Policy <- MCPolicy
    DaysPerYear = 2
    LastDay = 5
    Ahead = 1
    Overdraft = 1
    StartDays = {0}
    Employees = {e1}
    Codes = {n1}
    Usernames = {a1}
    Logins = {u1, u2}
    Savers = {r1}
    Resetters = {r2}
    Edits = {"EMPLOYEE", "ADMIN"}
    People = {p1, p2}
    Categories = {c1, c2}
    Types = {t1}
    PolicyDesks = {d1}
    StaffDesks = {d2}
    Hands = {h1, h2}
CHECK_DEADLOCK FALSE
INVARIANTS
    DeskTypeOK
    RecordTellsLogs InAndOutMatched
    ToldWhatStands
    NoDayTwice
    LoginFollowsRole
    EntitledHaveRows
    ShowsOwnChanges
PROPERTIES
    CorrectionStands PunchesArrive
    ApprovedIsLocked RefusedOnlyStale
