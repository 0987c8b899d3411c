------------------------------- MODULE WebScreens -------------------------------
(***************************************************************************)
(* The web client as far as its lists go: the calls its hooks make         *)
(* (src/frontend/src/hooks), with the lists that change on the server and  *)
(* the lists the hook names to be fetched again, and the components that   *)
(* show lists and make calls, up to the screens of each client.  A list is *)
(* a query key without its parameters.                                     *)
(*                                                                         *)
(* A list changes with a call that changes which rows its query returns or *)
(* a column it returns, of its own rows or of rows they join: a device's   *)
(* name changes with the device, and so does the enrolment history, which  *)
(* shows it.  Not taken as changes are totals that other lists carry (the  *)
(* employees of a department), the audit trail and the recent activity,    *)
(* notifications, reports, and what the server goes on doing after its     *)
(* answer.  What is fetched only once something is chosen or opened is taken *)
(* as shown throughout.                                                    *)
(***************************************************************************)

-----------------------------------------------------------------------------
(* What the lists return: rows of other tables they join, by what is joined. *)

RequestLists ==
    {"leave-requests", "leave-applied-on-behalf", "my-leave-requests", "my-approvals"}
BalanceLists == {"leave-balances", "my-leave-balances"}
EmployeeRows == {"employees", "employee"}

\* Lists with the names of employees, of approvers and other logins, and so on.
EmployeeNames ==
    EmployeeRows \cup RequestLists \cup
    {"departments", "department-superiors", "system-users", "app-users", "attendance",
     "attendance-missing", "sync-history", "roster", "dashboard"}
AccountNames ==
    EmployeeRows \cup RequestLists \cup
    {"system-users", "app-users", "leave-workflows", "roster", "my-roster"}
DepartmentNames ==
    EmployeeRows \cup RequestLists \cup
    {"departments", "leave-workflows", "designations", "department-superiors", "attendance",
     "roster", "dashboard"}
DesignationNames == EmployeeRows \cup {"designations", "roster"}
ShiftNames == EmployeeRows \cup RequestLists \cup {"shifts", "attendance", "roster", "my-roster"}
LeaveTypeNames ==
    RequestLists \cup BalanceLists \cup
    {"leave-types", "leave-category-policies", "my-eligible-leave-types", "dashboard"}

\* Leave types on offer, with a balance for each; a day's record; who is active, and
\* enrolled; a new employee, with his login and balances.
OfferLists == {"leave-types", "my-eligible-leave-types"} \cup BalanceLists
RecordLists == {"attendance", "attendance-missing", "roster", "dashboard"}
ActivationLists == EmployeeRows \cup {"roster", "sync-history", "dashboard"}
NewEmployeeLists ==
    {"employees", "system-users", "app-users", "leave-balances", "roster", "dashboard"}

\* A leave that is granted or taken back: its balance, and its days.
DecidedLists == RequestLists \cup BalanceLists \cup {"attendance", "roster", "dashboard"}

-----------------------------------------------------------------------------
(* Calls: which lists change with them, and which their hooks invalidate. *)

Call(name, writes, names) == [name |-> name, writes |-> writes, names |-> names]

\* A call whose hook names all that changes.
Tidy(name, lists) == Call(name, lists, lists)

LeaveTypeCalls ==
    {Call("createLeaveType", OfferLists, {"leave-types"}),
     Call("deactivateLeaveType", OfferLists \cup {"leave-category-policies"}, {"leave-types"})}

CategoryCalls ==
    {Tidy("createCategory", {"employee-categories"}),
     Call("updateCategory", {"employee-categories", "leave-category-policies"} \cup EmployeeRows,
          {"employee-categories"})}

\* The screen itself names the second list of a rename.
PolicyCalls ==
    {Tidy("updatePolicy", {"leave-category-policies"}),
     Call("deletePolicy", {"leave-category-policies", "my-eligible-leave-types"},
          {"leave-category-policies"}),
     Call("quickAddPolicy", OfferLists \cup {"leave-category-policies"},
          {"leave-category-policies", "leave-types"}),
     Call("renameLeave", LeaveTypeNames, {"leave-types", "leave-category-policies"})}

RequestCalls ==
    {Call("createLeave", DecidedLists \cup {"leave-pending-count"},
          {"leave-requests", "leave-balances", "leave-pending-count", "leave-applied-on-behalf"}),
     Call("approveLeave", DecidedLists \cup {"leave-pending-count"},
          {"leave-requests", "leave-balances", "leave-pending-count", "attendance",
           "my-approvals"}),
     Call("rejectLeave", RequestLists \cup {"leave-pending-count"},
          {"leave-requests", "leave-pending-count", "my-approvals"})}

RejectCancellation ==
    Call("rejectCancellation", RequestLists,
         {"leave-requests", "my-approvals", "my-leave-requests"})
CancelLeave ==
    Call("cancelLeave", DecidedLists \cup {"leave-pending-count"},
         {"leave-requests", "leave-balances", "attendance"})

\* Slip: approving a cancellation refreshes the requests only.
CancellationCallsRequests ==
    {Call("approveCancellation", DecidedLists, {"leave-requests"}), RejectCancellation, CancelLeave}

CancellationCalls ==
    {Call("approveCancellation", DecidedLists,
          {"leave-requests", "leave-balances", "attendance", "my-approvals",
           "my-leave-requests"}),
     RejectCancellation, CancelLeave}

\* The Attendance page; the other clients only read.
AttendanceCalls ==
    {Call("syncAttendance", RecordLists \cup {"devices"},
          {"attendance", "attendance-missing", "dashboard"}),
     Call("approveAttendance", {"attendance", "attendance-missing"}, {"attendance"})} \cup
    {Call(name, RecordLists, {"attendance"}) : name \in {"manualPunch", "correctAttendance"}}

BalanceCalls == {Tidy("initializeBalances", BalanceLists)}

\* Lists of leaves filed for others and of one's team leave one's own out.
MyLeaveCalls ==
    {Call(name,
          (RequestLists \ {"leave-applied-on-behalf"}) \cup BalanceLists
              \cup {"leave-pending-count", "attendance", "roster"},
          {"my-leave-requests", "my-leave-balances"}) :
        name \in {"createMyLeave", "cancelMyLeave"}}

RosterCalls ==
    {Tidy(name, {"roster", "my-roster", "roster-pending-count"}) :
        name \in {"upsertRoster", "approveRoster", "clearRoster"}}

\* The history of an employee's enrolment has the device's name, the dashboard its state.
DeviceCalls ==
    {Call("createDevice", {"devices", "dashboard"}, {"devices"}),
     Call("updateDevice", {"devices", "sync-history", "dashboard"}, {"devices"}),
     Call("deleteDevice", {"devices", "sync-history", "device-logs", "dashboard"}, {"devices"})}
    \cup
    {Call(name, {"devices", "device-logs", "dashboard"}, {"devices", "device-logs"}) :
        name \in {"connect", "disconnect", "restart", "syncTime"}}

\* These three invalidate nothing.
DeviceQuestions ==
    {Call("testConnection", {"device-logs"}, {})} \cup
    {Call(name, {"devices", "dashboard"}, {}) : name \in {"deviceInfo", "deviceUsers"}}

EnrolCalls ==
    {Call("importDeviceUsers", NewEmployeeLists \cup {"sync-history"},
          {"employees", "sync-history"})} \cup
    {Call(name, EmployeeRows \cup {"sync-history"}, {"employees", "sync-history"}) :
        name \in {"bulkSync", "retryFailed"}}

EmployeeCalls ==
    {Call("createEmployee", NewEmployeeLists, {"employees"}),
     Call("updateEmployee",
          EmployeeNames \cup AccountNames \cup BalanceLists \cup {"my-eligible-leave-types"},
          EmployeeRows),
     Call("resign", EmployeeRows \cup {"roster", "dashboard"}, {"employees"}),
     Call("resetPassword", EmployeeRows \cup {"system-users", "app-users"}, {}),
     Call("deleteEmployee",
          EmployeeNames \cup {"leave-balances", "leave-pending-count", "roster-pending-count"},
          {"employees"})}

\* Disable, Activate and Reinstate of the profile, and of the resigned employees' list.
StatusCalls ==
    {Call("toggleStatus", ActivationLists, EmployeeRows),
     Call("reinstate", ActivationLists, {"employees"})}

UserCalls ==
    {Call("createUser", EmployeeRows \cup {"system-users", "app-users"}, {"system-users"})} \cup
    {Call(name, AccountNames, {"system-users"}) : name \in {"updateUser", "deleteUser"}}

\* The Settings page has a list of its own for the same logins.
AppUserCalls ==
    {Call("createAppUser", EmployeeRows \cup {"system-users", "app-users"}, {"app-users"}),
     Call("deleteAppUser", AccountNames, {"app-users"})}

\* The access level on the profile, which names the employee's lists itself.
AccessCalls == {Call("changeAccess", AccountNames, {"system-users"} \cup EmployeeRows)}

DepartmentCalls ==
    {Call("createDepartment", {"departments", "leave-workflows", "dashboard"}, {"departments"})}
    \cup
    {Call(name, DepartmentNames, {"departments"}) :
        name \in {"updateDepartment", "deleteDepartment"}}

SuperiorCalls ==
    {Tidy(name, {"department-superiors"}) : name \in {"createSuperior", "deleteSuperior"}}

DesignationCalls ==
    {Tidy("createDesignation", {"designations"})} \cup
    {Call(name, DesignationNames, {"designations"}) :
        name \in {"updateDesignation", "deleteDesignation"}}

ShiftCalls ==
    {Tidy("createShift", {"shifts"})} \cup
    {Call(name, ShiftNames, {"shifts"}) : name \in {"updateShift", "deleteShift"}}

HolidayCalls ==
    {Call(name, {"holidays", "dashboard"}, {"holidays"}) :
        name \in {"createHoliday", "updateHoliday", "deleteHoliday"}}

\* Requests come with the labels of their department's tiers.
WorkflowCalls ==
    {Call(name, {"leave-workflows", "dashboard"} \cup RequestLists, {"leave-workflows"}) :
        name \in {"saveWorkflow", "deleteWorkflow"}}

NotificationCalls == {Tidy(name, {"notifications"}) : name \in {"markRead", "markAllRead"}}

CompanyCalls == {Tidy("saveCompany", {"company"})}

AllCalls ==
    UNION {LeaveTypeCalls, CategoryCalls, PolicyCalls, RequestCalls, CancellationCalls,
           AttendanceCalls, BalanceCalls, MyLeaveCalls, RosterCalls, DeviceCalls,
           DeviceQuestions, EnrolCalls, EmployeeCalls, StatusCalls, UserCalls, AppUserCalls,
           AccessCalls, DepartmentCalls, SuperiorCalls, DesignationCalls, ShiftCalls,
           HolidayCalls, WorkflowCalls, NotificationCalls, CompanyCalls}

(* Lists a hook does not name although its screen, or the frame around it, shows them. *)
Forgotten ==
    ({"cancelLeave"} \X {"leave-pending-count"})
    \cup ({"createLeave"} \X {"my-approvals", "dashboard"})
    \cup ({"createMyLeave", "cancelMyLeave"} \X {"my-approvals"})
    \cup ({"approveLeave", "approveCancellation"} \X {"my-leave-balances"})
    \cup ({"updateCategory"} \X {"leave-category-policies"})
    \cup ({"approveAttendance", "manualPunch", "correctAttendance"} \X {"attendance-missing"})
    \cup ({"updateDevice"} \X {"sync-history"})
    \cup ({"deleteDevice"} \X {"sync-history", "device-logs"})
    \cup ({"testConnection"} \X {"device-logs"})
    \cup ({"deviceInfo", "deviceUsers"} \X {"devices"})
    \cup ({"updateEmployee", "deleteEmployee"} \X {"departments", "attendance"})
    \cup ({"resign"} \X {"employee"})
    \cup ({"resetPassword"} \X {"employee", "employees"})
    \cup ({"createUser", "updateUser", "deleteUser"} \X {"employees"})
    \cup ({"updateDepartment", "deleteDepartment"} \X {"employees"})

-----------------------------------------------------------------------------
(* Components: the lists they show, and the calls they make. *)

Part(shows, makes) == [shows |-> shows, makes |-> makes]
Shows(lists) == Part(lists, {})
Makes(names) == Part({}, names)
Together(parts) ==
    Part(UNION {p.shows : p \in parts}, UNION {p.makes : p \in parts})
Screen(name, parts) ==
    [name |-> name, shows |-> Together(parts).shows, makes |-> Together(parts).makes]

(* Modals are mounted, closed or open, with the component that has them. *)

NewLeaveRequestModal ==
    Part({"leave-types", "leave-balances", "employees"}, {"createLeave"})
NewTeamLeaveModal == Part({"leave-types", "leave-balances"}, {"createLeave"})
ApproveLeaveModal == Makes({"approveLeave"})
RejectLeaveModal == Makes({"rejectLeave", "rejectCancellation"})
CancelLeaveModal == Makes({"cancelLeave"})
MyLeaveRequestModal == Part({"my-eligible-leave-types", "my-leave-balances"}, {"createMyLeave"})

\* Given an employee, the form saves him; without one it creates one.
EmployeeFormModal(saves) ==
    Part({"departments", "designations", "shifts", "employee-categories"},
         saves \cup {"resetPassword"})
AttendanceHistoryModal == Shows({"attendance"})
ResignEmployeeModal == Makes({"resign"})
AccountAccessSection == Makes({"changeAccess"})
EmployeeStatusToggle == Together({Makes({"toggleStatus"}), ResignEmployeeModal})
EmployeeProfileContent ==
    Together({EmployeeStatusToggle, AccountAccessSection, EmployeeFormModal({"updateEmployee"})})

AddDepartmentModal == Part({"employees"}, {"createDepartment"})
EditDepartmentModal == Part({"employees"}, {"updateDepartment"})
AddDesignationModal == Part({"departments"}, {"createDesignation"})
EditDesignationModal == Part({"departments"}, {"updateDesignation"})
AddHolidayModal == Makes({"createHoliday"})
EditHolidayModal == Makes({"updateHoliday"})
ManualPunchModal == Part({"employees"}, {"manualPunch"})
CorrectionModal == Makes({"correctAttendance"})

AddDeviceModal == Makes({"createDevice", "updateDevice"})
DeviceCard ==
    Part({"device-logs"},
         {"connect", "disconnect", "restart", "syncTime", "testConnection", "deviceInfo",
          "deviceUsers", "importDeviceUsers", "deleteDevice"})

\* The panels of the dashboards.
SummaryCards == Shows({"dashboard"})
AttendanceOverview == Shows({"dashboard"})
AttendanceTrend == Shows({"dashboard"})
DepartmentAttendanceTable == Shows({"dashboard"})
RecentActivity == Shows({"dashboard"})
MyTeamAttendance == Shows({"dashboard"})
TeamOnLeave == Shows({"dashboard"})
RealTimeMonitor == Shows({"dashboard"})
TodaysAttendance == Shows({"attendance"})
LateToday == Shows({"attendance"})
OnLeaveToday == Shows({"leave-requests"})
PendingApprovals == Shows({"attendance-missing", "leave-pending-count", "roster-pending-count"})
MyCalendarCard == Shows({"my-roster", "my-leave-requests", "shifts"})

-----------------------------------------------------------------------------
(* Screens of the Workbench. *)

LeaveRequestsPanel ==
    Screen("LeaveRequestsPanel",
           {Part({"leave-requests", "leave-types", "departments", "leave-pending-count",
                  "employees", "leave-balances"}, {"approveCancellation"}),
            NewLeaveRequestModal, ApproveLeaveModal, RejectLeaveModal, CancelLeaveModal})

LeaveOnBehalfPanel ==
    Screen("LeaveOnBehalfPanel", {Shows({"leave-applied-on-behalf"}), NewLeaveRequestModal})

LeaveWorkflowsProgram ==
    Screen("LeaveWorkflowsProgram",
           {Part({"leave-workflows", "system-users"}, {"saveWorkflow", "deleteWorkflow"})})

LeavePolicyProgram ==
    Screen("LeavePolicyProgram",
           {Part({"employee-categories", "leave-category-policies", "leave-types"},
                 {"quickAddPolicy", "updatePolicy", "renameLeave", "deletePolicy",
                  "createCategory", "updateCategory", "initializeBalances"})})

LeaveTypeProgram ==
    Screen("LeaveTypeProgram",
           {Part({"leave-types"}, {"createLeaveType", "deactivateLeaveType"})})

EmployeeListTab ==
    Screen("EmployeeListTab",
           {Part({"employees", "departments", "devices"}, {"deleteEmployee", "importDeviceUsers"}),
            EmployeeFormModal({"createEmployee", "updateEmployee"}), AttendanceHistoryModal})

EmployeeProfileTab ==
    Screen("EmployeeProfileTab", {Shows({"employee"}), EmployeeProfileContent})

ResignedEmployeesProgram ==
    Screen("ResignedEmployeesProgram", {Part({"employees", "departments"}, {"reinstate"})})

RosterProgram ==
    Screen("RosterProgram",
           {Part({"departments", "shifts", "roster"},
                 {"upsertRoster", "approveRoster", "clearRoster"})})

ShiftProgram ==
    Screen("ShiftProgram", {Part({"shifts"}, {"createShift", "updateShift", "deleteShift"})})

\* A manager has the same screen; the calls it makes for him are refused.
ManagerShifts == Screen("ManagerShifts", {Shows({"shifts"})})

DepartmentProgram ==
    Screen("DepartmentProgram",
           {Part({"departments"}, {"deleteDepartment"}), AddDepartmentModal, EditDepartmentModal})

DesignationProgram ==
    Screen("DesignationProgram",
           {Part({"designations"}, {"deleteDesignation"}),
            AddDesignationModal, EditDesignationModal})

HolidayProgram ==
    Screen("HolidayProgram",
           {Part({"holidays"}, {"deleteHoliday"}), AddHolidayModal, EditHolidayModal})

CompanyProgram == Screen("CompanyProgram", {Part({"company"}, {"saveCompany"})})

AttendanceReport ==
    Screen("AttendanceReport", {Shows({"departments", "employees", "company", "attendance"})})

DeviceModuleView ==
    Screen("DeviceModuleView",
           {Part({"devices", "sync-history"}, {"bulkSync", "retryFailed"}),
            DeviceCard, AddDeviceModal})

SystemSettingsModuleView ==
    Screen("SystemSettingsModuleView",
           {Part({"system-users", "employees"}, {"createUser", "updateUser", "deleteUser"})})

PersonnelDashboard ==
    Screen("PersonnelDashboard",
           {SummaryCards, LateToday, OnLeaveToday, AttendanceTrend, AttendanceOverview,
            DepartmentAttendanceTable, MyTeamAttendance, MyCalendarCard, TeamOnLeave,
            RealTimeMonitor, TodaysAttendance, PendingApprovals, RecentActivity})

(* Screens of the portals. *)

ManagerDashboard ==
    Screen("ManagerDashboard", {MyCalendarCard, TeamOnLeave, RealTimeMonitor, MyLeaveRequestModal})

EmployeeDashboard == Screen("EmployeeDashboard", {MyCalendarCard})

MyLeaveTab ==
    Screen("MyLeaveTab",
           {Part({"my-leave-requests", "my-leave-balances"}, {"cancelMyLeave"}),
            MyLeaveRequestModal})

LeaveRequestTab ==
    Screen("LeaveRequestTab",
           {Part({"my-approvals"}, {"approveCancellation"}), ApproveLeaveModal, RejectLeaveModal})

LeaveOnBehalfTab ==
    Screen("LeaveOnBehalfTab",
           {Shows({"dashboard", "leave-applied-on-behalf"}), NewTeamLeaveModal})

(* The pages of the older client, which their addresses and its sidebar still open. *)

DashboardPage == Screen("DashboardPage", {Shows({"dashboard"})})

DepartmentsPage ==
    Screen("DepartmentsPage",
           {Part({"departments"}, {"createDepartment", "updateDepartment", "deleteDepartment"})})

DesignationsPage ==
    Screen("DesignationsPage",
           {Part({"designations", "departments"},
                 {"createDesignation", "updateDesignation", "deleteDesignation"})})

DepartmentSuperiorsPage ==
    Screen("DepartmentSuperiorsPage",
           {Part({"department-superiors", "departments", "employees"},
                 {"createSuperior", "deleteSuperior"})})

ShiftsPage ==
    Screen("ShiftsPage", {Part({"shifts"}, {"createShift", "updateShift", "deleteShift"})})

AttendancePage ==
    Screen("AttendancePage",
           {Part({"attendance", "attendance-missing", "company", "departments", "employees"},
                 {"syncAttendance", "approveAttendance"}),
            ManualPunchModal, CorrectionModal})

LeavePage ==
    Screen("LeavePage",
           {Shows({"leave-requests", "leave-types", "departments", "leave-pending-count",
                   "employees", "leave-balances"}),
            NewLeaveRequestModal, ApproveLeaveModal, RejectLeaveModal, CancelLeaveModal})

DevicePage ==
    Screen("DevicePage",
           {Part({"devices", "sync-history"}, {"bulkSync", "retryFailed"}),
            DeviceCard, AddDeviceModal})

ReportsPage == Screen("ReportsPage", {Shows({"report"})})
AuditLogsPage == Screen("AuditLogsPage", {Shows({"audit-logs"})})
CompanySettings == Part({"company"}, {"saveCompany"})
UserManagement == Part({"app-users"}, {"createAppUser", "deleteAppUser"})
SettingsPage == Screen("SettingsPage", {CompanySettings, UserManagement})

-----------------------------------------------------------------------------
(* A client has a frame, which is mounted as long as the page is, and screens. *)

NotificationBell == Part({"notifications"}, {"markRead", "markAllRead"})
PortalBell == Part({"notifications"}, {"markRead", "markAllRead"})

Workbench ==
    [frame |-> NotificationBell,
     screens |-> {LeaveRequestsPanel, LeaveOnBehalfPanel, LeaveWorkflowsProgram,
                  LeavePolicyProgram, LeaveTypeProgram, EmployeeListTab, EmployeeProfileTab,
                  ResignedEmployeesProgram, RosterProgram, ShiftProgram, DepartmentProgram,
                  DesignationProgram, HolidayProgram, CompanyProgram, AttendanceReport,
                  DeviceModuleView, SystemSettingsModuleView, PersonnelDashboard}]

ManagerPortal ==
    [frame |-> Together({PortalBell, Shows({"my-approvals"})}),
     screens |-> {ManagerDashboard, MyLeaveTab, LeaveRequestTab, LeaveOnBehalfTab,
                  RosterProgram, ManagerShifts}]

EmployeePortal ==
    [frame |-> Together({PortalBell, Shows({"my-approvals"}), MyLeaveRequestModal}),
     screens |-> {EmployeeDashboard, MyLeaveTab, LeaveRequestTab}]

\* Its sidebar and top bar show no list.
AppShell ==
    [frame |-> Shows({}),
     screens |-> {DashboardPage, DepartmentsPage, DesignationsPage, DepartmentSuperiorsPage,
                  ShiftsPage, AttendancePage, LeavePage, DevicePage, ReportsPage, AuditLogsPage,
                  SettingsPage}]

Clients ==
    [HRADMIN |-> Workbench, MANAGER |-> ManagerPortal, EMPLOYEE |-> EmployeePortal,
     PAGES |-> AppShell]

ScreensOf == [c \in DOMAIN Clients |-> {s.name : s \in Clients[c].screens}]
AllScreens == UNION {Clients[c].screens : c \in DOMAIN Clients}
ScreenOf == [name \in {s.name : s \in AllScreens} |-> CHOOSE s \in AllScreens : s.name = name]

ShownIn(c) == Clients[c].frame.shows \cup UNION {s.shows : s \in Clients[c].screens}

\* refetchInterval.
Polled == {"notifications", "dashboard"}
=============================================================================
