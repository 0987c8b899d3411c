# Smart HRM: specification and verification

Smart HRM is a NestJS and Prisma backend (`src/backend`) with a Next.js client
(`src/frontend`). It keeps the employees of a company, their leave, their
attendance as ZKTeco terminals report it, and their duty roster. Nothing in the
backend but the save of a workflow's tiers (`leave-workflow.service.ts:86`) runs
in a database transaction: a handler is an async function whose database and
device calls are separate statements, so any two handlers interleave between
their awaits, and a crash leaves the statements already made. The web client has
the same trouble on its side: pages share a token and a layout through
`localStorage`, and the lists they show are cached and refreshed by hand. That, and
state that is configuration in one place and data in flight in another (a
department's approval chain, an employee's enrolment on a terminal), is where this
system can go wrong and where tests hardly reach.

This directory models most of the backend and, of the web client, the session,
the decisions its leave screens offer and the lists its screens cache; it
model-checks them on small instances with TLC, and proves the main safety
properties of the leave service and the device synchronisation for all instances
with TLAPS.

    tlasany M.tla                         parse a module
    tlc -workers 2 -config X.cfg M        run the configuration X.cfg of the module M
    tlapm M.tla                           check the proofs of M

`PROJECT.json` is the index: which definition models which lines ("map"), the
runs, the mutations each property was seen to catch ("mutants"), the hazards of
the code with the properties that cover them, the findings and the theorems.


## 1. Inventory

Paths are relative to `src/backend/src/`, or to `src/frontend/src/` where they
start with `web:`.

| component | state | operations | what makes it correct |
|---|---|---|---|
| Leave requests, approvals, cancellations: `leave/leave.service.ts` | `LeaveRequest` rows (status, current tier, cancellation status and tier, closing user), one `LeaveApprovalDecision` per tier decided | `create` (own, on behalf, with override), `approve`, `reject`, `cancel`, `cancelOwn`/`requestCancellation`, `approveCancellation`, `rejectCancellation`, `findMyApprovals` | no day held twice; no tier jumped; a cancellation closed by HR; a refused call leaves nothing; whoever may decide is asked |
| Approval workflow: `leave/leave-workflow.service.ts` | one chain of numbered tiers per department, active or not | `save`, `remove` | requests on their way survive each edit |
| Leave balances: `leave/leave.service.ts` | `allocated`, `carriedOver`, `used` per employee, type and year | charge, refund, `adjustBalance`, `ensureBalance`, `initializeBalances` | `used` is what APPROVED leaves cost; everybody entitled has a row |
| Leave scheduler: `leave/leave-scheduler.service.ts` | the date, and balances | anniversary rollover and period-ending notices, each by a timer | no day is granted twice over the years |
| Types, categories, policies: `leave/leave-types.service.ts`, `employee-categories.service.ts`, `leave-category-policy.service.ts` | leave types, offered or retired; which category grants which type | create, quick-add, rename, remove, retire, offer again; each new policy fills in balances | a policy, a hire and a move each leave the rows they entitle to |
| Attachments: `leave/leave-attachments.service.ts` | files and their rows | upload, download, delete | input and output |
| Attendance: `attendance/attendance.service.ts` | punch logs, one record per employee and day | `syncFromDevice`, `manualPunch`, `processDay`, `correct`, `approve` | every stored punch is counted in its day; a correction by hand lasts; a leave never hides a punch |
| Holidays: `holidays/` | a calendar | create, read, update, delete | a record's HOLIDAY status follows it when it is processed |
| Device synchronisation: `devices/device-sync.service.ts` | sync status, error and device user id of an employee; one retry timer | pushes (new, update, activate), removal, `bulkSync`, `autoRetry`, `importFromDevice` | who is shown as synced is enrolled as he is; a failed push is repeated; an import adds strangers only |
| Devices, heartbeat: `devices/devices.service.ts`, `device-health.service.ts` | the device row, its status; whether a pass runs | create, update, remove, connect, disconnect, restart, test, heartbeat | the status settles on the truth; one exception does not stop the heartbeat |
| ZKTeco client: `devices/zkteco/` | a pool of connections with one command queue each; whether a terminal's verification is paused | `connect`, `disconnect`, `restart`, reads and writes, idle sweep, one retry | one command at a time; every call ends; nothing stays open, or paused |
| Employees: `employees/employees.service.ts` | employee rows | create, update, disable, resign, activate, remove, each with a push or removal not awaited, a login and balances | the terminal, the login and the balances follow the employee |
| Users: `users/users.service.ts` | logins, with role, password and isActive | create, update, reset, remove, `syncLoginForEmployeeRole` | a login has the role its employee's has |
| Authentication: `auth/`, `web:lib/auth-store.ts`, `web:lib/api.ts` | a signed token; in the browser the token, the user record and the Workbench layout, in `localStorage` | two sign-in forms, sign out, change of password, the check of a token on each call, the 401 interceptor | only active logins are let through; nobody finds somebody else's tabs; a refused page is left |
| Departments, superiors: `departments/`, `department-superiors/` | head of a department | create, update, delete | REPORTING_SUPERIOR resolves to who is head now |
| Duty roster: `roster/roster.service.ts`, `web:modules/personnel/roster/` | one duty per employee and date, PENDING or APPROVED, with notes; the week a screen fetched | `getWeek`, `upsert`, `approve`, `remove` | a manager does not change an approved duty; employees were told what stands |
| Notifications: `notifications/` | rows for the bell | append, mark read | the last one about a day is true |
| Designations, shifts, company: `designations/`, `shifts/`, `company/` | configuration rows | create, read, update, delete | records without behaviour of their own |
| Dashboard, reports: `dashboard/`, `reports/` | none | queries | no state |
| Audit log: `audit/` | rows | append | lists only; no handler depends on it |
| Database and common code: `prisma/`, `common/` | none | ORM client, role guard, error filter | the roles are part of the guards of the handlers |
| Web frontend: `web:` | what is stored in the browser; cached lists; which screen is mounted | the Workbench for ADMIN and HR, a portal each for managers, supervisors and employees, and older pages that are still reachable; some 25 families of hooks that call and invalidate | a decision is offered to who may take it; a list shows what the page itself changed |

How they interact:

* The leave service reads the workflow, the department head, logins and
  employees on every decision, and writes balances and attendance records when a
  leave is granted or cancelled. `processDay` writes the same attendance records
  from punches; `correct` writes them by hand.
* The employee service starts a push or a removal after each save and does not
  wait for it. The push re-reads the employee and the one configured device,
  calls the terminal (up to a timeout of tens of seconds), and writes the outcome
  to the employee row. The retry timer does the same for every active employee not
  SYNCED. Adding the device starts the import. Before that, `create` and `update`
  also save the login (`syncLoginForEmployeeRole`) and fill in balances.
* The client of the terminal serialises commands per connection; its callers do not
  coordinate. The heartbeat tests each device with a socket of its own, and writes
  the same status as every call of `DevicesService`.
* The anniversary rollover, `initializeBalances`, a new policy and every leave asked for
  create balance rows, each after looking whether there is one.
* A page sends with every call the token that is in `localStorage` by then, shows the
  login it read when it was loaded, and forgets both at a 401.

Hard behaviours, with their lines, are the list "hazards" of `PROJECT.json`: what is
read before an await and used after it, crashes between the statements of one handler,
chains edited while requests travel along them, calls that may or may not have been
executed, jobs that overtake each other, a pool and a queue that several callers
share, and caches that somebody has to remember.


## 2. Modules

    LeaveRules                the pure rules: charge of a leave, overlap, who may decide, chains
      LeaveRequests           the service, one handler per step           -- implements LeaveLifecycle
        LeaveHandlers         the same handlers await by await, with crashes  -- implements LeaveRequests
          LeaveHandlersProofs theorems of LeaveHandlers                  (uses LeaveRequestsProofs)
        LeaveRequestsProofs   theorems of LeaveRequests and LeaveScreens (uses LeaveRulesProofs, SumProofs)
        LeaveScreens          what findMyApprovals and the leave screens offer
      LeaveRulesProofs        lemmas about the rules
      SumProofs               lemmas about sums over finite sets
    LeaveLifecycle            what an employee is promised about a request
    DeviceSync                employees, pushes, retry timer, import and terminal
      DeviceSyncProofs        theorems of DeviceSync

    Common                    Null; extended by the modules below
    ZktecoPool                connections to terminals, their queues, retry and sweep
    DeviceHealth              device rows and their status, the heartbeat
    Attendance                pulls, manual punches, processed days, corrections, holidays
    Roster                    duties, and the screens they are planned on
    LeaveRollover             balance rows over the years
    Accounts                  employees' logins
    LeavePolicies             policies, types, and who has a balance row
      AttendanceProofs        theorems of Attendance and Roster          (uses SumProofs)
      DeskProofs              theorems of Accounts, LeavePolicies, LeaveRollover, ScreenCache and MCDesk
                              (uses AttendanceProofs)
    Session                   the pages of a browser, and who is signed in
      ClientsProofs           theorems of ZktecoPool, DeviceHealth, Session and MCClients
                              (uses DeviceSyncProofs)
    WebScreens                tables: calls and the lists they touch, components, screens
      ScreenCache             the lists a page caches

    MCLeaveChain, MCLeaveDays, MCLeaveHandlers, MCDeviceSync     instances for TLC
    MCClients                 ZktecoPool, DeviceHealth, DeviceSync, Session
    MCDesk                    Attendance, Roster, LeaveRollover, Accounts, LeavePolicies,
                              ScreenCache

`MCClients` and `MCDesk` check several modules in one run. Their modules
share no variable and no property speaks of two of them. A behaviour of all of them
together is an interleaving of one behaviour of each, so it violates a property exactly when one of its parts
does; a variable `part`, chosen at the start, says which of them runs, and the others stay in
an initial state. That it is then a behaviour of each is proved (`ClientsAreOfEach`, `DeskIsOfEach`). The fairness of each module is asked of the behaviours in which it runs.
Where the code does connect such parts (the sync of attendance uses the pool; a hire makes a login and
balances), each module has the other's effect as an input: a pull that fails at any time, a
category that changes at any time.

Some definitions are commented as a slip: they say what a plausible error would be, are used by
no specification, and stand beside the definition they alter so that `PROJECT.json` can name
the pair (`mutants`).

### LeaveRules

Operators only. `LeaveCharge` is what a request costs, in half days so that it
is an integer: 1 for a half-day session, otherwise 2 for each day that is no weekly off, and 2 if
there is none. `MayActOnTier`, `MayDecide` and `MayDecideCancellation` are
`checkTierAuthorization` and its cancellation counterpart, as they stand:
the approver of a tier is a fixed login or the head of the department at that time,
ADMIN and HR come to the rescue of a tier that is gone or resolves to nobody, and the
simple flow without tiers admits ADMIN, HR and MANAGER. `NextIn` is the search for the next tier.
`HrAdminOrder` is the implicit last tier of a cancellation, one past the last of
the chain. Chains are functions from a set of tier orders to approvers, so
that orders may have gaps, as saved chains may.

### LeaveRequests

One action is one handler run to its end. The state is `req` (a request or Null),
`approved` (the APPROVED decision rows), `used` and `entitled` (balances),
`attendance` (a row per employee and day: none, ON_LEAVE, MARKED by a hand
correction or a processed absence, PUNCHED, OVERTIME), the organisation (`workflow`, `headLogin`,
`login`) and `today`. `edited` (days corrected by hand) and `standing` (the tiers
that have been in the chain ever since the request was filed) are history variables: no guard reads them.

| action | code |
|---|---|
| `CreatePending`, `CreateApproved` | `create()`: authority to file on behalf, overlap guard, funding (balance, overtime day for compensatory leave, maternity conditions) and override, first tier, or APPROVED at once with its side effects for types that need no approval |
| `ApproveTier`, `ApproveFinal`, `ApproveSimple`, `Reject` | `approve()`, `reject()`, by what they find: a next tier, none, no chain |
| `CancelGranted`, `CancelOther` | `cancel()`, with and without the reversal of side effects; `cancelOwn()` of a request that is not APPROVED |
| `RequestCancellation` | `requestCancellation()`, and `cancelOwn()` of an APPROVED request |
| `ApproveCancellationTier`, `ApproveCancellationFinal`, `RejectCancellation` | `approveCancellation()`, `rejectCancellation()` |
| `SetWorkflow`, `SetHead`, `SwitchLogin`, `DeleteLogin` | the saves of the workflow, department and user services |
| `AdjustBalance`, `ProcessDay`, `CorrectAttendance`, `NextDay` | `adjustBalance()`; `processDay()` and `correct()` as far as they touch leave days; time |

`ApplyApproval` and `ReverseApproval` are the two side-effect functions: charge
and mark each day that has no row, refund (with the floor at zero) and delete the
ON_LEAVE rows of the range that hold no punch.

Abstractions. Reads made one after the other before anything is written are one read
here. Saving a workflow upserts its flag and then replaces the tiers in a transaction; it is one step. A decision
row that says REJECTED and the decision rows of a cancellation are not kept: no handler
reads them, and a REJECTED request is never decided again. `closedBy` stands for `decidedById`, or for a
cancellation the user of its audit row; it keeps the name of a login deleted since. Notifications and the
wording of audit rows are left out. The several documents and dates a maternity
leave needs are one constant set, `MaternityEligible`.

### LeaveLifecycle

The abstract specification: a request reserves days of its employee, is open until granted
or refused, may be withdrawn from any of these, never comes back, and shares no day with another open or
granted one. Under the mapping at the end of `LeaveRequests` every step of the
service is a step of it or a stutter: property `ImplementsLifecycle`, theorem
`LifecycleImplemented`. The handlers of `LeaveHandlers`, one at a time, implement it
too, wherever a crash cuts them short: `LifecycleSurvivesCrashes`.

### LeaveHandlers

The same handlers between awaits. A job holds a handler's locals: the row as it was
read, the tier it moves to, the balance it read, the day it marks next. Each action
is what happens from one await to the next, in the order of the code:
`create` reads authority and overlaps, then funding, then the route, then inserts, then balance, charge and
days; `approve` authorises, looks for the next tier in a second read of the workflow, records its decision, and
either moves the request on or grants it and then reads the balance, writes it and marks day after day; `cancel`
refunds, deletes rows and only then writes CANCELLED. `Crash` drops every job. `Interrupted` says
whether other services write between a handler's awaits.

With one handler and quiet surroundings the module implements `LeaveRequests`
(`ImplementsSerial`): the state when no handler runs changes as the serial action
changes it. That keeps the two models of the same code together.

### LeaveScreens

`findMyApprovals` makes the list the portals' Leave Request tab shows, by a walk of its own through
workflow, tiers and heads: `CanDecide` and `CanDecideCancellation` are its two conditions.
`OffersDecision` and `OffersCancellation` say where a button is: in a portal on what that
list has, in the Workbench on every waiting request; `OffersOwnCancel` is My Leave.
`ScreensOfferDecisions` compares them with what `approve`, `reject` and
`approveCancellation` would accept, in every state of `LeaveRequests`. Left out is the
attachment tab of the modals, and a MANAGER in the simple flow, whom the service admits and
no screen of his portal asks (section 4).

### DeviceSync

Employees with `code`, device user id, name, status and sync status; the terminal's slots; whether a
device is configured; and the jobs that run: a worker in `Pushes` for each call that HR made
and does not wait for, and the `Timer`. A push is a batch of one.

| action | code |
|---|---|
| `Create`, `Update`, `Leave`, `Activate`, `Remove` | `EmployeesService.create`, `update`, `disable`/`resign`, `activate`, `remove`, with the job they start |
| `AddDevice`, `RemoveDevice`, `Import`, `BulkSync` | device create (with its import) and remove; the manual import and bulk sync |
| `ReadUnlinked`, `ReadEmployee`, `ReadNothing` | the reads at the head of `pushNewEmployee` and `pushUpdate`, and their early returns |
| `Enrol`, `EnrolUnanswered` | `setUser`: executed and answered, or not answered, in which case the terminal may have executed it or not |
| `SaveSynced`, `SaveFailed` | the write of the outcome, which throws when the row, the unique id or the device row is gone; then FAILED, or the batch is dropped |
| `ReadDevice`, `Unenrol`, `DropRow` | `removeEmployee` and the delete of the row after it |
| `ListUsers`, `ListUnanswered`, `ImportUser`, `ImportEnds` | `importFromDevice`, user by user |
| `Tick`, `Crash` | `autoRetry` (not while its last batch runs); the end of the process |

`SlotOf` is `deriveUid`, the slot a device user id is written to, and `Cut` the nine characters
`encodeUser72` keeps. `removing` is a history variable: who has a removal under way, or cut short
by a crash. `Patient` describes HR, not the code: with TRUE, HR lets a push for an employee
end before the next call for him, gives nobody an id that a push has in hand or that another is or will be enrolled under (`OwnId`), and adds, imports from and removes the device only
while nothing runs. It is a parameter because the code has no queue per employee: without patience a
slow push does overtake a later edit (`SyncedIsEnrolled` fails after nine steps), and so does a code that is another's device user id; nothing in the code or its documents promises otherwise, and the
README records it as the limit it is.

Left out: history rows, the login and balances that create and import add (modules `Accounts`, `LeavePolicies`). An import looks a user up and creates him in one step (267-282), so two overlapping imports cannot
both miss him; the unique device user id would refuse the second. In which order it walks the list is left open.

### ZktecoPool

The pool of `zkteco-real-client.ts`. A socket is open or not and has the queue of the entry that holds it, of which only
the last call chained is kept (`tail`): each command waits for the promise of the one before. A call holds the locals of one HTTP request or
timer.

| action | code |
|---|---|
| `Begin` | a method of the client is called: READ, WRITE, RESTART, CONNECT, DISCONNECT |
| `Lookup`, `OpenConnection`, `OpenFails` | `getOrCreateConnection` (the look into the map), `openConnection` with its attempts |
| `Enqueue`, `Run`, `Settle` | `withConnection`: chained onto the queue, its turn, and the promise that settles either way |
| `PauseDevice`, `Command`, `CommandFails`, `ResumeDevice` | `setUser`, `deleteUser`, `clearTemplates` with their `disableDevice` and `finally { enableDevice }`; the reads, `restart` |
| `Retry`, `GiveUp` | the one retry of a command whose connection is gone; the error the caller gets |
| `RestartFinally`, `CloseOld`, `Unpool`, `NothingToClose` | `restart`'s closing of what the map holds by then; `connect` and `disconnect` |
| `SweepIdle`, `Drop`, `Shutdown` | the idle sweep; a connection lost; `onModuleDestroy` or the end of the process |

`crowded` (two calls for an address have overlapped), the LEFT of `verification` (paused, and nobody is going to resume it), `robbed` and `fault` of a call (somebody
else closed its connection; the terminal refused or dropped it) are history. Left out: the
bytes; the text of a socket's error, by which the code also tells a lost connection, is taken to
belong to a socket that is dead; the methods' results.

### DeviceHealth

Device rows with address and status, which addresses answer, the running `DevicesService` call of each client, and the heartbeat's
pass with the list it read. `AddDeviceRow`, `Readdress`, `RemoveDeviceRow` are `create`, `update`, `remove`;
`Visit`, `TerminalAnswers`, `SaveStatus` are the methods that call a terminal and then write the row
(`connect`, `disconnect`, `restart`, `syncTime`, `getInfo`, `getUsers`); `StartPass`, `Probe`, `SaveProbe`, `LogProbe`, `EndPass`, `Throw`
are `tick`, device by device, with the row that is gone when it is written. `Flip` turns a
terminal on or off, `RestartServer` ends everything. Left out: `lastCommunication`, log rows but for the one whose failure ends a
pass, and the sync of attendance, whose write of ONLINE is that of a client that asks.

### Attendance

| action | code |
|---|---|
| `StartSync`, `Pull`, `PullFails`, `Load`, `InsertPunches` | `syncFromDevice`: not while one runs, a pull and a second one, the known logs, `createMany` with `skipDuplicates` |
| `ReadDay`, `WriteDay` | `processDay`: the logs and the holiday, then the upsert |
| `ManualPunch`, `Correct`, `Approve` | `manualPunch` (stored, then processed), `correct`, `approve` |
| `SetHolidays` | `HolidaysService` |
| `Punch`, `ServerDies` | somebody at the terminal; the end of the process at any await |

`Direction` is the alternation of IN and OUT over an employee's whole log that
`getAttendanceLogs` makes up, and `Figures` what the first IN and the last OUT of a day make: status, late and early minutes, hours and overtime.
`torn` is history: days whose processing was cut short by a crash or overlapped by another. What `processDay` does on a day of leave is in
`LeaveRequests` (`ProcessDay`).

### Roster

`Send` is what the open cell of the roster screen offers, judged by the week it fetched (`FetchWeek`): which buttons there are, and
whether a note must be typed. `ReadDuty` with `Refuse` or `NothingThere` is the head of `upsert`, `approve` and `remove`, by the row;
`WritePlan`, `WriteApproval`, `ApprovalFails`, `WriteRemoval` their writes, `Tell` the employee's notification and `AnswerAndRefetch` the
screen's invalidation. `ServerDiesPlanning` ends every request. `strained` is history: duties two requests were writing at once, or whose request died
before its notification. Dates, departments and the text of a note are left out.

### LeaveRollover

One employee. `StartRollover`, `FindRow`, `ReadPrevious`, `CreateRow`, `EndRollover` are
`runAnniversaryRollover`, type after type and await by await; `InitializeBalances`, `FindMissing`, `CreateMissing` are
`initializeBalances`, which `ChangeCategory` (`EmployeesService.update`) starts too; `AskForLeave` is `ensureBalance`, which leaves an empty row;
`TakeLeave` and `CancelTaken` charge and refund a day. `NextDay` without a rollover is a day the server was down, `ServerDiesRolling` a crash in a job.
`late` is history: types of which a day was taken after its year was carried, or beyond the balance. Days and their lengths are
counted in calendar years of `DaysPerYear` days on which something happens.

### Accounts

`CreateEmployee`, `StartUpdate`, `WriteRow` and `RemoveEmployee` are `EmployeesService`; `FindLogin`, `CreateLogin`, `ConvertLogin` are
`syncLoginForEmployeeRole` with `create` and `applyStaffCredentials`; `StartReset`, `ResetPassword`, `ResetCreates` are
`resetPasswordByEmployeeId`; `ChangePassword` is `AuthService`'s; `EditLogin` and `RemoveLogin` are System Settings. An error between two of these
leaves what was written (`Fail`), as does `ServerDiesSaving`. `odd` is history: employees of whom two requests overlapped, one failed or died
half-way, or whose login was edited by other means. Ids of logins are never used again, so
a new login takes none that a running request still holds (`FreeLogins`).

### LeavePolicies

`StartQuickAdd`, `StartCreatePolicy`, `FindType`, `CreateType`, `FindPolicy`, `CreatePolicy`, `RemovePolicy` are `LeaveCategoryPolicyService`;
`RemoveType`, `OfferType` are `LeaveTypesService`; `Hire`, `StartMove`, `WriteEmployee` are `EmployeesService`. Each that may entitle somebody goes on as
`initializeBalances`, await by await: `ReadTypes`, `ReadStaff`, `ReadPolicies`, then `FindBalance` and `CreateBalance` per row; `StartInitialize` is the Sync Leave Balances
button. A unique row somebody else created meanwhile ends a request in an error, as does `ServerDiesAsking`. `missed` is history: rows a request was to look at and
did not. Left out: names and day counts, special rules, the current year's change, and employees without a category, who are given flat
allocations.

### Session

The pages of one browser and the three entries of `localStorage` they share: token and user record (`kept`), and the Workbench's tabs (`layout`).

| action | code |
|---|---|
| `OpenPage`, `ClosePage` | a tab is opened at an address, closed |
| `Hydrate`, `Redirect`, `RestoreLayout` | `hydrate()` with the effects of `useRequireAuth`, the login page and the root page; `AppShellRoot` |
| `ChangeTabs` | `openProgram`, `closeTab` and their like, which `useWorkbenchStore` mirrors to storage |
| `SignIn`, `SignOut`, `Poll`, `SendNewPassword` | a call leaves with the token that is in storage by then |
| `Admitted`, `Unauthorized`, `SignedOut`, `PasswordChanged`, `NothingChanges` | its answer: the login forms, the 401 interceptor of `api.ts`, `logout()`, `ChangePasswordGate`, and answers without effect |
| `Expire` | a token runs out, or its login is disabled or removed |

A page has one call at a time on its way. A token is named after its login, a role is chosen
once, and `Hydrate` takes the effects that run with it: those of one render, the restoring of the
tabs on an HR page included, run before another page's next step. `shared` is history: two
logins have used the browser without a sign-out of the last page between them.

### WebScreens and ScreenCache

`WebScreens` has tables: for each call of the hooks the lists that change on the server (`writes`) and those its
hook invalidates (`names`), the components with the lists they show and the calls they make, and, made of them, the screens of the
Workbench, the portals and the older pages. A component is mapped from its head to its last query, call or part; its layout is not. One rule decides what a call changes: every list for which it
changes the rows the query returns or a column it returns, of its own rows or of rows they join. The joins are read off the services' queries, once for each kind of row (`EmployeeNames`,
`AccountNames`, `DepartmentNames`, `DesignationNames`, `ShiftNames`, `LeaveTypeNames`): the enrolment history returns the name of a device, a request those of its employee,
his department and its tiers. `Forgotten` lists the pairs of a call and a list of its screen, or of the frame around it, that the hook does not name (section 4); no other pair exists, which TLC and
`ScreensName` with `PortalsName` confirm.

`ScreenCache` is one page with one of these lists, as TanStack Query caches it under the options of `providers.tsx`: `Show` mounts another screen, which fetches what is not fresh; `ServerReads`,
`FetchLands`, `FetchFails`, `PollAgain`, `GrowOld`, `Collect` are the life of an entry; `SendCallOf`, `ServerPerforms`, `CallSucceeds`, `CallFails` that of a call. Of the contents
only counts whether a change this page made is missing. Lists do not depend on each other, so each behaviour watches one. `blind` is history: the list missed a change
in a way that is known (`Forgotten`; lists of other screens until their next fetch; a change that meets a first load, or a fetch of a list just left;
an error after the change was made).

Left out: what the server does after it answered (the import a new device starts, for which the client waits six seconds; pushes); totals that other lists carry (the employees of a department);
the audit trail and the dashboard's recent activity, notifications and reports as effects of other calls; calls the server refuses the login (a manager's saves of shifts, `ManagerShifts`);
retries are not counted; what is fetched only once something is opened is taken as shown; the link from the older pages into the Workbench; refetches at a reconnect; attachments, and hooks no component uses; the rename
of a leave whose second call fails.


## 3. Runs

| run | instance | shows | distinct states |
|---|---|---|---|
| `leave_chain` | one request; two employees; ADMIN, lead (MANAGER), staff; chains {1: lead}, {1: head, 2: lead}, {2: head} and none; the lead's login may be disabled or deleted, the head removed | `TypeOK`, `NoTierSkipped`, `CancellationInStep`, `HrAdminClosesChain`, `ScreensOfferDecisions` | 29,968 |
| `leave_days` | two requests of one employee; two days in two years, the second a weekly day off; an ordinary and a compensatory type; punches and corrections on the second day | `NoOverlap`, `GrantedDaysMarked`, `UsedMatchesGranted`, `ImplementsLifecycle` | 156,640 |
| `handlers_alone` | one handler at a time, two chains, punches and balance changes between handlers | `HTypeOK`, `ImplementsSerial` | 151,224 |
| `handlers_crash` | one handler at a time, two requests in the simple flow, a crash at any await, punches in between | `NoOrphanPlaceholder`, `NeverOvercharged`, `ImplementsLifecycle` | 136,794 |
| `handlers_overlap` | two handlers on one request, workflow saved and day punched between their awaits | `GrantedTierByTier`, `PunchesKept` | 444,452 |
| `enrol` | two employees, two ids, one push worker and the timer; patient HR; unanswered commands and crashes; somebody unknown enrolled beforehand | `TypeOK`, `SyncedIsEnrolled` | 655,727 |
| `clients` (`MCClients`) | one of four parts: two callers, one address, two sockets, no second attempt to connect; one caller writes and restarts, the other writes, connects and disconnects. Or two devices, one address, one client that asks and disconnects, and the heartbeat. Or the employees of `enrol`, who keep their names and do not leave, with a server that stays up once there are two. Or two pages of a browser, opened at the Workbench's address, with two logins of the Workbench or of the portals | `ClientsTypeOK`; `OneCommandAtATime`, `NothingLeaked`, `PausedOnlyUnanswered`, `OneCloseAbsorbed`, `CallsEnd`; `StatusSettles`; `FailedPushesHeal`; `NobodyInherits`, `RefusedLeave` | 342,819 |
| `desk` (`MCDesk`) | one of six parts, see below | `DeskTypeOK`; `RecordTellsLogs`, `InAndOutMatched`, `CorrectionStands`, `PunchesArrive`; `ToldWhatStands`, `ApprovedIsLocked`, `RefusedOnlyStale`; `NoDayTwice`; `LoginFollowsRole`; `EntitledHaveRows`; `ShowsOwnChanges` | 632,533 |
| `workflow_removed` | the requests of `leave_chain` | violates `SimpleFlowRestored` | about 1,100 |
| `handlers_twice` | two `create` calls of one employee | violates `NoOverlap` | about 190 |
| `handlers_reread` | one cancellation, workflow saved at any await | violates `HrAdminClosesChain` | about 250 |
| `enrol_import` | as `enrol`, HR not patient, no crashes; the person enrolled beforehand has the number that is an employee's code | violates `ImportAddsStrangers` | about 90 |

The parts of `desk`: attendance of one employee over two days with two times each (before and
after a shift's end), the sync and one clerk, a day HR enters by hand and a day that may become a holiday; one
duty with a shift or OFF, an HR screen and a manager's; casual leave, carried once, over the six days of
three years, asked for up to a year ahead; one employee with one code, one chosen user name and two logins, one request that saves and one that resets; two people, two
categories and one leave type, with a request about policies and one about employees; every client, screen and list of `WebScreens`, with two calls at a time.

Why these bounds are enough for what they ask. A chain needs two tiers for one to be
jumped, and a chain with a gap for an edit to remove the tier a request stands
at while others remain. A second request is needed for overlap, and for
one leave's rows to be taken by another's cancellation; a second year for a charge to go to one year
and a refund to another. Two handlers are needed, and enough, for
one to act between two statements of the other. In `enrol` the push
worker and the timer are the two that overlap, and two employees make batches of two
and the reuse of an id. In `clients` two callers share a socket, wait for each other, close each other's connection and open two at once; a third
would wait behind the second as the second behind the first. A pass of the heartbeat needs a second device for the first to be removed in it, and for both to be at one
address. Two punches make a day with an IN and an OUT, and a second day shows what the first one's alternation does to it; three years are needed for a day to be carried and carried again.
Two logins in two pages are all that a browser's storage can mix up. Two calls on their way at once is what one call's invalidation can meet of another's. Every run is of the whole instance, without a bound on depth; no
counter is unbounded but `used`, which the requests bound. The bounds that are parameters: `LastDay`, `DaysPerYear`, `Ahead`, `Overdraft` (calendar and balances), `MaxSockets`, `ConnectRetries`
(connections), `MaxTier`, `MaxDay`, `MaxMaternity`, and the sizes of the sets of workers, clients, clerks, planners, savers, desks, pages and hands.

Input sets are constants of the modules: `SavableChains`, `HeadChoices`, `LoginsAtRisk`, `Entitlements`, `PunchDays`,
`CorrectDays` and `Calls` for leave; `HrCodes`, `HrNames`, `UidChoices`, `StatusEdits`, `LeaveAs` and `Enrolled` for
device synchronisation; `PoolOps` and `DeviceCalls` for terminals; `HandDays`, `HandTimes`, `HandModes`, `HolidayDays`, `Asked`, `StartDays` and `Edits` for the desk; `Casts` and
`OpenedAt` for the browser. A run that leaves one empty switches that input off, which is how the runs divide
the questions. Requests, and in one run handlers, are symmetric where the run checks safety only.
In `enrol` neither an id edited by hand (`UidChoices`) nor an employee's status set through `update` (`StatusEdits`) is used; the
theorems cover them. In `clients` two callers never connect and disconnect at once, and READ, which is a WRITE without the pause, is left to it.
In `desk` screens of a client that treat the watched list alike, by showing it or not and by what their calls do to it, are one as good as another, and one of them stands for all (`Near`).

Deadlock is checked in every run but `desk`, where the calendar ends at `LastDay` and one code and one user name can be used up: the system may really stop there.

Fairness. The leave modules assume none, and no liveness is claimed of them: a
request waits for people, no escalation or retry exists, and a tier whose fixed approver cannot
sign in waits until an administrator edits the chain. `DeviceSync` assumes weak fairness of each worker's
next step (the event loop runs what is ready, and the client ends every command by a timeout) and of
`Tick` (`setInterval`). `FailedPushesHeal` further supposes, in its statement, that from some time on a device is
configured, every enrolment is answered and the server stays up; without them nothing could succeed.
`ZktecoPool` assumes it of the next step of each call: every attempt to connect ends by `connectTimeoutMs`, every command by `responseTimeoutMs`. `CallsEnd` does not speak of `disconnect`, whose
loop over the map others may keep filling. `DeviceHealth` assumes it of the heartbeat's timer and of each step of a pass, but not of its clients; `StatusSettles` supposes that from some time on
nobody calls, terminals stay as they are and the server stays up. `Attendance` assumes it of the timer and of the steps of a running sync or request; `PunchesArrive` supposes that pulls succeed from some time on and
the server stays up, and it leaves out days torn before. `Session` assumes it of a page's effects, and of its poll together with
the answer: `refetchInterval` runs while the page is looked at.

History variables (`standing`, `edited`, `removing`, `crowded`, `robbed`, `fault`, `torn`, `strained`, `late`, `odd`, `missed`, `shared`, `blind`) are read by no guard. A property that
excepts what one of them records names the case in its comment; the exceptions are hazards the code really has, in the list "hazards".


## 4. Findings

* **One day, two requests** (`handlers_twice`). `create()` looks for an overlapping request at
  `leave.service.ts:565` and inserts after further awaits (the funding, the workflow), without a transaction or constraint. Two overlapping calls
  both insert. The comment at 563 says no two PENDING/APPROVED requests may cover the same date.
* **A cancellation closed by a department tier** (`handlers_reread`). `approveCancellation()` authorises against one read
  of the workflow (1254) and works out what comes next from another (1264). If the chain is shortened in between, the tier the
  actor was authorised for is the last, and the leave is cancelled without "HR Admin", which 1244 calls always the final tier.
* **Removing a workflow does not restore the simple flow for requests in it** (`workflow_removed`). They keep
  `currentTierOrder`, and only ADMIN or HR may decide a request whose tier is gone (945-948), while
  `leave-workflow.service.ts:118` says any ADMIN, HR or MANAGER may decide any request.
* **An import can add an employee who is known** (`enrol_import`). It matches by device user id only
  (`device-sync.service.ts:267`); an employee not linked yet, whom a push would enrol under his code, gets a second row
  under that id, and his own pushes fail from then on at the unique id. The comment at 245-246 says the import only adds whom Smart HRM does not know.

Smaller disagreements of comments with code, met while modelling and without a run of their own:

* Leave. `leave.controller.ts:53-58` says ADMIN and HR can always override, but `checkTierAuthorization` (924-953) lets them in only
  where a tier is gone or resolves to nobody; the comment of `cancelOwn` (1382-1386) does not mention REJECTED requests, which 1396
  lets through. The comment of `findMyApprovals` (738-740) names the staff's Leave module among its screens, which does not call it. A MANAGER may decide a request of
  the simple flow by `approve()`; no screen of his portal offers it.
* Employees and logins. `employees.service.ts:298-299` says a resigned employee should not still be enrolled, and
  `update()` (248) pushes an employee of any status. `resetPasswordByEmployeeId` (`users.service.ts:191-197`) makes up for a login that is missing with that of an EMPLOYEE, whatever the employee's
  role is; `LoginFollowsRole` excepts it (`odd`).
* Terminals. `zkteco-real-client.ts:63-71` says one connection per device, reused; two callers that find none open two, and the second's entry replaces
  the first's, which stays open until the terminal drops it. `NothingLeaked` says it of calls that come one at a time and excepts the others (`crowded`). The alternation of directions (517-521) is said not to be accurate for
  irregular days; one odd day swaps IN and OUT of every later day as well.
* Roster. `roster.service.ts:139-141` says only HR or ADMIN, with a note, touch an approved duty. The check is of a row read before: a manager's change that read PENDING may land after the
  approval. `ApprovedIsLocked` excepts duties two requests were writing at once (`strained`).
* Rollover. `leave-scheduler.service.ts:100-102` says a type that is carried once is acted on at the very first anniversary only. The code counts calendar years (`employmentYears > 1`): it acts
  on the day the clock starts too, and takes a first anniversary the server missed for one that was rolled over.
* Policies. `quickAdd` reuses a leave type of that name although it is retired (`leave-category-policy.service.ts:90`), where its comment (80-82) speaks of a leave HR adds: the policy stands and nobody gets a
  balance; offering the type again (`OfferType`) fills nothing in.
* Web client. `auth-store.ts:94-95` and `useWorkbenchStore.ts:171-172` say the next person starts with a clean Workbench; a page that is refused (`api.ts:20-31`) forgets token and record, not
  the tabs. `NobodyInherits` excepts that (`shared`).
* Lists. The calls of `Forgotten` leave a list on their own screen as it was. Leave: `cancelLeave` the count of pending leaves; `createLeave` in the manager's portal the approvals and the team's day; one's
  own request, filed or cancelled, the approvals of a portal whose login decides it; a portal's approval of one's own leave or of its cancellation the balance. Devices: a rename or a delete the enrolment history, which
  shows the name (`device-sync.service.ts:402`), a delete the log as well; `testConnection` the log; `deviceInfo` and `deviceUsers` the status. Employees: `updateEmployee` and `deleteEmployee` the departments, with the
  manager's name, and the attendance; `resign` the profile; `resetPassword` the profile and the list; the logins of the System Settings and the departments' saves the employees they show. Others: `updateCategory` the policies,
  which carry the category's name; `manualPunch`, `correctAttendance` and `approveAttendance` the missing punches. `my-approvals` is never polled and always mounted in the portals, so a request that comes to somebody shows no tab before he reloads the page; `useDashboard.ts:36-38` says an approval shows
  at once in Team On Leave, which learns of it by its next poll.


## 5. Proofs

For every value of the constants that satisfies the named assumptions of the modules: any employees, logins, departments,
chains, days and requests; any workers and slots; any duties, plans and planners.

Eight modules hold theorems. **LeaveRulesProofs** has the lemmas about the rules: minimum and maximum of a finite
set of tier orders, what `FirstIn` and `NextIn` return (nothing lies between), that `HrAdminOrder` is past the chain, which
steps a cancellation takes, and the type of a charge.

**SumProofs** has the lemmas about `SumFunctionOnSet`, which the balances are about. The library defines a sum by a function that recurs over the subsets of a set. That there is one, that it is unique,
and that any element may be taken out first (`SumTakeOut`) would be proved by induction; here each is proved by looking at a least set for which it would fail, which a finite set of
subsets has (`LeastSubset`). `SumHandedOn` is for the years: where, year by year, what is used and what is handed on to the next are within what was allocated and what was handed in, the
sum of what is used is within the sum of what was allocated.

**LeaveRequestsProofs** proves `IInv`, the conjunction of `TypeOK`, `NoOverlap`, `GrantedDaysMarked`, `NoOrphanPlaceholder`, `CancellationInStep`,
`HrAdminClosesChain`, `TiersPassed` and `NoTierSkipped`, to be inductive. Two of its parts are there for the others:

* `NoTierSkipped` speaks of a granted request and says nothing about the step before.
  `TiersPassed` says of a pending one that the tiers standing since it was filed are still in the chain, that those before
  its tier have approved, and that a request at no tier has none standing. `ApproveFinal` then has no standing tier left to jump, however the chain was edited.
* `GrantedDaysMarked` is kept by a cancellation only because the leave that is cancelled shares no day with another granted one: `NoOverlap` is part of the induction and not
  only a result.

From `IInv` follow `Invariance`, `OverlapNever`, `GrantedDaysStayMarked`, `PlaceholdersHaveLeaves`, `CancellationChainInStep`, `CancellationClosedByHr` and `TiersAllPassed`; `TypeCorrect` needs only
itself; `PunchesSurvive` is an action property of every step; `LifecycleImplemented` proves initial states and steps against `LeaveLifecycle`, where `File` needs `create`'s overlap guard in terms of sets of days.
`BalancesMatchGranted` is an induction of its own: there are finitely many requests, and a step that grants or withdraws one changes the sum of its balance by its charge. The floor at zero in
`reverseApprovalSideEffects` never bites, because what is refunded is part of a sum of natural numbers.
`DecisionsAreOffered` needs of the service no more than its types: the walk of `findMyApprovals` and `checkTierAuthorization` resolve a tier in two ways, which `WalkAgrees` shows to come to the same.

**LeaveHandlersProofs** is about the same handlers await by await.

* Type. `HandlersTypeCorrect` needs what a handler relies on at each await (`JobOk`): it has its request, which stays filed, and the tier it records is one of the chain.
  `PunchesSurviveOverlap` follows for any number of handlers in any order.
* Tiers. `GrantsPassEveryTier` holds although `approve` reads the workflow twice. `ChainInv` says that the tiers standing since a request was filed are in its chain whenever that is read, and how far
  each waiting handler has taken them (`ApproveChain`); what others do meanwhile only records more approvals and leaves fewer tiers standing (`ChainWaits`). With the cancellation this is not so, which is
  the finding of `handlers_reread`.
* Refinement. `HandlersAloneAreSerial`: one at a time and without a crash, the handlers implement `LeaveRequests`. The service of the mapping writes what a handler has written only once the handler is through, so
  the mapping takes the rows as the running handler found them (`rested`). `SerialInv` says of a handler at each of its awaits what it has changed since (`SoFar`) and
  what its guards established (`Permitted`); nobody else runs, so it is still so when it writes. Its last write is then the serial step, whole, and each other write a stutter; a handler that ends earlier leaves everything as it was.
  That a charge follows its grant, and a withdrawal its refund, comes from `AloneInv`. What is proved of `LeaveRequests` therefore holds of the handlers whenever none runs.
* Crashes. `NeverOverchargedAlone` and `PlaceholdersHaveLeavesAlone` suppose that one handler runs at a time, as in the run `handlers_crash`, and let it die at any await. With two, a charge is lost, the hazard at
  line 865. `AloneInv` says that between a grant and its charge, and between a refund and its withdrawal, the balance is short by at least the charge (`Slack`), and that the rows a withdrawal leaves were
  corrected by hand (`JobRows`).
* Lifecycle. `LifecycleSurvivesCrashes`, under the same supposition: of a handler's statements only the insert and the update of the request show in `LeaveLifecycle`, and each makes one step of it, so that a
  crash before or after it cannot leave half a step. `LifeInv` says that what the first read found is still so at the write: the days are free (`File`), the request is PENDING (`Grant`, `Refuse`) or not yet
  CANCELLED (`Withdraw`, which a cancellation chain reaches because one only waits on an APPROVED request). With two handlers it is not so: `handlers_twice` files one day twice.

**DeviceSyncProofs** proves `TypeOK`, `SyncedHasUid` and three facts about work in flight, for patient HR and for any other: a push holds the id it enrolled
under (`PushHolds`), a removal in progress holds the id it removes (`RemovalHolds`), and a code serves as an id (`CodeServes`). An
employee becomes SYNCED only in `SaveSynced`, from what the job read before the device call; the invariant says that what it holds is an id. Theorems
`EnrolmentTypeCorrect` and `SyncedAreLinked`.

`SyncedAreEnrolled` supposes patience and of the constants what the run has: ids with slots of their own (`OwnSlots`) that fit into nine characters (`WholeIds`). `PatientInv` says what patience buys: no two employees
go by one id on the terminal (`Distinct`), a push at work has its employee as he is and nobody else goes by the id it has in hand (`InStep`, `Apart`), what the terminal has confirmed stays so until it is stored
(`Delivered`), and an import has the rows to itself but for pushes (`ImportCalm`, `Listed`). The attempt to prove it found a case that one call at a time for each employee does not exclude: the service compares codes with
codes and device user ids with device user ids (`employees.service.ts:26-32`), so an employee not linked yet may have as his code what is another's device user id, and his first push
overwrites the other's slot. `OwnId` makes it a part of `Patient`, and no comment promises otherwise.

**ClientsProofs** has the pool and the browser.

* A socket serves one command because the calls on it stand in a line, each behind the one before it. The model, like the code, has the promises only and nothing that counts places, so
  `Queued` says that the calls can be numbered such that each waits for the one before it and the last one chained has the highest number. A call that settles leaves the line from its
  head, and one that retries joins another line or the same one at its end. Hence `SocketsServeOne`.
* `TerminalsResume` and `ClosesAreAbsorbed` rest on `Blame`: a command fails by the terminal's fault, or on a connection that somebody else closed, which is then dead for as long as the call holds
  it. `SocketsStayReferenced` rests on `Orderly`: while calls for a terminal come one at a time, what a call knows of the pool is still true. It counts every running `disconnect()`
  against every address, since its loop may be at any.
* `TabsStayWithTheirLogin` rests on `OneLogin`: until a second login comes on top of another (`shared`), every page, the record kept and the layout are of one login. `SessionTypeCorrect` needs
  `PagesFit`, which says what a page's call on its way may suppose of the page.

* `HealthTypeCorrect` and `FlagGoesWithThePass` are one induction: a row a pass saves is one of its list, and `running` is set by the step that makes the pass and cleared by each that ends it, the
  throw of an update whose row is gone included.
* `ClientsAreOfEach` says that a behaviour of `MCClients` is a behaviour of each of its modules, but for their fairness. It is the argument of section 2 for checking several modules in one run,
  and carries the theorems above, and those of `DeviceSyncProofs`, to the run: `ClientsTypeCorrect` is the sum of four type theorems.

**DeskProofs** has four inductions.

* `LoginsFollowRoles` follows from `AccountInv`: until the request of an employee with whom nothing went wrong has written his row, his login fits it, and from then on the request holds the role it is to fit (`Midway`),
  with the login it found. With more than one employee this fails if a new login may take the id of one that was removed while a request still held it; ids are never used again, and
  `FreeLogins` says so.
* `EntitledStaffHaveRows` follows from `PolicyInv`: a row that is missing is either `missed` or one a running request is sure to look at (`Sure`). A request that has read the employees goes by the category it
  read, so it is sure only of those whose category is still that. The `update` that changed it brings a fill of its own.
* `NoDayIsTakenTwice` follows from `RolloverInv`: in each year used days and those handed on are within what was allocated and carried (`Sound`), and a carry about to be written is covered by its year (`Covers`);
  `SumHandedOn` adds up the years.
* `OwnChangesAreShown` follows from `CacheInv`: a list that lacks a change of its page is marked, or being fetched anew, or a call that will mark it when it is answered is still under way (`Answering`), or it is excused. The
  step that matters is the answer of a call, which marks the lists it names: `CallsName` says that a hook names every list its call writes, but for the pairs of `Unnamed`, and
  `ScreensName`, with `PortalsName` for the screens within the portals' frames, that no screen both makes the call and shows the list of such a pair, but for those in `Forgotten`. These are about the tables of `WebScreens` and go through them row by row; the induction is
  what covers any number of calls that overlap, on every screen the page moves to meanwhile (`SentNames`).
* `DeskIsOfEach` and `DeskTypeCorrect` are for `MCDesk` what `ClientsAreOfEach` is for `MCClients`, with the theorems of AttendanceProofs.

**AttendanceProofs** has attendance and the roster.

* `RecordsTellTheirLogs` and `CorrectionsStand` follow from `AttInv`. Of a day that is not torn, whoever is about to write has what the logs say, or another is still going to read them (`Fresh`); whoever is to process a day
  with a correction has a punch the correction did not know (`HandsKnow`).
* `InsAndOutsMatch` follows from `SwipeInv`: what is pulled, and of an employee without punches by hand what is stored, is the terminal's log up to some punch, with the directions the
  terminal's whole log gives (`PullsFollow`, `LogsFollow`). That the days before have an even number of swipes each, and so together, is again proved by a least day instead of an induction.
* `RosterTypeCorrect`, `EmployeeToldWhatStands`, `ApprovedStaysLocked` and `OnlyStaleIsRefused`. None of these properties is inductive: each speaks of a duty, and a write goes by what its request read earlier. The invariant says
  what stands in between: two requests have a duty in hand at once, that is between the read and the notification, only if it is `strained` (`Alone`); what a request about to write has read
  stands, and allows the write (`ReadStands`); a notification about to go out says what stands (`SaysWhatStands`); a screen's offer is allowed for the duty it showed
  (`OfferedIsAllowed`). `WriteKeeps` takes the three writes together, by the row they leave and the notification they order.

What the constants are asked for. The times of a day are finitely many numbers; that requests, rows and logs are finitely many
follows from the steps that add them one by one. `Null` is no member of the sets it stands beside. Slots, codes and inputs are of
their types. TLC evaluates each of these assumptions in a run.

Only model-checked:

* `FailedPushesHeal`, `CallsEnd`, `StatusSettles`, `PunchesArrive`, `RefusedLeave`: liveness under fairness is out of the prover's reach.
* The properties of the runs that expect a violation.

Every invariant and action property the passing runs check is the statement of a theorem; what TLC adds is that the instances reach the cases, and that a mutant of the code breaks each.

No module declares a recursive operator. Where a sum, a parity or a minimum needs every number or set, a least counterexample takes the place of the induction.


## 6. Limits

Hazards of the code no property covers, and what the models leave out of the code they are about:

* Two overlapping approvals for one employee and type lose one charge (`leave.service.ts:865`), the one entry of the list "hazards" without a property: the loss is
  what the code does, and no comment promises otherwise.
* Leave. `create()` refuses a retired leave type (556); the model's types are all offered, which only admits more requests. A compensatory leave asks only for one overtime day in its window (582), which may fund any number of them. A tier whose fixed approver is disabled waits for an edit (952).
  An insert of `initializeBalances` that meets a row created meanwhile throws and drops the rest of the fill (277; `missed`).
* Rollover. An anniversary on 29 February comes every four years (`leave-scheduler.service.ts:24`); the model's years are equal. A category changes while no job runs (`ChangeCategory`).
* Policies. Every employee is ACTIVE (`ReadStaff`): somebody whom a fill skipped while he was disabled gets no fill when `activate()` brings him back (`employees.service.ts:322`), only the next one for everybody.
* Attendance. A correction between the sync's read and its write of that day is rewritten (`attendance.service.ts:100`; `CorrectionStands` looks at the logs the record was corrected on). A record approved before a later punch
  keeps its approval (308). A holiday declared later changes no record until the day gets another punch (`torn`).
* Roster. `approve()` confirms whatever the duty says by then, which may be a plan HR never saw (219); a notification lost with the process is not repeated (190; `strained`).
* Employees. A deletion the terminal refuses is recorded and not repeated (317). Saving a resigned employee enrols him again (248). A code may be another's device user id (26-32, 181-193), whose slot the first push then takes (`OwnId`). A login outlives its employee, and one created later under that
  code gets none (360; `odd`).
* Terminals. Device user ids that differ in letters only share a slot (`zkteco-real-client.ts:614`), and nine characters of an id are kept (598): parameters of `DeviceSync`. The documented 0 that disables the retry timer becomes
  the default interval (`device-sync.service.ts:45`).
* `autoRetry` and the heartbeat are two timers of one process; two processes are not modelled.
* Pulls bring the whole log of a terminal; a terminal that loses its log is not modelled.
* Tokens are named after their login, and passwords are not compared.
* Unique-key conflicts are errors that end the request; the text of errors and which of them are shown is left out.


## 7. Plan

Done: leave requests, serially, await by await, abstractly and on their screens; device synchronisation, the connection pool, the heartbeat; attendance and holidays; the roster with its
screen; balances over the years and per policy; logins; the browser's session; the lists of every screen; the proofs above.

Next, in this order:

1. A refinement: `Roster` and `Accounts` against what an employee is promised, as `LeaveLifecycle` does for leave.
2. The notices of period endings, the counts of the dashboard against the rows they count, and the mock client against the pool's interface.

Not modelled and not planned: attachments, designations, shifts, the company profile, report queries, the audit log, database access, and the layout of the web client.
They are records, queries or input and output; what the models use of them is a constant (`RuleOf`, `NeedsApproval`, `WeeklyOff`, `ShiftStart`) or a row of `WebScreens`. The share of the code that no
definition maps is for the most part that: JSX, types, DTOs, formatting, seed data and configuration.
