------------------------------ MODULE DeviceSync ------------------------------
(***************************************************************************)
(* Employees and their enrolment on the biometric terminal: what           *)
(* EmployeesService writes, and the pushes of DeviceSyncService that carry *)
(* it to the terminal behind its back.  A push is a job: it reads the      *)
(* employee, calls the terminal, which may be out of reach and may have    *)
(* executed a command it never answered, and writes the outcome into       *)
(* syncStatus.  HR's calls do not wait for it, a timer repeats the pushes  *)
(* that did not succeed, and the server may die at any of its awaits.      *)
(***************************************************************************)
EXTENDS Common, Naturals

CONSTANTS
    Employees,   \* ids of Employee rows, in the order they are given out
    Uids,        \* device user ids
    Names,       \* what a push carries of an employee, as far as the terminal keeps it
    Slots,       \* the user slots of the terminal
    SlotOf,      \* deriveUid: the slot of a device user id
    Cut,         \* encodeUser72: the nine characters kept of a device user id
    Pushes,      \* jobs HR's calls may have running at a time (bound)
    Timer,       \* the job of the retry timer
    Gone,        \* marks the id of a deleted row
    HrCodes,     \* employee codes HR gives (input set)
    HrNames,     \* names HR gives (input set)
    UidChoices,  \* device user ids HR types in (input set)
    StatusEdits, \* statuses HR sets by editing the employee (input set)
    LeaveAs,     \* which of disable() and resign() HR uses, by its status (input set)
    Enrolled,    \* who was enrolled at the terminal itself (input set)
    Patient,     \* whether HR lets a push for an employee end before the next call,
                 \* and gives everybody an id of his own on the terminal
    MayCrash     \* whether the server process may die

VARIABLES
    emp,         \* rows of Employee: Null for an id not used yet
    terminal,    \* the user table of the terminal
    configured,  \* whether there is a row of Device
    job,         \* the jobs' locals, Null for a free one
    removing     \* history: whose remove() is under way, or was cut short by a crash

vars == <<emp, terminal, configured, job, removing>>

Workers == Pushes \cup {Timer}
Statuses == {"ACTIVE", "INACTIVE", "TERMINATED", "RESIGNED"}
\* NOT_SYNCED, the default of the schema, is overwritten by every creation.
SyncStatuses == {"PENDING", "SYNCED", "FAILED"}

\* The code importFromDevice gives when the device user id is taken as a code.
DevCode(uid) == <<"DEV", uid>>
Codes == Uids \cup {DevCode(u) : u \in Uids}

User == [uid : Uids, name : Names]
Employee ==
    [code : Codes, uid : Uids \cup {Null}, name : Names,
     status : Statuses, sync : SyncStatuses]

\* DELETE is the push of disable() and resign(), REMOVE that of remove().
Job ==
    [op : {"PUSH_NEW", "UPDATE", "DELETE", "REMOVE", "IMPORT"},
     at : {"READ", "DEVICE", "SAVE", "FAIL", "NEXT"},
     employee : Employees \cup {Null}, \* whom it works for, Null for a batch
     uid : Uids \cup {Null},          \* the device user id as read
     name : Names \cup {Null},        \* the name as read
     device : BOOLEAN,                \* whether the Device row it read is still there
     todo : SUBSET Employees,         \* whom it has still to push
     users : SUBSET User]             \* the rest of an import

ASSUME NullAssumption ==
    /\ Null \notin Uids \cup Names \cup Employees \cup Employee \cup User \cup Job
    /\ Gone \notin Employee \cup {Null}
    /\ \A u \in Uids : DevCode(u) \notin Uids
ASSUME TerminalAssumption ==
    /\ SlotOf \in [Uids -> Slots]
    /\ Cut \in [Uids -> Uids]
    /\ Enrolled \subseteq User
    /\ \A x, y \in Enrolled : SlotOf[x.uid] = SlotOf[y.uid] => x = y
ASSUME InputAssumption ==
    /\ HrCodes \subseteq Uids
    /\ HrNames \subseteq Names
    /\ Employees \subseteq Nat
    /\ UidChoices \subseteq Uids
    /\ StatusEdits \subseteq Statuses
    /\ LeaveAs \subseteq {"INACTIVE", "RESIGNED"}
    /\ Patient \in BOOLEAN /\ MayCrash \in BOOLEAN
    /\ Timer \notin Pushes

Known(e) == emp[e] \in Employee
Fresh(e) == emp[e] = Null /\ \A f \in Employees : f < e => emp[f] # Null
CodeTaken(c, e) == \E f \in Employees \ {e} : Known(f) /\ emp[f].code = c
UidTaken(u, e) == \E f \in Employees \ {e} : Known(f) /\ emp[f].uid = u

TypeOK ==
    /\ emp \in [Employees -> Employee \cup {Null, Gone}]
    /\ terminal \in [Slots -> User \cup {Null}]
    /\ configured \in BOOLEAN
    /\ job \in [Workers -> Job \cup {Null}]
    /\ removing \subseteq Employees

Init ==
    /\ emp = [e \in Employees |-> Null]
    /\ terminal = [s \in Slots |->
                     IF \E x \in Enrolled : SlotOf[x.uid] = s
                     THEN CHOOSE x \in Enrolled : SlotOf[x.uid] = s ELSE Null]
    /\ configured = FALSE
    /\ job = [w \in Workers |-> Null]
    /\ removing = {}

-----------------------------------------------------------------------------
(* Jobs. *)

NewJob(op, at, e, uid, todo) ==
    [op |-> op, at |-> at, employee |-> e, uid |-> uid, name |-> Null,
     device |-> TRUE, todo |-> todo, users |-> {}]

Start(w, op, at, e, uid, todo) ==
    /\ job[w] = Null
    /\ job' = [job EXCEPT ![w] = NewJob(op, at, e, uid, todo)]

JobAt(w, ops, at) == job[w] # Null /\ job[w].op \in ops /\ job[w].at = at
JobGoto(w, at) == job' = [job EXCEPT ![w].at = at]
Abort(w) == job' = [job EXCEPT ![w] = Null]

\* The end of the push of e: the job goes on to the next of its batch.
DoneWith(w, e) ==
    LET rest == job[w].todo \ {e} IN
    job' = [job EXCEPT ![w] = IF rest = {} THEN Null
                              ELSE NewJob("PUSH_NEW", "READ", Null, Null, rest)]

Busy(e) ==
    \E w \in Workers : job[w] # Null /\ (job[w].employee = e \/ job[w].op = "IMPORT")
LeftAlone(e) == Patient => ~Busy(e)
Idle == \A w \in Workers : job[w] = Null
\* The device user id a push enrols an employee under.
PushedAs(row) == IF row.uid = Null THEN row.code ELSE row.uid

\* Nobody else is, or by a running push will be, on the terminal under the id that e
\* goes by as saved.  The service compares codes with codes and ids with ids only.
OwnId(row, e) ==
    /\ \A f \in Employees \ {e} : Known(f) => PushedAs(emp[f]) # PushedAs(row)
    /\ \A w \in Workers : job[w] # Null => job[w].uid # PushedAs(row)

Saves(e, row) == emp' = [emp EXCEPT ![e] = row]

-----------------------------------------------------------------------------
(* EmployeesService. *)

Create(p, e, code, uid, name, status) ==
    LET row == [code |-> code, uid |-> uid, name |-> name,
                status |-> status, sync |-> "PENDING"]
    IN
    /\ Fresh(e)
    /\ LeftAlone(e) /\ (Patient => OwnId(row, e))
    /\ ~CodeTaken(code, e)
    /\ uid # Null => ~UidTaken(uid, e)
    /\ Saves(e, row)
    /\ Start(p, "PUSH_NEW", "READ", e, Null, {e})
    /\ UNCHANGED <<terminal, configured, removing>>

\* update(): an edit without a device user id keeps the one there is.
Update(p, e, code, uid, name, status) ==
    LET row == [emp[e] EXCEPT !.code = code, !.uid = IF uid = Null THEN @ ELSE uid,
                              !.name = name, !.status = status, !.sync = "PENDING"]
    IN
    /\ Known(e)
    /\ LeftAlone(e) /\ (Patient => OwnId(row, e))
    /\ ~CodeTaken(code, e)
    /\ uid # Null => ~UidTaken(uid, e)
    /\ Saves(e, row)
    /\ Start(p, "UPDATE", "READ", e, Null, {e})
    /\ removing' = removing \ {e}
    /\ UNCHANGED <<terminal, configured>>

\* disable() and resign().
Leave(p, e, status) ==
    /\ Known(e)
    /\ LeftAlone(e)
    /\ Saves(e, [emp[e] EXCEPT !.status = status])
    /\ IF emp[e].uid = Null THEN UNCHANGED job
       ELSE Start(p, "DELETE", "READ", e, emp[e].uid, {})
    /\ UNCHANGED <<terminal, configured, removing>>

\* Slip: the employee counts as synced as he was.
ActivateSynced(p, e) ==
    /\ Known(e)
    /\ LeftAlone(e)
    /\ Saves(e, [emp[e] EXCEPT !.status = "ACTIVE"])
    /\ Start(p, "PUSH_NEW", "READ", e, Null, {e})
    /\ removing' = removing \ {e}
    /\ UNCHANGED <<terminal, configured>>

Activate(p, e) ==
    /\ Known(e)
    /\ LeftAlone(e)
    /\ Saves(e, [emp[e] EXCEPT !.status = "ACTIVE", !.sync = "PENDING"])
    /\ Start(p, "PUSH_NEW", "READ", e, Null, {e})
    /\ removing' = removing \ {e}
    /\ UNCHANGED <<terminal, configured>>

\* remove(): the terminal first, and the row whatever the terminal says.
Remove(p, e) ==
    /\ Known(e)
    /\ LeftAlone(e)
    /\ Start(p, "REMOVE", IF emp[e].uid = Null THEN "SAVE" ELSE "READ", e, emp[e].uid, {})
    /\ removing' = removing \cup {e}
    /\ UNCHANGED <<emp, terminal, configured>>

-----------------------------------------------------------------------------
(* DeviceSyncService: what starts a batch or an import.                      *)

\* Slip: a push that never reported is not repeated.
UnsyncedFailed == {e \in Employees :
    Known(e) /\ emp[e].sync = "FAILED" /\ emp[e].status = "ACTIVE"}

Unsynced == {e \in Employees :
    Known(e) /\ emp[e].sync \in {"PENDING", "FAILED"} /\ emp[e].status = "ACTIVE"}

\* bulkSync(), called by HR or by the timer.
BulkSync(w) ==
    /\ Unsynced # {}
    /\ Start(w, "PUSH_NEW", "READ", Null, Null, Unsynced)
    /\ UNCHANGED <<emp, terminal, configured, removing>>

\* No push has an employee still to link to the terminal.
NobodyWaits == Idle /\ \A e \in Employees : Known(e) => emp[e].uid # Null

\* importFromDevice().
Import(p) ==
    /\ configured
    /\ Patient => NobodyWaits
    /\ Start(p, "IMPORT", "DEVICE", Null, Null, {})
    /\ UNCHANGED <<emp, terminal, configured, removing>>

\* DevicesService.create, with the import it starts (to no end while the terminal
\* is not within reach), and remove.
AddDevice(p) ==
    /\ ~configured
    /\ configured' = TRUE
    /\ IF Patient /\ ~NobodyWaits THEN UNCHANGED job
       ELSE Start(p, "IMPORT", "DEVICE", Null, Null, {})
    /\ UNCHANGED <<emp, terminal, removing>>

HoldsDevice(w) ==
    \/ JobAt(w, {"PUSH_NEW", "UPDATE"}, "DEVICE") \/ JobAt(w, {"PUSH_NEW", "UPDATE"}, "SAVE")
    \/ JobAt(w, {"PUSH_NEW", "UPDATE"}, "FAIL")
    \/ JobAt(w, {"IMPORT"}, "DEVICE") \/ JobAt(w, {"IMPORT"}, "NEXT")

RemoveDevice ==
    /\ configured
    /\ Patient => Idle
    /\ configured' = FALSE
    /\ job' = [w \in Workers |->
                 IF HoldsDevice(w) THEN [job[w] EXCEPT !.device = FALSE] ELSE job[w]]
    /\ UNCHANGED <<emp, terminal, removing>>

-----------------------------------------------------------------------------
(* DeviceSyncService: pushNewEmployee and pushUpdate.                        *)

\* pushUpdate turns into pushNewEmployee, which reads again.
ReadUnlinked(w) ==
    /\ JobAt(w, {"UPDATE"}, "READ")
    /\ \A e \in job[w].todo : Known(e) => emp[e].uid = Null
    /\ job' = [job EXCEPT ![w].op = "PUSH_NEW"]
    /\ UNCHANGED <<emp, terminal, configured, removing>>

\* Whether the read finds an employee the push can go on with.
Readable(op, e) == Known(e) /\ (op = "UPDATE" => emp[e].uid # Null)

ReadEmployee(w) ==
    /\ JobAt(w, {"PUSH_NEW", "UPDATE"}, "READ")
    /\ configured
    /\ \E e \in job[w].todo :
          /\ Readable(job[w].op, e)
          /\ job' = [job EXCEPT ![w] =
                [job[w] EXCEPT !.at = "DEVICE", !.employee = e, !.todo = @ \ {e},
                               !.device = TRUE, !.uid = PushedAs(emp[e]), !.name = emp[e].name]]
    /\ UNCHANGED <<emp, terminal, configured, removing>>

\* The employee is gone, or there is no device to push to.
ReadNothing(w) ==
    /\ JobAt(w, {"PUSH_NEW", "UPDATE"}, "READ")
    /\ \E e \in job[w].todo :
          /\ IF Known(e)
             THEN Readable(job[w].op, e) /\ ~configured
             ELSE job[w].op = "PUSH_NEW"
          /\ IF Known(e) /\ job[w].op = "PUSH_NEW"
             THEN Saves(e, [emp[e] EXCEPT !.sync = "FAILED"]) ELSE UNCHANGED emp
          /\ DoneWith(w, e)
    /\ UNCHANGED <<terminal, configured, removing>>

Put(slot, user) == terminal' = [terminal EXCEPT ![slot] = user]

AsEnrolled(uid, name) == [uid |-> Cut[uid], name |-> name]

\* setUser: answered, or not, though the terminal may have executed it.
Enrol(w) ==
    /\ JobAt(w, {"PUSH_NEW", "UPDATE"}, "DEVICE")
    /\ Put(SlotOf[job[w].uid], AsEnrolled(job[w].uid, job[w].name))
    /\ JobGoto(w, "SAVE")
    /\ UNCHANGED <<emp, configured, removing>>

EnrolUnanswered(w) ==
    /\ JobAt(w, {"PUSH_NEW", "UPDATE"}, "DEVICE")
    /\ \/ Put(SlotOf[job[w].uid], AsEnrolled(job[w].uid, job[w].name))
       \/ UNCHANGED terminal
    /\ JobGoto(w, "FAIL")
    /\ UNCHANGED <<emp, configured, removing>>

\* Slip: the status is one of the history's.
SyncedSuccess(row, w) == [row EXCEPT !.uid = job[w].uid, !.sync = "SUCCESS"]

Synced(row, w) ==
    IF job[w].op = "PUSH_NEW" THEN [row EXCEPT !.uid = job[w].uid, !.sync = "SYNCED"]
    ELSE [row EXCEPT !.sync = "SYNCED"]

\* Storing the outcome.  It fails on a device user id somebody else has; the
\* entry in the history after it fails if the device has been removed.
SaveSynced(w) ==
    LET e == job[w].employee
        free == job[w].op = "PUSH_NEW" => ~UidTaken(job[w].uid, e)
    IN
    /\ JobAt(w, {"PUSH_NEW", "UPDATE"}, "SAVE")
    /\ IF Known(e) /\ free THEN Saves(e, Synced(emp[e], w)) ELSE UNCHANGED emp
    /\ IF Known(e) /\ free /\ job[w].device THEN DoneWith(w, e) ELSE JobGoto(w, "FAIL")
    /\ UNCHANGED <<terminal, configured, removing>>

\* The catch block; what it throws itself ends the whole batch.
SaveFailed(w) ==
    LET e == job[w].employee IN
    /\ JobAt(w, {"PUSH_NEW", "UPDATE"}, "FAIL")
    /\ IF Known(e) THEN Saves(e, [emp[e] EXCEPT !.sync = "FAILED"]) ELSE UNCHANGED emp
    /\ IF Known(e) /\ job[w].device THEN DoneWith(w, e) ELSE Abort(w)
    /\ UNCHANGED <<terminal, configured, removing>>

-----------------------------------------------------------------------------
(* pushDelete, alone or inside remove().                                     *)

ReadDevice(w) ==
    /\ JobAt(w, {"DELETE", "REMOVE"}, "READ")
    /\ IF configured THEN JobGoto(w, "DEVICE")
       ELSE IF job[w].op = "REMOVE" THEN JobGoto(w, "SAVE") ELSE Abort(w)
    /\ UNCHANGED <<emp, terminal, configured, removing>>

\* deleteUser clears the slot, whoever is in it, unless it fails; a failure is
\* recorded and forgotten.
Unenrol(w) ==
    /\ JobAt(w, {"DELETE", "REMOVE"}, "DEVICE")
    /\ Put(SlotOf[job[w].uid], Null) \/ UNCHANGED terminal
    /\ IF job[w].op = "REMOVE" THEN JobGoto(w, "SAVE") ELSE Abort(w)
    /\ UNCHANGED <<emp, configured, removing>>

DropRow(w) ==
    /\ JobAt(w, {"REMOVE"}, "SAVE")
    /\ emp' = [emp EXCEPT ![job[w].employee] = Gone]
    /\ Abort(w)
    /\ removing' = removing \ {job[w].employee}
    /\ UNCHANGED <<terminal, configured>>

-----------------------------------------------------------------------------
(* importFromDevice.                                                         *)

ListUnanswered(w) ==
    /\ JobAt(w, {"IMPORT"}, "DEVICE")
    /\ Abort(w)
    /\ UNCHANGED <<emp, terminal, configured, removing>>

ListUsers(w) ==
    /\ JobAt(w, {"IMPORT"}, "DEVICE")
    /\ job' = [job EXCEPT ![w] =
                 [@ EXCEPT !.at = "NEXT", !.users = {terminal[s] : s \in Slots} \ {Null}]]
    /\ UNCHANGED <<emp, terminal, configured, removing>>

Linked(uid) == \E e \in Employees : Known(e) /\ emp[e].uid = uid

ImportedCode(uid) ==
    IF \E e \in Employees : Known(e) /\ emp[e].code = uid THEN DevCode(uid) ELSE uid

SkipUser(w, user) ==
    /\ Linked(user.uid)
    /\ job' = [job EXCEPT ![w] = [job[w] EXCEPT !.users = @ \ {user}]]
    /\ UNCHANGED emp

\* The entry in the history fails, and the import ends, if the device is gone.
AddUser(w, user, e) ==
    LET code == ImportedCode(user.uid) IN
    /\ ~Linked(user.uid)
    /\ Fresh(e)
    /\ ~CodeTaken(code, e)
    /\ Saves(e, [code |-> code, uid |-> user.uid, name |-> user.name,
                 status |-> "ACTIVE", sync |-> "SYNCED"])
    /\ job' = [job EXCEPT ![w] =
                 IF job[w].device THEN [job[w] EXCEPT !.users = @ \ {user}] ELSE Null]

ImportUser(w) ==
    /\ JobAt(w, {"IMPORT"}, "NEXT")
    /\ \E user \in job[w].users :
           SkipUser(w, user) \/ \E e \in Employees : AddUser(w, user, e)
    /\ UNCHANGED <<terminal, configured, removing>>

\* Through the list, at one whose code somebody has, or out of ids (bound).
ImportEnds(w) ==
    /\ JobAt(w, {"IMPORT"}, "NEXT")
    /\ \/ job[w].users = {}
       \/ \E user \in job[w].users :
             /\ ~Linked(user.uid)
             /\ \/ \E f \in Employees : Known(f) /\ emp[f].code = ImportedCode(user.uid)
                \/ \A e \in Employees : emp[e] # Null
    /\ Abort(w)
    /\ UNCHANGED <<emp, terminal, configured, removing>>

-----------------------------------------------------------------------------
(* The environment, and the specification. *)

\* The retry timer; isRetrying is that its job is still running.
Tick == BulkSync(Timer)

\* The server dies and starts again: what was running is lost.
Crash ==
    /\ MayCrash
    /\ job' = [w \in Workers |-> Null]
    /\ UNCHANGED <<emp, terminal, configured, removing>>

Calls ==
    \/ \E p \in Pushes, e \in Employees :
          \/ \E code \in HrCodes, uid \in UidChoices \cup {Null}, name \in HrNames,
                status \in {"ACTIVE"} \cup StatusEdits : Create(p, e, code, uid, name, status)
          \/ Known(e) /\ \E code \in HrCodes \cup {emp[e].code}, uid \in UidChoices \cup {Null},
                name \in HrNames, status \in {emp[e].status} \cup StatusEdits :
                Update(p, e, code, uid, name, status)
          \/ \E status \in LeaveAs : Leave(p, e, status)
          \/ Activate(p, e)
          \/ Remove(p, e)
    \/ \E p \in Pushes : BulkSync(p) \/ Import(p) \/ AddDevice(p)
    \/ RemoveDevice

JobStep(w) ==
    \/ ReadUnlinked(w) \/ ReadEmployee(w) \/ ReadNothing(w)
    \/ Enrol(w) \/ EnrolUnanswered(w) \/ SaveSynced(w) \/ SaveFailed(w)
    \/ ReadDevice(w) \/ Unenrol(w) \/ DropRow(w)
    \/ ListUsers(w) \/ ListUnanswered(w) \/ ImportUser(w) \/ ImportEnds(w)

Next == Calls \/ (\E w \in Workers : JobStep(w)) \/ Tick \/ Crash

\* The event loop runs what is running, every call to the terminal ends by its
\* timeout, and the timer ticks.
Spec ==
    /\ Init /\ [][Next]_vars
    /\ \A w \in Workers : WF_vars(JobStep(w))
    /\ WF_vars(Tick)

-----------------------------------------------------------------------------
(* Properties. *)

\* An employee counts as synced only once he is linked to a device user id: the
\* import skips whom it finds linked, and punches are matched by that id.
\* (pushNewEmployee, pushUpdate, importFromDevice.)
SyncedHasUid ==
    \A e \in Employees : Known(e) /\ emp[e].sync = "SYNCED" => emp[e].uid # Null

\* Where HR lets a push end before the next call for that employee and gives no
\* two the same id, an active employee shown as synced is enrolled on the terminal
\* as he is now, whatever batches, lost answers and crashes came in between; only a
\* removal under way, or one a crash cut short, has him off the terminal.
SyncedIsEnrolled ==
    \A e \in Employees \ removing :
        Known(e) /\ emp[e].status = "ACTIVE" /\ emp[e].sync = "SYNCED" =>
            terminal[SlotOf[emp[e].uid]] = AsEnrolled(emp[e].uid, emp[e].name)

\* autoRetry: once there is a terminal and it answers, and the server stays up,
\* no active employee stays unsynced for good, without anybody's doing.
FailedPushesHeal ==
    (<>[]configured /\ <>[][~Crash]_vars /\ <>[][\A w \in Workers : ~EnrolUnanswered(w)]_vars) =>
        \A e \in Employees :
            []<>(Known(e) /\ emp[e].status = "ACTIVE" => emp[e].sync = "SYNCED")

\* importFromDevice "only fills in employees Smart HRM doesn't know about yet":
\* nobody gets a second row who is known by that id, be it as his device user
\* id or as the code a push enrols him under.
KnownAs(uid) == \E e \in Employees : Known(e) /\ PushedAs(emp[e]) = uid

ImportAddsStrangers ==
    [][\A w \in Workers : \A e \in Employees :
          ImportUser(w) /\ emp[e] = Null /\ emp'[e] # Null => ~KnownAs(emp'[e].uid)]_vars
=============================================================================
