--------------------------- MODULE DeviceSyncProofs ---------------------------
(***************************************************************************)
(* Who counts as synced is linked, for any employees, jobs, terminal and   *)
(* inputs, patient or not.  SyncedHasUid is not inductive: a push that     *)
(* writes SYNCED without a device user id (pushUpdate) relies on the one   *)
(* it read being there still, a first push on the one it has in hand.      *)
(*                                                                         *)
(* Who is shown as synced is enrolled, as long as HR is patient: the jobs  *)
(* then stay in step with the rows they work for, nobody else goes by the  *)
(* ids they have in hand, and an import has the rows to itself.            *)
(***************************************************************************)
EXTENDS DeviceSync, TLAPS

\* A push at work holds what it read; the row it read may be gone by now, but
\* its id is never used again, and pushUpdate's row stays linked.
PushHolds ==
    \A w \in Workers :
        job[w] # Null /\ job[w].op \in {"PUSH_NEW", "UPDATE"} /\ job[w].at # "READ" =>
            /\ job[w].employee \in Employees
            /\ emp[job[w].employee] # Null
            /\ job[w].uid \in Uids
            /\ job[w].name \in Names
            /\ job[w].op = "UPDATE" /\ Known(job[w].employee) =>
                   emp[job[w].employee].uid # Null

\* A removal knows whom and, while it has still to call the terminal, which user.
RemovalHolds ==
    \A w \in Workers :
        job[w] # Null /\ job[w].op \in {"DELETE", "REMOVE"} =>
            /\ job[w].employee \in Employees
            /\ emp[job[w].employee] # Null
            /\ job[w].at # "SAVE" => job[w].uid \in Uids

\* The code of an employee who is not linked serves as his device user id.
CodeServes ==
    \A e \in Employees : Known(e) /\ emp[e].uid = Null => emp[e].code \in Uids

IInv == TypeOK /\ PushHolds /\ RemovalHolds /\ CodeServes /\ SyncedHasUid

\* What a step may do to the rows: a row once there is changed or marked gone,
\* and an employee once linked stays linked.
RowsKept ==
    \A e \in Employees :
        emp[e] # Null => /\ emp'[e] # Null
                         /\ emp'[e] \in Employee => emp[e] \in Employee
                         /\ emp'[e] \in Employee /\ emp[e].uid # Null => emp'[e].uid # Null

-----------------------------------------------------------------------------

\* No marker is an employee, an id, a job: the parts of NullAssumption.
LEMMA Markers ==
    /\ Null \notin Uids /\ Null \notin Names /\ Null \notin Employees
    /\ Null \notin Employee /\ Null \notin Job /\ Null \notin User
    /\ Gone \notin Employee /\ Gone # Null
BY NullAssumption

\* A row saved with a good type, a code that serves and a device user id if it
\* is synced or was linked keeps the rows in order.
LEMMA RowSaved ==
    ASSUME IInv, NEW e \in Employees, emp[e] = Null \/ Known(e), NEW row \in Employee,
           emp' = [emp EXCEPT ![e] = row],
           row.uid = Null => row.code \in Uids,
           row.sync = "SYNCED" => row.uid # Null,
           Known(e) /\ emp[e].uid # Null => row.uid # Null
    PROVE  /\ emp' \in [Employees -> Employee \cup {Null, Gone}]
           /\ CodeServes' /\ SyncedHasUid' /\ RowsKept
<1> USE Markers
<1>1. /\ emp \in [Employees -> Employee \cup {Null, Gone}]
      /\ emp'[e] = row
      /\ \A f \in Employees : f # e => emp'[f] = emp[f]
    BY DEF IInv, TypeOK
<1>2. emp' \in [Employees -> Employee \cup {Null, Gone}]
    BY <1>1
<1>3. CodeServes'
    BY <1>1 DEF IInv, CodeServes, Known
<1>4. SyncedHasUid'
    BY <1>1 DEF IInv, SyncedHasUid, Known
<1>5. RowsKept
    BY <1>1 DEF RowsKept, Known
<1> QED BY <1>2, <1>3, <1>4, <1>5

\* Nothing saved.
LEMMA RowsUntouched ==
    ASSUME IInv, UNCHANGED emp
    PROVE  /\ emp' \in [Employees -> Employee \cup {Null, Gone}]
           /\ CodeServes' /\ SyncedHasUid' /\ RowsKept
BY DEF IInv, TypeOK, CodeServes, SyncedHasUid, Known, RowsKept

\* The jobs a step leaves as they were keep what they hold, however it changes
\* the rows, and the job it replaces is checked by itself.
JobOK(j, rows) ==
    /\ j \in Job
    /\ j.op \in {"PUSH_NEW", "UPDATE"} /\ j.at # "READ" =>
            /\ j.employee \in Employees
            /\ rows[j.employee] # Null
            /\ j.uid \in Uids
            /\ j.name \in Names
            /\ j.op = "UPDATE" /\ rows[j.employee] \in Employee =>
                   rows[j.employee].uid # Null
    /\ j.op \in {"DELETE", "REMOVE"} =>
            /\ j.employee \in Employees
            /\ rows[j.employee] # Null
            /\ j.at # "SAVE" => j.uid \in Uids

LEMMA JobReplaced ==
    ASSUME IInv, RowsKept, NEW w \in Workers, NEW j,
           job' = [job EXCEPT ![w] = j],
           j = Null \/ JobOK(j, emp')
    PROVE  job' \in [Workers -> Job \cup {Null}] /\ PushHolds' /\ RemovalHolds'
<1> USE Markers
<1>1. /\ job \in [Workers -> Job \cup {Null}]
      /\ job'[w] = j
      /\ \A v \in Workers : v # w => job'[v] = job[v]
    BY DEF IInv, TypeOK
<1>2. j \in Job \cup {Null}
    BY DEF JobOK
<1>3. job' \in [Workers -> Job \cup {Null}]
    BY <1>1, <1>2
<1>4. PushHolds'
  <2> SUFFICES ASSUME NEW v \in Workers, job'[v] # Null,
                      job'[v].op \in {"PUSH_NEW", "UPDATE"}, job'[v].at # "READ"
               PROVE  /\ job'[v].employee \in Employees
                      /\ emp'[job'[v].employee] # Null
                      /\ job'[v].uid \in Uids
                      /\ job'[v].name \in Names
                      /\ job'[v].op = "UPDATE" /\ emp'[job'[v].employee] \in Employee =>
                             emp'[job'[v].employee].uid # Null
      BY DEF PushHolds, Known
  <2>1. CASE v = w
      BY <2>1, <1>1 DEF JobOK
  <2>2. CASE v # w
      BY <2>2, <1>1 DEF IInv, PushHolds, Known, RowsKept
  <2> QED BY <2>1, <2>2
<1>5. RemovalHolds'
  <2> SUFFICES ASSUME NEW v \in Workers, job'[v] # Null, job'[v].op \in {"DELETE", "REMOVE"}
               PROVE  /\ job'[v].employee \in Employees
                      /\ emp'[job'[v].employee] # Null
                      /\ job'[v].at # "SAVE" => job'[v].uid \in Uids
      BY DEF RemovalHolds
  <2>1. CASE v = w
      BY <2>1, <1>1 DEF JobOK
  <2>2. CASE v # w
      BY <2>2, <1>1 DEF IInv, RemovalHolds, RowsKept
  <2> QED BY <2>1, <2>2
<1> QED BY <1>3, <1>4, <1>5

\* What a job that has just started is made of.
LEMMA NewJobType ==
    ASSUME NEW op \in {"PUSH_NEW", "UPDATE", "DELETE", "REMOVE", "IMPORT"},
           NEW at \in {"READ", "DEVICE", "SAVE", "FAIL", "NEXT"},
           NEW e \in Employees \cup {Null}, NEW uid \in Uids \cup {Null},
           NEW todo \in SUBSET Employees
    PROVE  /\ NewJob(op, at, e, uid, todo) \in Job
           /\ NewJob(op, at, e, uid, todo).op = op
           /\ NewJob(op, at, e, uid, todo).at = at
           /\ NewJob(op, at, e, uid, todo).employee = e
           /\ NewJob(op, at, e, uid, todo).uid = uid
BY DEF NewJob, Job

\* A batch or a push that reads next, and an import, hold nothing yet.
LEMMA FreshJobOK ==
    ASSUME NEW op, NEW at, <<op, at>> \in {<<"PUSH_NEW", "READ">>, <<"UPDATE", "READ">>,
                                           <<"IMPORT", "DEVICE">>},
           NEW e \in Employees \cup {Null}, NEW uid \in Uids \cup {Null},
           NEW todo \in SUBSET Employees, NEW rows
    PROVE  JobOK(NewJob(op, at, e, uid, todo), rows)
<1>1. /\ op \in {"PUSH_NEW", "UPDATE", "IMPORT"}
      /\ at \in {"READ", "DEVICE"}
      /\ op # "IMPORT" => at = "READ"
  OBVIOUS
<1> QED BY <1>1, NewJobType DEF JobOK

\* The parts of the invariant put together again.
LEMMA PutTogether ==
    ASSUME emp' \in [Employees -> Employee \cup {Null, Gone}],
           job' \in [Workers -> Job \cup {Null}],
           terminal' \in [Slots -> User \cup {Null}],
           configured' \in BOOLEAN,
           removing' \subseteq Employees,
           PushHolds', RemovalHolds', CodeServes', SyncedHasUid'
    PROVE  IInv'
BY DEF IInv, TypeOK

-----------------------------------------------------------------------------
(* EmployeesService. *)

\* The rows the calls of HR save, which all leave the terminal alone.
LEMMA CreateStep ==
    ASSUME IInv, NEW p \in Workers, NEW e \in Employees, NEW code \in HrCodes,
           NEW uid \in UidChoices \cup {Null}, NEW name \in HrNames,
           NEW status \in {"ACTIVE"} \cup StatusEdits,
           Create(p, e, code, uid, name, status)
    PROVE  IInv'
<1> USE Markers
<1> DEFINE row == [code |-> code, uid |-> uid, name |-> name,
                   status |-> status, sync |-> "PENDING"]
           new == NewJob("PUSH_NEW", "READ", e, Null, {e})
<1>1. row \in Employee /\ code \in Uids
  BY InputAssumption DEF Employee, Codes, Statuses, SyncStatuses
<1>2. emp[e] = Null /\ emp' = [emp EXCEPT ![e] = row]
  BY DEF Create, Fresh, Saves
<1>3. /\ emp' \in [Employees -> Employee \cup {Null, Gone}]
      /\ CodeServes' /\ SyncedHasUid' /\ RowsKept
  <2>1. row.uid = Null => row.code \in Uids
    BY <1>1
  <2>2. row.sync # "SYNCED" /\ ~Known(e)
    BY <1>2 DEF Known
  <2> HIDE DEF row
  <2> QED BY <1>1, <1>2, <2>1, <2>2, RowSaved
<1>4. job' = [job EXCEPT ![p] = new] /\ JobOK(new, emp')
  BY FreshJobOK DEF Create, Start
<1>5. job' \in [Workers -> Job \cup {Null}] /\ PushHolds' /\ RemovalHolds'
  <2> HIDE DEF new
  <2> QED BY <1>3, <1>4, JobReplaced
<1> QED BY <1>3, <1>5, PutTogether DEF Create, IInv, TypeOK

LEMMA UpdateStep ==
    ASSUME IInv, NEW p \in Workers, NEW e \in Employees,
           NEW code \in HrCodes \cup {emp[e].code},
           NEW uid \in UidChoices \cup {Null}, NEW name \in HrNames,
           NEW status \in {emp[e].status} \cup StatusEdits,
           Update(p, e, code, uid, name, status)
    PROVE  IInv'
<1> USE Markers
<1> DEFINE row == [emp[e] EXCEPT !.code = code, !.uid = IF uid = Null THEN @ ELSE uid,
                                 !.name = name, !.status = status, !.sync = "PENDING"]
           new == NewJob("UPDATE", "READ", e, Null, {e})
<1>1. emp[e] \in Employee /\ emp' = [emp EXCEPT ![e] = row]
  BY DEF Update, Known, Saves
<1>2. row \in Employee
  BY <1>1, InputAssumption DEF Employee, Codes, Statuses, SyncStatuses
<1>3. /\ row.sync = "PENDING" /\ row.code = code
      /\ row.uid = IF uid = Null THEN emp[e].uid ELSE uid
  BY <1>1 DEF Employee
<1>4. /\ emp' \in [Employees -> Employee \cup {Null, Gone}]
      /\ CodeServes' /\ SyncedHasUid' /\ RowsKept
  <2>1. row.uid = Null => row.code \in Uids
    BY <1>1, <1>3, InputAssumption DEF IInv, CodeServes, Known
  <2>2. emp[e].uid # Null => row.uid # Null
    BY <1>3
  <2>3. row.sync # "SYNCED" /\ Known(e)
    BY <1>1, <1>3 DEF Known
  <2> HIDE DEF row
  <2> QED BY <1>1, <1>2, <2>1, <2>2, <2>3, RowSaved
<1>5. job' = [job EXCEPT ![p] = new] /\ JobOK(new, emp')
  BY FreshJobOK DEF Update, Start
<1>6. job' \in [Workers -> Job \cup {Null}] /\ PushHolds' /\ RemovalHolds'
  <2> HIDE DEF new
  <2> QED BY <1>4, <1>5, JobReplaced
<1> QED BY <1>4, <1>6, PutTogether DEF Update, IInv, TypeOK

LEMMA LeaveStep ==
    ASSUME IInv, NEW p \in Workers, NEW e \in Employees, NEW status \in LeaveAs,
           Leave(p, e, status)
    PROVE  IInv'
<1> USE Markers
<1> DEFINE row == [emp[e] EXCEPT !.status = status]
           new == NewJob("DELETE", "READ", e, emp[e].uid, {})
<1>1. emp[e] \in Employee /\ emp' = [emp EXCEPT ![e] = row]
  BY DEF Leave, Known, Saves
<1>2. /\ row \in Employee
      /\ row.uid = emp[e].uid /\ row.code = emp[e].code /\ row.sync = emp[e].sync
  BY <1>1, InputAssumption DEF Employee, Statuses
<1>3. /\ emp' \in [Employees -> Employee \cup {Null, Gone}]
      /\ CodeServes' /\ SyncedHasUid' /\ RowsKept
  <2>1. row.uid = Null => row.code \in Uids
    BY <1>1, <1>2 DEF IInv, CodeServes, Known
  <2>2. row.sync = "SYNCED" => row.uid # Null
    BY <1>1, <1>2 DEF IInv, SyncedHasUid, Known
  <2>3. Known(e) /\ (emp[e].uid # Null => row.uid # Null)
    BY <1>1, <1>2 DEF Known
  <2> HIDE DEF row
  <2> QED BY <1>1, <1>2, <2>1, <2>2, <2>3, RowSaved
<1>4. job' \in [Workers -> Job \cup {Null}] /\ PushHolds' /\ RemovalHolds'
  <2>1. CASE emp[e].uid = Null
    <3>1. job' = [job EXCEPT ![p] = job[p]]
      BY <2>1 DEF Leave, IInv, TypeOK
    <3>2. job[p] = Null \/ JobOK(job[p], emp')
      BY <1>3 DEF IInv, TypeOK, PushHolds, RemovalHolds, RowsKept, JobOK, Known
    <3> QED BY <1>3, <3>1, <3>2, JobReplaced
  <2>2. CASE emp[e].uid # Null
    <3>1. job' = [job EXCEPT ![p] = new]
      BY <2>2 DEF Leave, Start
    <3>2. emp[e].uid \in Uids /\ emp'[e] # Null
      BY <1>1, <1>3, <2>2 DEF Employee, RowsKept
    <3>3. JobOK(new, emp')
      <4>1. /\ new \in Job /\ new.op = "DELETE" /\ new.at = "READ"
            /\ new.employee = e /\ new.uid = emp[e].uid
        BY <3>2, NewJobType
      <4> HIDE DEF new
      <4> QED BY <3>2, <4>1 DEF JobOK
    <3> HIDE DEF new
    <3> QED BY <1>3, <3>1, <3>3, JobReplaced
  <2> QED BY <2>1, <2>2
<1> QED BY <1>3, <1>4, PutTogether DEF Leave, IInv, TypeOK

LEMMA ActivateStep ==
    ASSUME IInv, NEW p \in Workers, NEW e \in Employees, Activate(p, e)
    PROVE  IInv'
<1> USE Markers
<1> DEFINE row == [emp[e] EXCEPT !.status = "ACTIVE", !.sync = "PENDING"]
           new == NewJob("PUSH_NEW", "READ", e, Null, {e})
<1>1. emp[e] \in Employee /\ emp' = [emp EXCEPT ![e] = row]
  BY DEF Activate, Known, Saves
<1>2. /\ row \in Employee
      /\ row.uid = emp[e].uid /\ row.code = emp[e].code /\ row.sync = "PENDING"
  BY <1>1 DEF Employee, Statuses, SyncStatuses
<1>3. /\ emp' \in [Employees -> Employee \cup {Null, Gone}]
      /\ CodeServes' /\ SyncedHasUid' /\ RowsKept
  <2>1. row.uid = Null => row.code \in Uids
    BY <1>1, <1>2 DEF IInv, CodeServes, Known
  <2>2. row.sync # "SYNCED" /\ Known(e) /\ (emp[e].uid # Null => row.uid # Null)
    BY <1>1, <1>2 DEF Known
  <2> HIDE DEF row
  <2> QED BY <1>1, <1>2, <2>1, <2>2, RowSaved
<1>4. job' = [job EXCEPT ![p] = new] /\ JobOK(new, emp')
  BY FreshJobOK DEF Activate, Start
<1>5. job' \in [Workers -> Job \cup {Null}] /\ PushHolds' /\ RemovalHolds'
  <2> HIDE DEF new
  <2> QED BY <1>3, <1>4, JobReplaced
<1> QED BY <1>3, <1>5, PutTogether DEF Activate, IInv, TypeOK

LEMMA RemoveStep ==
    ASSUME IInv, NEW p \in Workers, NEW e \in Employees, Remove(p, e)
    PROVE  IInv'
<1> USE Markers
<1> DEFINE at == IF emp[e].uid = Null THEN "SAVE" ELSE "READ"
           new == NewJob("REMOVE", at, e, emp[e].uid, {})
<1>1. /\ emp' \in [Employees -> Employee \cup {Null, Gone}]
      /\ CodeServes' /\ SyncedHasUid' /\ RowsKept
  BY RowsUntouched DEF Remove
<1>2. emp[e] \in Employee /\ emp'[e] # Null
  BY DEF Remove, Known
<1>3. job' = [job EXCEPT ![p] = new]
  BY DEF Remove, Start
<1>4. JobOK(new, emp')
  <2>1. emp[e].uid \in Uids \cup {Null} /\ at \in {"SAVE", "READ"}
    BY <1>2 DEF Employee
  <2>2. at # "SAVE" => emp[e].uid \in Uids
    BY <2>1
  <2> HIDE DEF at
  <2>3. /\ new \in Job /\ new.op = "REMOVE" /\ new.at = at
        /\ new.employee = e /\ new.uid = emp[e].uid
    BY <2>1, NewJobType
  <2> HIDE DEF new
  <2> QED BY <1>2, <2>2, <2>3 DEF JobOK
<1>5. job' \in [Workers -> Job \cup {Null}] /\ PushHolds' /\ RemovalHolds'
  <2> HIDE DEF new
  <2> QED BY <1>1, <1>3, <1>4, JobReplaced
<1> QED BY <1>1, <1>5, PutTogether DEF Remove, IInv, TypeOK

-----------------------------------------------------------------------------
(* Batches, imports, and the device they go to. *)

\* bulkSync and importFromDevice start with nothing in hand.
LEMMA StartStep ==
    ASSUME IInv, NEW w \in Workers, BulkSync(w) \/ Import(w)
    PROVE  IInv'
<1>1. /\ emp' \in [Employees -> Employee \cup {Null, Gone}]
      /\ CodeServes' /\ SyncedHasUid' /\ RowsKept
  BY RowsUntouched DEF BulkSync, Import
<1>2. job' \in [Workers -> Job \cup {Null}] /\ PushHolds' /\ RemovalHolds'
  <2>1. CASE BulkSync(w)
    <3>1. job' = [job EXCEPT ![w] = NewJob("PUSH_NEW", "READ", Null, Null, Unsynced)]
      BY <2>1 DEF BulkSync, Start
    <3>2. JobOK(NewJob("PUSH_NEW", "READ", Null, Null, Unsynced), emp')
      BY FreshJobOK DEF Unsynced
    <3> QED BY <1>1, <3>1, <3>2, JobReplaced
  <2>2. CASE Import(w)
    <3>1. job' = [job EXCEPT ![w] = NewJob("IMPORT", "DEVICE", Null, Null, {})]
      BY <2>2 DEF Import, Start
    <3>2. JobOK(NewJob("IMPORT", "DEVICE", Null, Null, {}), emp')
      BY FreshJobOK
    <3> QED BY <1>1, <3>1, <3>2, JobReplaced
  <2> QED BY <2>1, <2>2
<1> QED BY <1>1, <1>2, PutTogether DEF BulkSync, Import, IInv, TypeOK

LEMMA AddDeviceStep ==
    ASSUME IInv, NEW p \in Workers, AddDevice(p)
    PROVE  IInv'
<1> USE Markers
<1>1. /\ emp' \in [Employees -> Employee \cup {Null, Gone}]
      /\ CodeServes' /\ SyncedHasUid' /\ RowsKept
  BY RowsUntouched DEF AddDevice
<1>2. CASE UNCHANGED job
  BY <1>1, <1>2 DEF AddDevice, IInv, TypeOK, PushHolds, RemovalHolds, Known
<1>3. CASE job' # job
  <2>1. /\ job' = [job EXCEPT ![p] = NewJob("IMPORT", "DEVICE", Null, Null, {})]
        /\ JobOK(NewJob("IMPORT", "DEVICE", Null, Null, {}), emp')
    BY <1>3, FreshJobOK DEF AddDevice, Start
  <2>2. job' \in [Workers -> Job \cup {Null}] /\ PushHolds' /\ RemovalHolds'
    BY <1>1, <2>1, JobReplaced
  <2> QED BY <1>1, <2>2, PutTogether DEF AddDevice, IInv, TypeOK
<1> QED BY <1>2, <1>3

\* Removing the device leaves the jobs what they hold of employees.
LEMMA RemoveDeviceStep ==
    ASSUME IInv, RemoveDevice
    PROVE  IInv'
<1> USE Markers
<1>1. /\ emp' \in [Employees -> Employee \cup {Null, Gone}]
      /\ CodeServes' /\ SyncedHasUid' /\ RowsKept
  BY RowsUntouched DEF RemoveDevice
<1>2. ASSUME NEW w \in Workers
      PROVE  /\ job'[w] \in Job \cup {Null}
             /\ job'[w] = Null => job[w] = Null
             /\ job[w] = Null => job'[w] = Null
             /\ job[w] # Null => /\ job'[w].op = job[w].op
                                 /\ job'[w].at = job[w].at
                                 /\ job'[w].employee = job[w].employee
                                 /\ job'[w].uid = job[w].uid
                                 /\ job'[w].name = job[w].name
  <2>1. job[w] \in Job \cup {Null}
    BY DEF IInv, TypeOK
  <2>2. CASE HoldsDevice(w)
    <3>1. job[w] # Null
      BY <2>2 DEF HoldsDevice, JobAt
    <3>2. job'[w] = [job[w] EXCEPT !.device = FALSE]
      BY <2>2 DEF RemoveDevice
    <3> QED BY <2>1, <3>1, <3>2, ZenonT(40) DEF Job
  <2>3. CASE ~HoldsDevice(w)
    BY <2>1, <2>3 DEF RemoveDevice
  <2> QED BY <2>2, <2>3
<1>3. job' \in [Workers -> Job \cup {Null}]
  <2>1. job' = [w \in Workers |-> job'[w]]
    BY DEF RemoveDevice
  <2> QED BY <1>2, <2>1
<1>4. PushHolds' /\ RemovalHolds'
  BY <1>2 DEF RemoveDevice, IInv, PushHolds, RemovalHolds, Known
<1> QED BY <1>1, <1>3, <1>4, PutTogether DEF RemoveDevice, IInv, TypeOK

-----------------------------------------------------------------------------
(* The steps of a push. *)

\* A push that is done goes on with nothing in hand, or ends.
LEMMA DoneOK ==
    ASSUME IInv, RowsKept, NEW w \in Workers, NEW e, job[w] # Null, DoneWith(w, e)
    PROVE  job' \in [Workers -> Job \cup {Null}] /\ PushHolds' /\ RemovalHolds'
<1> USE Markers
<1> DEFINE rest == job[w].todo \ {e}
           new == NewJob("PUSH_NEW", "READ", Null, Null, rest)
<1>1. rest \in SUBSET Employees
  BY DEF IInv, TypeOK, Job
<1>2. JobOK(new, emp')
  BY <1>1, FreshJobOK
<1>3. job' = [job EXCEPT ![w] = IF rest = {} THEN Null ELSE new]
  BY DEF DoneWith
<1> HIDE DEF rest, new
<1> QED BY <1>2, <1>3, JobReplaced

\* A push that goes from one step to the next keeps what it holds.
LEMMA GotoOK ==
    ASSUME IInv, RowsKept, NEW w \in Workers, NEW at \in {"SAVE", "FAIL", "DEVICE"},
           job[w] # Null, JobGoto(w, at),
           job[w].op \in {"PUSH_NEW", "UPDATE"} => job[w].at # "READ",
           job[w].op \in {"DELETE", "REMOVE"} => job[w].at # "SAVE"
    PROVE  job' \in [Workers -> Job \cup {Null}] /\ PushHolds' /\ RemovalHolds'
<1> USE Markers
<1> DEFINE new == [job[w] EXCEPT !.at = at]
<1>1. job[w] \in Job
  BY DEF IInv, TypeOK
<1>2. /\ new \in Job /\ new.at = at
      /\ new.op = job[w].op /\ new.employee = job[w].employee
      /\ new.uid = job[w].uid /\ new.name = job[w].name
  BY <1>1 DEF Job
<1>3. job' = [job EXCEPT ![w] = new]
  BY DEF JobGoto
<1> HIDE DEF new
<1>4. CASE job[w].op \in {"PUSH_NEW", "UPDATE"}
  <2>1. /\ job[w].employee \in Employees
        /\ emp[job[w].employee] # Null
        /\ job[w].uid \in Uids /\ job[w].name \in Names
        /\ job[w].op = "UPDATE" /\ Known(job[w].employee) => emp[job[w].employee].uid # Null
    BY <1>4 DEF IInv, PushHolds
  <2>2. JobOK(new, emp')
    BY <1>2, <1>4, <2>1 DEF JobOK, RowsKept, Known
  <2> QED BY <1>3, <2>2, JobReplaced
<1>5. CASE job[w].op \in {"DELETE", "REMOVE"}
  <2>1. /\ job[w].employee \in Employees
        /\ emp[job[w].employee] # Null
        /\ job[w].at # "SAVE" => job[w].uid \in Uids
    BY <1>5 DEF IInv, RemovalHolds
  <2>2. JobOK(new, emp')
    BY <1>2, <1>5, <2>1 DEF JobOK, RowsKept
  <2> QED BY <1>3, <2>2, JobReplaced
<1>6. CASE job[w].op = "IMPORT"
  <2>1. JobOK(new, emp')
    BY <1>2, <1>6 DEF JobOK
  <2> QED BY <1>3, <2>1, JobReplaced
<1> QED BY <1>1, <1>4, <1>5, <1>6 DEF Job

\* A job that ends holds nothing.
LEMMA AbortOK ==
    ASSUME IInv, RowsKept, NEW w \in Workers, Abort(w)
    PROVE  job' \in [Workers -> Job \cup {Null}] /\ PushHolds' /\ RemovalHolds'
BY JobReplaced DEF Abort

LEMMA ReadStep ==
    ASSUME IInv, NEW w \in Workers, ReadUnlinked(w) \/ ReadEmployee(w)
    PROVE  IInv'
<1> USE Markers
<1>1. /\ emp' \in [Employees -> Employee \cup {Null, Gone}]
      /\ CodeServes' /\ SyncedHasUid' /\ RowsKept
  BY RowsUntouched DEF ReadUnlinked, ReadEmployee
<1>2. job[w] \in Job
  BY DEF ReadUnlinked, ReadEmployee, JobAt, IInv, TypeOK
<1>3. CASE ReadUnlinked(w)
  <2> DEFINE new == [job[w] EXCEPT !.op = "PUSH_NEW"]
  <2>1. new \in Job /\ new.op = "PUSH_NEW" /\ new.at = "READ"
    BY <1>2, <1>3 DEF ReadUnlinked, JobAt, Job
  <2>2. job' = [job EXCEPT ![w] = new]
    BY <1>3 DEF ReadUnlinked
  <2> HIDE DEF new
  <2>3. JobOK(new, emp')
    BY <2>1 DEF JobOK
  <2>4. job' \in [Workers -> Job \cup {Null}] /\ PushHolds' /\ RemovalHolds'
    BY <1>1, <2>2, <2>3, JobReplaced
  <2> QED BY <1>1, <1>3, <2>4, PutTogether DEF ReadUnlinked, IInv, TypeOK
<1>4. CASE ReadEmployee(w)
  <2>1. PICK e \in job[w].todo :
           /\ Readable(job[w].op, e)
           /\ job' = [job EXCEPT ![w] =
                [job[w] EXCEPT !.at = "DEVICE", !.employee = e, !.todo = @ \ {e},
                               !.device = TRUE, !.uid = PushedAs(emp[e]), !.name = emp[e].name]]
    BY <1>4 DEF ReadEmployee
  <2> DEFINE new == [job[w] EXCEPT !.at = "DEVICE", !.employee = e, !.todo = @ \ {e},
                                   !.device = TRUE, !.uid = PushedAs(emp[e]),
                                   !.name = emp[e].name]
  <2>2. e \in Employees /\ emp[e] \in Employee /\ emp[e] # Null
    BY <1>2, <2>1 DEF Readable, Known, Job
  <2>3. PushedAs(emp[e]) \in Uids /\ emp[e].name \in Names
    BY <2>2 DEF PushedAs, IInv, CodeServes, Known, Employee
  <2>4. /\ new \in Job /\ new.op = job[w].op /\ new.employee = e
        /\ new.uid = PushedAs(emp[e]) /\ new.name = emp[e].name
    BY <1>2, <2>2, <2>3 DEF Job
  <2>5. job' = [job EXCEPT ![w] = new]
    BY <2>1
  <2>6. job[w].op \in {"PUSH_NEW", "UPDATE"} /\ emp' = emp
    BY <1>4 DEF ReadEmployee, JobAt
  <2> HIDE DEF new
  <2>7. JobOK(new, emp')
    BY <2>1, <2>2, <2>3, <2>4, <2>6 DEF JobOK, Readable
  <2>8. job' \in [Workers -> Job \cup {Null}] /\ PushHolds' /\ RemovalHolds'
    BY <1>1, <2>5, <2>7, JobReplaced
  <2> QED BY <1>1, <1>4, <2>8, PutTogether DEF ReadEmployee, IInv, TypeOK
<1> QED BY <1>3, <1>4

\* A row whose push has failed differs in that only.
LEMMA MarkedFailed ==
    ASSUME IInv, NEW e \in Employees,
           IF Known(e) THEN Saves(e, [emp[e] EXCEPT !.sync = "FAILED"]) ELSE UNCHANGED emp
    PROVE  /\ emp' \in [Employees -> Employee \cup {Null, Gone}]
           /\ CodeServes' /\ SyncedHasUid' /\ RowsKept
<1> USE Markers
<1>1. CASE ~Known(e)
  BY <1>1, RowsUntouched
<1>2. CASE Known(e)
  <2> DEFINE row == [emp[e] EXCEPT !.sync = "FAILED"]
  <2>1. emp[e] \in Employee /\ emp' = [emp EXCEPT ![e] = row]
    BY <1>2 DEF Known, Saves
  <2>2. /\ row \in Employee
        /\ row.uid = emp[e].uid /\ row.code = emp[e].code /\ row.sync = "FAILED"
    BY <2>1 DEF Employee, SyncStatuses
  <2>3. row.uid = Null => row.code \in Uids
    BY <1>2, <2>2 DEF IInv, CodeServes
  <2> HIDE DEF row
  <2> QED BY <1>2, <2>1, <2>2, <2>3, RowSaved
<1> QED BY <1>1, <1>2

LEMMA ReadNothingStep ==
    ASSUME IInv, NEW w \in Workers, ReadNothing(w)
    PROVE  IInv'
<1>1. job[w] \in Job /\ job[w] # Null
  BY Markers DEF ReadNothing, JobAt, IInv, TypeOK
<1>2. PICK e \in job[w].todo :
         /\ IF Known(e) /\ job[w].op = "PUSH_NEW"
            THEN Saves(e, [emp[e] EXCEPT !.sync = "FAILED"]) ELSE UNCHANGED emp
         /\ DoneWith(w, e)
  BY DEF ReadNothing
<1>3. e \in Employees
  BY <1>1, <1>2 DEF Job
<1>4. /\ emp' \in [Employees -> Employee \cup {Null, Gone}]
      /\ CodeServes' /\ SyncedHasUid' /\ RowsKept
  <2>1. CASE UNCHANGED emp
    BY <2>1, RowsUntouched
  <2>2. CASE Known(e) /\ Saves(e, [emp[e] EXCEPT !.sync = "FAILED"])
    BY <1>3, <2>2, MarkedFailed
  <2> QED BY <1>2, <2>1, <2>2
<1>5. job' \in [Workers -> Job \cup {Null}] /\ PushHolds' /\ RemovalHolds'
  BY <1>1, <1>2, <1>4, DoneOK
<1> QED BY <1>4, <1>5, PutTogether DEF ReadNothing, IInv, TypeOK

LEMMA EnrolStep ==
    ASSUME IInv, NEW w \in Workers, Enrol(w) \/ EnrolUnanswered(w)
    PROVE  IInv'
<1>1. /\ emp' \in [Employees -> Employee \cup {Null, Gone}]
      /\ CodeServes' /\ SyncedHasUid' /\ RowsKept
  BY RowsUntouched DEF Enrol, EnrolUnanswered
<1>2. job[w] # Null /\ job[w].op \in {"PUSH_NEW", "UPDATE"} /\ job[w].at = "DEVICE"
  BY DEF Enrol, EnrolUnanswered, JobAt
<1>3. job' \in [Workers -> Job \cup {Null}] /\ PushHolds' /\ RemovalHolds'
  <2>1. JobGoto(w, "SAVE") \/ JobGoto(w, "FAIL")
    BY DEF Enrol, EnrolUnanswered
  <2> QED BY <1>1, <1>2, <2>1, GotoOK
<1>4. terminal' \in [Slots -> User \cup {Null}]
  <2>1. job[w].uid \in Uids /\ job[w].name \in Names
    BY <1>2 DEF IInv, PushHolds
  <2>2. AsEnrolled(job[w].uid, job[w].name) \in User
    BY <2>1, TerminalAssumption DEF AsEnrolled, User
  <2>3. \/ UNCHANGED terminal
        \/ Put(SlotOf[job[w].uid], AsEnrolled(job[w].uid, job[w].name))
    BY DEF Enrol, EnrolUnanswered
  <2> QED BY <2>2, <2>3 DEF Put, IInv, TypeOK
<1> QED BY <1>1, <1>3, <1>4, PutTogether DEF Enrol, EnrolUnanswered, IInv, TypeOK

\* Here SYNCED is written: with the id a first push has in hand, or over a row
\* that pushUpdate has found linked and that cannot have lost its link since.
LEMMA SaveSyncedStep ==
    ASSUME IInv, NEW w \in Workers, SaveSynced(w)
    PROVE  IInv'
<1> USE Markers
<1> DEFINE e == job[w].employee
           row == Synced(emp[e], w)
<1>1. /\ job[w] # Null /\ job[w].op \in {"PUSH_NEW", "UPDATE"} /\ job[w].at = "SAVE"
  BY DEF SaveSynced, JobAt
<1>2. /\ e \in Employees /\ job[w].uid \in Uids
      /\ job[w].op = "UPDATE" /\ Known(e) => emp[e].uid # Null
  BY <1>1 DEF IInv, PushHolds
<1>3. \/ UNCHANGED emp
      \/ Known(e) /\ emp' = [emp EXCEPT ![e] = row]
  BY DEF SaveSynced, Saves
<1>4. \/ DoneWith(w, e)
      \/ JobGoto(w, "FAIL")
  BY DEF SaveSynced
<1>5. /\ emp' \in [Employees -> Employee \cup {Null, Gone}]
      /\ CodeServes' /\ SyncedHasUid' /\ RowsKept
  <2>1. CASE UNCHANGED emp
    BY <2>1, RowsUntouched
  <2>2. CASE Known(e) /\ emp' = [emp EXCEPT ![e] = row]
    <3>1. emp[e] \in Employee
      BY <2>2 DEF Known
    <3>2. row \in Employee /\ row.uid # Null
      <4>1. CASE job[w].op = "PUSH_NEW"
        BY <1>2, <3>1, <4>1 DEF Synced, Employee, SyncStatuses
      <4>2. CASE job[w].op = "UPDATE"
        BY <1>2, <2>2, <3>1, <4>2 DEF Synced, Employee, SyncStatuses
      <4> QED BY <1>1, <4>1, <4>2
    <3> HIDE DEF row, e
    <3> QED BY <1>2, <2>2, <3>2, RowSaved
  <2> QED BY <1>3, <2>1, <2>2
<1>6. job' \in [Workers -> Job \cup {Null}] /\ PushHolds' /\ RemovalHolds'
  BY <1>1, <1>4, <1>5, DoneOK, GotoOK
<1> QED BY <1>5, <1>6, PutTogether DEF SaveSynced, IInv, TypeOK

LEMMA SaveFailedStep ==
    ASSUME IInv, NEW w \in Workers, SaveFailed(w)
    PROVE  IInv'
<1> DEFINE e == job[w].employee
<1>1. /\ job[w] # Null /\ job[w].op \in {"PUSH_NEW", "UPDATE"} /\ job[w].at = "FAIL"
  BY DEF SaveFailed, JobAt
<1>2. e \in Employees
  BY <1>1 DEF IInv, PushHolds
<1>3. /\ emp' \in [Employees -> Employee \cup {Null, Gone}]
      /\ CodeServes' /\ SyncedHasUid' /\ RowsKept
  BY <1>2, MarkedFailed DEF SaveFailed
<1>4. job' \in [Workers -> Job \cup {Null}] /\ PushHolds' /\ RemovalHolds'
  <2>1. DoneWith(w, e) \/ Abort(w)
    BY DEF SaveFailed
  <2> QED BY <1>1, <1>3, <2>1, DoneOK, AbortOK
<1> QED BY <1>3, <1>4, PutTogether DEF SaveFailed, IInv, TypeOK

-----------------------------------------------------------------------------
(* Removals, imports and crashes. *)

LEMMA RemovalStep ==
    ASSUME IInv, NEW w \in Workers, ReadDevice(w) \/ Unenrol(w)
    PROVE  IInv'
<1>1. /\ emp' \in [Employees -> Employee \cup {Null, Gone}]
      /\ CodeServes' /\ SyncedHasUid' /\ RowsKept
  BY RowsUntouched DEF ReadDevice, Unenrol
<1>2. /\ job[w] # Null /\ job[w].op \in {"DELETE", "REMOVE"} /\ job[w].at # "SAVE"
  BY DEF ReadDevice, Unenrol, JobAt
<1>3. job' \in [Workers -> Job \cup {Null}] /\ PushHolds' /\ RemovalHolds'
  <2>1. JobGoto(w, "DEVICE") \/ JobGoto(w, "SAVE") \/ Abort(w)
    BY DEF ReadDevice, Unenrol
  <2> QED BY <1>1, <1>2, <2>1, GotoOK, AbortOK
<1>4. terminal' \in [Slots -> User \cup {Null}]
  BY DEF ReadDevice, Unenrol, Put, IInv, TypeOK
<1> QED BY <1>1, <1>3, <1>4, PutTogether DEF ReadDevice, Unenrol, IInv, TypeOK

LEMMA DropRowStep ==
    ASSUME IInv, NEW w \in Workers, DropRow(w)
    PROVE  IInv'
<1> USE Markers
<1> DEFINE e == job[w].employee
<1>1. e \in Employees
  BY DEF DropRow, JobAt, IInv, RemovalHolds
<1>2. /\ emp \in [Employees -> Employee \cup {Null, Gone}]
      /\ emp'[e] = Gone
      /\ \A f \in Employees : f # e => emp'[f] = emp[f]
      /\ emp' \in [Employees -> Employee \cup {Null, Gone}]
  BY <1>1 DEF DropRow, IInv, TypeOK
<1> HIDE DEF e
<1>3. CodeServes' /\ SyncedHasUid' /\ RowsKept
  BY <1>2 DEF IInv, CodeServes, SyncedHasUid, RowsKept, Known
<1>4. job' \in [Workers -> Job \cup {Null}] /\ PushHolds' /\ RemovalHolds'
  BY <1>3, AbortOK DEF DropRow
<1> QED BY <1>2, <1>3, <1>4, PutTogether DEF DropRow, IInv, TypeOK

LEMMA ImportUserStep ==
    ASSUME IInv, NEW w \in Workers, ImportUser(w)
    PROVE  IInv'
<1> USE Markers
<1>1. job[w] \in Job /\ job[w] # Null /\ job[w].op = "IMPORT"
  BY DEF ImportUser, JobAt, IInv, TypeOK
<1>2. PICK user \in job[w].users :
         SkipUser(w, user) \/ \E e \in Employees : AddUser(w, user, e)
  BY DEF ImportUser
<1> DEFINE new == [job[w] EXCEPT !.users = job[w].users \ {user}]
<1>3. user \in User /\ new \in Job /\ new.op = "IMPORT"
  BY <1>1, <1>2 DEF Job
<1>4. JobOK(new, emp')
  <2> HIDE DEF new
  <2> QED BY <1>3 DEF JobOK
<1>5. /\ emp' \in [Employees -> Employee \cup {Null, Gone}]
      /\ CodeServes' /\ SyncedHasUid' /\ RowsKept
  <2>1. CASE SkipUser(w, user)
    BY <2>1, RowsUntouched DEF SkipUser
  <2>2. ASSUME NEW e \in Employees, AddUser(w, user, e)
        PROVE  /\ emp' \in [Employees -> Employee \cup {Null, Gone}]
               /\ CodeServes' /\ SyncedHasUid' /\ RowsKept
    <3> DEFINE row == [code |-> ImportedCode(user.uid), uid |-> user.uid, name |-> user.name,
                       status |-> "ACTIVE", sync |-> "SYNCED"]
    <3>1. ImportedCode(user.uid) \in Codes
      BY <1>3 DEF ImportedCode, Codes, User
    <3>2. row \in Employee /\ row.uid # Null
      BY <1>3, <3>1 DEF User, Employee, Statuses, SyncStatuses
    <3>3. emp[e] = Null /\ ~Known(e) /\ emp' = [emp EXCEPT ![e] = row]
      BY <2>2 DEF AddUser, Fresh, Saves, Known
    <3> HIDE DEF row
    <3> QED BY <3>2, <3>3, RowSaved
  <2> QED BY <1>2, <2>1, <2>2
<1>6. job' = [job EXCEPT ![w] = new] \/ job' = [job EXCEPT ![w] = Null]
  BY <1>2 DEF SkipUser, AddUser
<1>7. job' \in [Workers -> Job \cup {Null}] /\ PushHolds' /\ RemovalHolds'
  <2> HIDE DEF new
  <2> QED BY <1>4, <1>5, <1>6, JobReplaced
<1> QED BY <1>5, <1>7, PutTogether DEF ImportUser, IInv, TypeOK

LEMMA ListStep ==
    ASSUME IInv, NEW w \in Workers, ListUsers(w) \/ ListUnanswered(w) \/ ImportEnds(w)
    PROVE  IInv'
<1> USE Markers
<1>1. /\ emp' \in [Employees -> Employee \cup {Null, Gone}]
      /\ CodeServes' /\ SyncedHasUid' /\ RowsKept
  BY RowsUntouched DEF ListUsers, ListUnanswered, ImportEnds
<1>2. job' \in [Workers -> Job \cup {Null}] /\ PushHolds' /\ RemovalHolds'
  <2>1. CASE ListUsers(w)
    <3> DEFINE listed == {terminal[s] : s \in Slots} \ {Null}
               new == [job[w] EXCEPT !.at = "NEXT", !.users = listed]
    <3>1. job[w] \in Job /\ job[w].op = "IMPORT"
      BY <2>1 DEF ListUsers, JobAt, IInv, TypeOK
    <3>2. listed \subseteq User
      BY DEF IInv, TypeOK
    <3>3. job' = [job EXCEPT ![w] = new]
      BY <2>1 DEF ListUsers
    <3> HIDE DEF listed
    <3>4. new \in Job /\ new.op = "IMPORT"
      BY <3>1, <3>2 DEF Job
    <3> HIDE DEF new
    <3>5. JobOK(new, emp')
      BY <3>4 DEF JobOK
    <3> QED BY <1>1, <3>3, <3>5, JobReplaced
  <2>2. CASE ListUnanswered(w) \/ ImportEnds(w)
    BY <1>1, <2>2, AbortOK DEF ListUnanswered, ImportEnds
  <2> QED BY <2>1, <2>2
<1> QED BY <1>1, <1>2, PutTogether DEF ListUsers, ListUnanswered, ImportEnds, IInv, TypeOK

LEMMA CrashStep ==
    ASSUME IInv, Crash \/ UNCHANGED vars
    PROVE  IInv'
<1>1. CASE Crash
  <2>1. /\ emp' \in [Employees -> Employee \cup {Null, Gone}]
        /\ CodeServes' /\ SyncedHasUid' /\ RowsKept
    BY <1>1, RowsUntouched DEF Crash
  <2>2. job' \in [Workers -> Job \cup {Null}] /\ PushHolds' /\ RemovalHolds'
    BY <1>1 DEF Crash, PushHolds, RemovalHolds
  <2> QED BY <1>1, <2>1, <2>2, PutTogether DEF Crash, IInv, TypeOK
<1>2. CASE UNCHANGED vars
  BY <1>2 DEF vars, IInv, TypeOK, PushHolds, RemovalHolds, CodeServes, SyncedHasUid, Known
<1> QED BY <1>1, <1>2

-----------------------------------------------------------------------------

\* The tables are empty, nothing runs, and the terminal holds who was enrolled.
LEMMA InitIInv == Init => IInv
<1> USE Markers
<1> SUFFICES ASSUME Init PROVE IInv
  OBVIOUS
<1>1. terminal \in [Slots -> User \cup {Null}]
  <2>1. ASSUME NEW s \in Slots
        PROVE  (IF \E x \in Enrolled : SlotOf[x.uid] = s
                THEN CHOOSE x \in Enrolled : SlotOf[x.uid] = s ELSE Null) \in User \cup {Null}
    BY TerminalAssumption
  <2> QED BY <2>1 DEF Init
<1> QED BY <1>1 DEF Init, IInv, TypeOK, PushHolds, RemovalHolds, CodeServes, SyncedHasUid, Known

\* Every call of HR preserves the invariant.
LEMMA CallsStep ==
    ASSUME IInv, Calls
    PROVE  IInv'
<1> USE DEF Workers
<1>1. CASE \E p \in Pushes, e \in Employees, code \in HrCodes, uid \in UidChoices \cup {Null},
              name \in HrNames, status \in {"ACTIVE"} \cup StatusEdits :
              Create(p, e, code, uid, name, status)
  BY <1>1, CreateStep
<1>2. CASE \E p \in Pushes, e \in Employees : \E code \in HrCodes \cup {emp[e].code},
              uid \in UidChoices \cup {Null}, name \in HrNames,
              status \in {emp[e].status} \cup StatusEdits :
              Update(p, e, code, uid, name, status)
  BY <1>2, UpdateStep
<1>3. CASE \E p \in Pushes, e \in Employees :
              (\E status \in LeaveAs : Leave(p, e, status)) \/ Activate(p, e) \/ Remove(p, e)
  BY <1>3, LeaveStep, ActivateStep, RemoveStep
<1>4. CASE (\E p \in Pushes : BulkSync(p) \/ Import(p) \/ AddDevice(p)) \/ RemoveDevice
  BY <1>4, StartStep, AddDeviceStep, RemoveDeviceStep
<1> QED BY <1>1, <1>2, <1>3, <1>4 DEF Calls

LEMMA NextIInv == IInv /\ [Next]_vars => IInv'
<1> SUFFICES ASSUME IInv, [Next]_vars PROVE IInv'
  OBVIOUS
<1>1. CASE Calls
  BY <1>1, CallsStep
<1>2. ASSUME NEW w \in Workers, JobStep(w) PROVE IInv'
  BY <1>2, ReadStep, ReadNothingStep, EnrolStep, SaveSyncedStep, SaveFailedStep,
     RemovalStep, DropRowStep, ListStep, ImportUserStep DEF JobStep
<1>3. CASE Tick
  BY <1>3, StartStep DEF Tick, Workers
<1>4. CASE Crash \/ UNCHANGED vars
  BY <1>4, CrashStep
<1> QED BY <1>1, <1>2, <1>3, <1>4 DEF Next

\* In every reachable state the tables and jobs are of their types, whatever HR
\* calls while pushes run, whoever is on the terminal and wherever a crash falls.
THEOREM EnrolmentTypeCorrect == Spec => []TypeOK
<1>1. IInv => TypeOK
  BY DEF IInv
<1> QED BY <1>1, InitIInv, NextIInv, PTL DEF Spec

\* Nobody counts as synced without a device user id: not by a push that overtakes
\* an edit, nor by an update of a row deleted or created anew meanwhile.
THEOREM SyncedAreLinked == Spec => []SyncedHasUid
<1>1. IInv => SyncedHasUid
  BY DEF IInv
<1> QED BY <1>1, InitIInv, NextIInv, PTL DEF Spec

-----------------------------------------------------------------------------
(* Who is shown as synced is enrolled.  This needs HR's patience, device user ids  *)
(* that have slots of their own, and ids that fit into the nine characters kept.   *)
OwnSlots == \A u, v \in Uids : SlotOf[u] = SlotOf[v] => u = v
WholeIds == \A u \in Uids : Cut[u] = u

\* What patience buys.  No two employees go by the same id on the terminal.
Distinct ==
    \A e, f \in Employees :
        Known(e) /\ Known(f) /\ PushedAs(emp[e]) = PushedAs(emp[f]) => e = f

\* Every user of the terminal sits in the slot of its id.
SlotsFit == \A s \in Slots : terminal[s] # Null => SlotOf[terminal[s].uid] = s

AtWork(j) ==
    \/ j.op \in {"DELETE", "REMOVE"}
    \/ j.op \in {"PUSH_NEW", "UPDATE"} /\ j.at # "READ"

\* A push at work has its employee as he is; a deletion works for somebody who has left,
\* a removal for somebody marked, under the id he is linked to if it knows one.
InStep(j, rows, rem) ==
    j.employee \in Employees /\ rows[j.employee] \in Employee =>
        LET row == rows[j.employee] IN
        /\ j.op \in {"PUSH_NEW", "UPDATE"} /\ j.at # "READ" =>
               PushedAs(row) = j.uid /\ row.name = j.name
        /\ j.op \in {"DELETE", "REMOVE"} /\ j.uid # Null => row.uid = j.uid
        /\ j.op = "DELETE" => row.status # "ACTIVE"
        /\ j.op = "REMOVE" => j.employee \in rem

\* Nobody else goes by the id a job at work has in hand.
Apart(j, rows) ==
    AtWork(j) =>
        \A f \in Employees : rows[f] \in Employee /\ f # j.employee =>
                                 PushedAs(rows[f]) # j.uid

\* What a push has been told is done stays done until it is stored.
Delivered(j, rows, table, rem) ==
    /\ j.op \in {"PUSH_NEW", "UPDATE"} /\ j.at = "SAVE"
    /\ rows[j.employee] \in Employee /\ rows[j.employee].status = "ACTIVE"
    /\ j.employee \notin rem
    => table[SlotOf[j.uid]] = AsEnrolled(j.uid, j.name)

\* Whom an import has still to add is on the terminal as listed.
Listed(j, rows, table) ==
    j.op = "IMPORT" /\ j.at = "NEXT" =>
        \A user \in j.users :
            \/ \E e \in Employees : rows[e] \in Employee /\ rows[e].uid = user.uid
            \/ table[SlotOf[user.uid]] = user

JobFits(j, rows, table, rem) ==
    /\ InStep(j, rows, rem) /\ Apart(j, rows)
    /\ Delivered(j, rows, table, rem) /\ Listed(j, rows, table)

JobsFit == \A w \in Workers : job[w] # Null => JobFits(job[w], emp, terminal, removing)

\* While an import runs everybody is linked, and only pushes run beside it, for
\* employees who are there.
ImportCalm ==
    (\E w \in Workers : job[w] # Null /\ job[w].op = "IMPORT") =>
        /\ \A e \in Employees : Known(e) => emp[e].uid # Null
        /\ \A w \in Workers : job[w] # Null /\ AtWork(job[w]) =>
               job[w].op \in {"PUSH_NEW", "UPDATE"} /\ Known(job[w].employee)

PatientInv ==
    /\ Distinct /\ SlotsFit /\ JobsFit /\ ImportCalm /\ SyncedIsEnrolled

LEMMA PushedAsUid ==
    ASSUME IInv, NEW e \in Employees, Known(e)
    PROVE  PushedAs(emp[e]) \in Uids
<1>1. emp[e].uid \in Uids \cup {Null}
  BY DEF Known, Employee
<1> QED
  BY <1>1 DEF IInv, CodeServes, PushedAs

\* A push that has not read yet is in nobody's way.
LEMMA FreshFits ==
    ASSUME NEW j, j.op \in {"PUSH_NEW", "UPDATE"}, j.at = "READ", NEW rows, NEW table, NEW rem
    PROVE  JobFits(j, rows, table, rem) /\ ~AtWork(j)
BY DEF JobFits, InStep, Apart, Delivered, Listed, AtWork

\* A step that keeps who there is, and what the jobs and the rows have in common.
Frame ==
    /\ \A v \in Workers : job[v] # Null => JobFits(job[v], emp', terminal', removing')
    /\ Distinct' /\ SlotsFit' /\ SyncedIsEnrolled'
    /\ \A f \in Employees : Known(f)' <=> Known(f)
    /\ \A f \in Employees : Known(f) /\ emp[f].uid # Null => emp'[f].uid # Null

\* A job goes on beside an import only as a push for somebody who is there, or as it was.
Beside(w, j) ==
    AtWork(j) =>
        \/ j.op \in {"PUSH_NEW", "UPDATE"} /\ j.employee \in Employees /\ Known(j.employee)
        \/ job[w] # Null /\ AtWork(job[w]) /\ job[w].op = j.op /\ job[w].employee = j.employee

LEMMA FrameStep ==
    ASSUME IInv, PatientInv, Frame, NEW w \in Workers, NEW j, job' = [job EXCEPT ![w] = j],
           j # Null => /\ JobFits(j, emp', terminal', removing')
                       /\ j.op = "IMPORT" => job[w] # Null /\ job[w].op = "IMPORT"
                       /\ Beside(w, j)
    PROVE  PatientInv'
<1>1. job'[w] = j /\ \A v \in Workers \ {w} : job'[v] = job[v]
  BY DEF IInv, TypeOK
<1>2. JobsFit'
  BY <1>1 DEF JobsFit, Frame
<1>3. ImportCalm'
  <2> SUFFICES ASSUME NEW v \in Workers, job'[v] # Null, job'[v].op = "IMPORT"
               PROVE  /\ \A e \in Employees : Known(e)' => emp'[e].uid # Null
                      /\ \A u \in Workers : job'[u] # Null /\ AtWork(job'[u]) =>
                             job'[u].op \in {"PUSH_NEW", "UPDATE"} /\ emp'[job'[u].employee] \in Employee
    BY DEF ImportCalm, Known
  <2>1. \E u \in Workers : job[u] # Null /\ job[u].op = "IMPORT"
    BY <1>1
  <2>2. /\ \A e \in Employees : Known(e) => emp[e].uid # Null
        /\ \A u \in Workers : job[u] # Null /\ AtWork(job[u]) =>
               job[u].op \in {"PUSH_NEW", "UPDATE"} /\ Known(job[u].employee)
    BY <2>1 DEF PatientInv, ImportCalm
  <2>3. \A e \in Employees : Known(e)' => emp'[e].uid # Null
    BY <2>2 DEF Frame
  <2>4. ASSUME NEW u \in Workers, job[u] # Null, AtWork(job[u])
        PROVE  job[u].op \in {"PUSH_NEW", "UPDATE"} /\ emp'[job[u].employee] \in Employee
               /\ job[u].employee \in Employees
    <3>1. job[u].op \in {"PUSH_NEW", "UPDATE"} /\ Known(job[u].employee)
      BY <2>2, <2>4
    <3>2. job[u].employee \in Employees
      BY <2>4, <3>1 DEF IInv, PushHolds, AtWork
    <3> QED
      BY <3>1, <3>2 DEF Frame, Known
  <2>5. ASSUME NEW u \in Workers, job'[u] # Null, AtWork(job'[u])
        PROVE  job'[u].op \in {"PUSH_NEW", "UPDATE"} /\ emp'[job'[u].employee] \in Employee
    <3>1. CASE u # w
      BY <1>1, <2>4, <2>5, <3>1
    <3>2. CASE u = w
      <4>1. j # Null /\ AtWork(j) /\ job'[u] = j
        BY <1>1, <2>5, <3>2
      <4>2. CASE j.op \in {"PUSH_NEW", "UPDATE"} /\ j.employee \in Employees
                 /\ Known(j.employee)
        BY <4>1, <4>2 DEF Frame, Known
      <4>3. CASE job[w] # Null /\ AtWork(job[w]) /\ job[w].op = j.op
                 /\ job[w].employee = j.employee
        BY <2>4, <4>1, <4>3
      <4> QED
        BY <4>1, <4>2, <4>3 DEF Beside
    <3> QED
      BY <3>1, <3>2
  <2> QED
    BY <2>3, <2>5
<1> QED
  BY <1>2, <1>3 DEF PatientInv, Frame

LEMMA FrameSame ==
    ASSUME PatientInv, UNCHANGED <<emp, terminal, removing>>
    PROVE  Frame
<1>1. Distinct' /\ SlotsFit' /\ SyncedIsEnrolled'
  BY DEF PatientInv, Distinct, SlotsFit, SyncedIsEnrolled, Known
<1> QED
  BY <1>1 DEF PatientInv, JobsFit, Frame, Known

\* A push that is done, and a job that ends.
LEMMA EndStep ==
    ASSUME IInv, PatientInv, Frame, NEW w \in Workers, NEW e, DoneWith(w, e) \/ Abort(w)
    PROVE  PatientInv'
<1>1. CASE Abort(w)
  BY <1>1, FrameStep DEF Abort
<1>2. CASE DoneWith(w, e)
  <2> DEFINE rest == job[w].todo \ {e}
             new == NewJob("PUSH_NEW", "READ", Null, Null, rest)
  <2>1. job' = [job EXCEPT ![w] = IF rest = {} THEN Null ELSE new]
    BY <1>2 DEF DoneWith
  <2>2. new.op = "PUSH_NEW" /\ new.at = "READ"
    BY DEF NewJob
  <2> HIDE DEF new, rest
  <2>3. JobFits(new, emp', terminal', removing') /\ Beside(w, new)
    BY <2>2, FreshFits DEF Beside
  <2> QED
    BY <2>1, <2>2, <2>3, FrameStep
<1> QED
  BY <1>1, <1>2

\* A job at work that goes from one step to the next.
LEMMA GotoStep ==
    ASSUME IInv, PatientInv, Frame, NEW w \in Workers, job[w] # Null, AtWork(job[w]),
           NEW at \in {"SAVE", "FAIL", "DEVICE"}, JobGoto(w, at),
           at = "SAVE" /\ job[w].op \in {"PUSH_NEW", "UPDATE"}
           /\ emp'[job[w].employee] \in Employee
           /\ emp'[job[w].employee].status = "ACTIVE" /\ job[w].employee \notin removing' =>
               terminal'[SlotOf[job[w].uid]] = AsEnrolled(job[w].uid, job[w].name)
    PROVE  PatientInv'
<1> DEFINE k == job[w]
           new == [k EXCEPT !.at = at]
<1>1. k \in Job /\ JobFits(k, emp', terminal', removing')
  BY DEF IInv, TypeOK, Frame
<1>2. job' = [job EXCEPT ![w] = new]
  BY DEF JobGoto
<1>3. /\ new.at = at /\ new.op = k.op /\ new.employee = k.employee
      /\ new.uid = k.uid /\ new.name = k.name
  BY <1>1 DEF Job
<1>4. k.op \in {"PUSH_NEW", "UPDATE", "DELETE", "REMOVE"}
      /\ (k.op \in {"PUSH_NEW", "UPDATE"} => k.at # "READ")
  BY DEF AtWork
<1>5. at = "SAVE" /\ k.op \in {"PUSH_NEW", "UPDATE"} /\ emp'[k.employee] \in Employee
      /\ emp'[k.employee].status = "ACTIVE" /\ k.employee \notin removing' =>
          terminal'[SlotOf[k.uid]] = AsEnrolled(k.uid, k.name)
  OBVIOUS
<1>6. AtWork(k) /\ k # Null
  OBVIOUS
<1>7. job[w] = k
  OBVIOUS
<1> HIDE DEF new, k
<1>8. InStep(new, emp', removing')
  BY <1>1, <1>3, <1>4 DEF JobFits, InStep
<1>9. Apart(new, emp')
  BY <1>1, <1>3, <1>6 DEF JobFits, Apart
<1>10. Delivered(new, emp', terminal', removing')
  BY <1>3, <1>5 DEF Delivered
<1>11. Listed(new, emp', terminal')
  BY <1>3, <1>4 DEF Listed
<1>12. Beside(w, new)
  BY <1>3, <1>6, <1>7 DEF Beside
<1> QED
  BY <1>2, <1>3, <1>4, <1>8, <1>9, <1>10, <1>11, <1>12, FrameStep DEF JobFits

\* A row that goes by the same id, under the same name and status, and is linked if it
\* was, and whose user is on the terminal if it is shown as synced.
LEMMA FrameRow ==
    ASSUME IInv, PatientInv, NEW e \in Employees, Known(e), NEW row \in Employee,
           emp' = [emp EXCEPT ![e] = row], UNCHANGED <<terminal, removing>>,
           PushedAs(row) = PushedAs(emp[e]), row.name = emp[e].name,
           row.status = emp[e].status, emp[e].uid # Null => row.uid = emp[e].uid,
           row.status = "ACTIVE" /\ row.sync = "SYNCED" /\ e \notin removing =>
               terminal[SlotOf[row.uid]] = AsEnrolled(row.uid, row.name)
    PROVE  Frame
<1>1. emp'[e] = row /\ \A f \in Employees \ {e} : emp'[f] = emp[f]
  BY DEF IInv, TypeOK
<1>2. \A f \in Employees : Known(f)' <=> Known(f)
  BY <1>1 DEF Known
<1>3. \A f \in Employees : Known(f) =>
          /\ PushedAs(emp'[f]) = PushedAs(emp[f]) /\ emp'[f].name = emp[f].name
          /\ emp'[f].status = emp[f].status
          /\ emp[f].uid # Null => emp'[f].uid = emp[f].uid
  BY <1>1
<1>4. Distinct'
  <2> SUFFICES ASSUME NEW f \in Employees, NEW g \in Employees, Known(f)', Known(g)',
                      PushedAs(emp'[f]) = PushedAs(emp'[g])
               PROVE  f = g
    BY DEF Distinct
  <2> QED
    BY <1>2, <1>3 DEF PatientInv, Distinct
<1>5. SlotsFit'
  BY DEF PatientInv, SlotsFit
<1>6. SyncedIsEnrolled'
  <2> SUFFICES ASSUME NEW f \in Employees \ removing, Known(f)', emp'[f].status = "ACTIVE",
                      emp'[f].sync = "SYNCED"
               PROVE  terminal[SlotOf[emp'[f].uid]] = AsEnrolled(emp'[f].uid, emp'[f].name)
    BY DEF SyncedIsEnrolled, AsEnrolled
  <2>1. CASE f = e
    BY <1>1, <2>1
  <2>2. CASE f # e
    BY <1>1, <1>2, <2>2 DEF PatientInv, SyncedIsEnrolled
  <2> QED
    BY <2>1, <2>2
<1>7. ASSUME NEW v \in Workers, job[v] # Null
      PROVE  JobFits(job[v], emp', terminal', removing')
  <2> DEFINE k == job[v]
  <2>1. JobFits(k, emp, terminal, removing)
    BY <1>7 DEF PatientInv, JobsFit
  <2> HIDE DEF k
  <2>2. \A f \in Employees : emp'[f] \in Employee <=> emp[f] \in Employee
    BY <1>2 DEF Known
  <2>3. InStep(k, emp', removing')
    <3> SUFFICES ASSUME k.employee \in Employees, emp'[k.employee] \in Employee
                 PROVE  LET r == emp'[k.employee] IN
                        /\ k.op \in {"PUSH_NEW", "UPDATE"} /\ k.at # "READ" =>
                               PushedAs(r) = k.uid /\ r.name = k.name
                        /\ k.op \in {"DELETE", "REMOVE"} /\ k.uid # Null => r.uid = k.uid
                        /\ k.op = "DELETE" => r.status # "ACTIVE"
                        /\ k.op = "REMOVE" => k.employee \in removing
      BY DEF InStep
    <3>1. emp[k.employee] \in Employee /\ Known(k.employee)
      BY <2>2 DEF Known
    <3> QED
      BY <1>3, <2>1, <3>1 DEF JobFits, InStep
  <2>4. Apart(k, emp')
    BY <1>3, <2>1, <2>2 DEF JobFits, Apart, Known
  <2>5. Delivered(k, emp', terminal', removing')
    <3> SUFFICES ASSUME k.op \in {"PUSH_NEW", "UPDATE"}, k.at = "SAVE",
                        emp'[k.employee] \in Employee, emp'[k.employee].status = "ACTIVE",
                        k.employee \notin removing
                 PROVE  terminal[SlotOf[k.uid]] = AsEnrolled(k.uid, k.name)
      BY DEF Delivered, AsEnrolled
    <3>1. k.employee \in Employees
      BY <1>7 DEF k, IInv, PushHolds
    <3> QED
      BY <1>3, <2>1, <2>2, <3>1 DEF JobFits, Delivered, Known
  <2>6. Listed(k, emp', terminal')
    <3> SUFFICES ASSUME k.op = "IMPORT", k.at = "NEXT", NEW user \in k.users
                 PROVE  \/ \E f \in Employees :
                               emp'[f] \in Employee /\ emp'[f].uid = user.uid
                        \/ terminal[SlotOf[user.uid]] = user
      BY DEF Listed
    <3>1. user.uid # Null
      <4>1. k \in Job
        BY <1>7 DEF k, IInv, TypeOK
      <4>2. user \in User
        BY <4>1 DEF Job
      <4> QED
        BY <4>2, Markers DEF User
    <3>2. CASE terminal[SlotOf[user.uid]] = user
      BY <3>2
    <3>3. CASE \E f \in Employees : emp[f] \in Employee /\ emp[f].uid = user.uid
      BY <1>3, <2>2, <3>1, <3>3 DEF Known
    <3> QED
      BY <2>1, <3>2, <3>3 DEF JobFits, Listed
  <2> QED
    BY <2>3, <2>4, <2>5, <2>6 DEF JobFits, k
<1> QED
  BY <1>2, <1>3, <1>4, <1>5, <1>6, <1>7 DEF Frame

-----------------------------------------------------------------------------
(* The steps of the jobs. *)

\* A row whose push has failed.
LEMMA FailedRow ==
    ASSUME IInv, PatientInv, NEW e \in Employees, Known(e),
           Saves(e, [emp[e] EXCEPT !.sync = "FAILED"]), UNCHANGED <<terminal, removing>>
    PROVE  Frame
<1> DEFINE row == [emp[e] EXCEPT !.sync = "FAILED"]
<1>1. emp[e] \in Employee /\ emp' = [emp EXCEPT ![e] = row]
  BY DEF Known, Saves
<1>2. /\ row \in Employee /\ row.uid = emp[e].uid /\ row.code = emp[e].code
      /\ row.name = emp[e].name /\ row.status = emp[e].status /\ row.sync = "FAILED"
  BY <1>1 DEF Employee, SyncStatuses
<1> HIDE DEF row
<1>3. PushedAs(row) = PushedAs(emp[e])
  BY <1>2 DEF PushedAs
<1> QED
  BY <1>1, <1>2, <1>3, FrameRow

LEMMA ReadPatient ==
    ASSUME IInv, PatientInv, NEW w \in Workers,
           ReadUnlinked(w) \/ ReadEmployee(w) \/ ReadNothing(w)
    PROVE  PatientInv'
<1>0. /\ job[w] \in Job /\ job[w] # Null /\ job[w].op \in {"PUSH_NEW", "UPDATE"}
      /\ job[w].at = "READ"
  BY DEF ReadUnlinked, ReadEmployee, ReadNothing, JobAt, IInv, TypeOK
<1>1. CASE ReadUnlinked(w)
  <2> DEFINE new == [job[w] EXCEPT !.op = "PUSH_NEW"]
  <2>1. new.op = "PUSH_NEW" /\ new.at = "READ"
    BY <1>0 DEF Job
  <2>2. job' = [job EXCEPT ![w] = new] /\ UNCHANGED <<emp, terminal, removing>>
    BY <1>1 DEF ReadUnlinked
  <2> HIDE DEF new
  <2>3. JobFits(new, emp', terminal', removing') /\ Beside(w, new)
    BY <2>1, FreshFits DEF Beside
  <2> QED
    BY <2>1, <2>2, <2>3, FrameSame, FrameStep
<1>2. CASE ReadEmployee(w)
  <2>1. PICK e \in job[w].todo :
           /\ Readable(job[w].op, e)
           /\ job' = [job EXCEPT ![w] =
                [job[w] EXCEPT !.at = "DEVICE", !.employee = e, !.todo = @ \ {e},
                               !.device = TRUE, !.uid = PushedAs(emp[e]), !.name = emp[e].name]]
    BY <1>2 DEF ReadEmployee
  <2> DEFINE new == [job[w] EXCEPT !.at = "DEVICE", !.employee = e, !.todo = @ \ {e},
                                   !.device = TRUE, !.uid = PushedAs(emp[e]),
                                   !.name = emp[e].name]
  <2>2. e \in Employees /\ Known(e)
    BY <1>0, <2>1 DEF Readable, Job
  <2>3. /\ new.at = "DEVICE" /\ new.op = job[w].op /\ new.employee = e
        /\ new.uid = PushedAs(emp[e]) /\ new.name = emp[e].name
    BY <1>0 DEF Job
  <2>4. job' = [job EXCEPT ![w] = new] /\ UNCHANGED <<emp, terminal, removing>>
    BY <1>2, <2>1 DEF ReadEmployee
  <2> HIDE DEF new
  <2>5. Apart(new, emp)
    BY <2>2, <2>3 DEF Apart, PatientInv, Distinct, Known
  <2>6. JobFits(new, emp, terminal, removing)
    BY <1>0, <2>3, <2>5 DEF JobFits, InStep, Delivered, Listed
  <2>7. Beside(w, new) /\ new.op # "IMPORT"
    BY <1>0, <2>2, <2>3 DEF Beside
  <2> QED
    BY <2>4, <2>6, <2>7, FrameSame, FrameStep
<1>3. CASE ReadNothing(w)
  <2>1. PICK e \in job[w].todo :
           /\ IF Known(e) /\ job[w].op = "PUSH_NEW"
              THEN Saves(e, [emp[e] EXCEPT !.sync = "FAILED"]) ELSE UNCHANGED emp
           /\ DoneWith(w, e)
    BY <1>3 DEF ReadNothing
  <2>2. e \in Employees /\ UNCHANGED <<terminal, removing>>
    BY <1>0, <1>3, <2>1 DEF Job, ReadNothing
  <2>3. CASE UNCHANGED emp
    BY <2>1, <2>2, <2>3, FrameSame, EndStep
  <2>4. CASE Known(e) /\ Saves(e, [emp[e] EXCEPT !.sync = "FAILED"])
    BY <2>1, <2>2, <2>4, FailedRow, EndStep
  <2> QED
    BY <2>1, <2>3, <2>4
<1> QED
  BY <1>1, <1>2, <1>3

\* A step that writes one slot of the terminal: with the employee a push has in hand, or
\* empty, for somebody who has left or is being removed.
LEMMA FrameSlot ==
    ASSUME IInv, PatientInv, OwnSlots, WholeIds, NEW w \in Workers, job[w] # Null,
           AtWork(job[w]), job[w].uid \in Uids, NEW x,
           terminal' = [terminal EXCEPT ![SlotOf[job[w].uid]] = x], UNCHANGED <<emp, removing>>,
           \/ /\ job[w].op \in {"PUSH_NEW", "UPDATE"} /\ x = AsEnrolled(job[w].uid, job[w].name)
           \/ job[w].op \in {"DELETE", "REMOVE"} /\ x = Null
    PROVE  Frame
<1> DEFINE k == job[w]
           u == job[w].uid
<1>0. JobFits(k, emp, terminal, removing)
  BY DEF PatientInv, JobsFit
<1>1. /\ SlotOf[u] \in Slots /\ terminal'[SlotOf[u]] = x
      /\ \A s \in Slots \ {SlotOf[u]} : terminal'[s] = terminal[s]
  BY TerminalAssumption DEF IInv, TypeOK
<1>2. \A v \in Uids : SlotOf[v] \in Slots /\ (v # u => terminal'[SlotOf[v]] = terminal[SlotOf[v]])
  BY <1>1, TerminalAssumption DEF OwnSlots
<1>3. AtWork(k) /\ u = k.uid /\ u \in Uids
  OBVIOUS
<1>4. k.employee \in Employees
  BY <1>3 DEF AtWork, IInv, PushHolds, RemovalHolds
<1>5. \/ k.op \in {"PUSH_NEW", "UPDATE"} /\ k.at # "READ" /\ x = AsEnrolled(u, k.name)
      \/ k.op \in {"DELETE", "REMOVE"} /\ x = Null
  BY DEF AtWork
<1>6. k = job[w] /\ k # Null
  OBVIOUS
<1> HIDE DEF k, u
<1>7. \A f \in Employees : Known(f)' <=> Known(f)
  BY DEF Known
<1>8. \A f \in Employees : Known(f) /\ PushedAs(emp[f]) = u => f = k.employee
  BY <1>0, <1>3 DEF JobFits, Apart, Known
<1>9. \A f \in Employees \ removing :
          Known(f) /\ emp[f].status = "ACTIVE" /\ PushedAs(emp[f]) = u =>
              x = AsEnrolled(u, emp[f].name)
  <2> SUFFICES ASSUME NEW f \in Employees \ removing, Known(f), emp[f].status = "ACTIVE",
                      PushedAs(emp[f]) = u
               PROVE  x = AsEnrolled(u, emp[f].name)
    OBVIOUS
  <2>1. f = k.employee /\ emp[f] \in Employee
    BY <1>8 DEF Known
  <2>2. CASE k.op \in {"PUSH_NEW", "UPDATE"} /\ k.at # "READ" /\ x = AsEnrolled(u, k.name)
    BY <1>0, <2>1, <2>2 DEF JobFits, InStep
  <2>3. CASE k.op \in {"DELETE", "REMOVE"}
    BY <1>0, <2>1, <2>3 DEF JobFits, InStep
  <2> QED
    BY <1>5, <2>2, <2>3
<1>10. SlotsFit'
  <2> SUFFICES ASSUME NEW s \in Slots, terminal'[s] # Null
               PROVE  SlotOf[terminal'[s].uid] = s
    BY DEF SlotsFit
  <2>1. CASE s # SlotOf[u]
    BY <1>1, <2>1 DEF PatientInv, SlotsFit
  <2>2. CASE s = SlotOf[u]
    <3>1. x # Null
      BY <1>1, <2>2
    <3>2. x = AsEnrolled(u, k.name)
      BY <1>5, <3>1
    <3>3. x.uid = u
      BY <1>3, <3>2 DEF AsEnrolled, WholeIds
    <3> QED
      BY <1>1, <2>2, <3>3
  <2> QED
    BY <2>1, <2>2
<1>11. SyncedIsEnrolled'
  <2> SUFFICES ASSUME NEW f \in Employees \ removing, Known(f), emp[f].status = "ACTIVE",
                      emp[f].sync = "SYNCED"
               PROVE  terminal'[SlotOf[emp[f].uid]] = AsEnrolled(emp[f].uid, emp[f].name)
    BY DEF SyncedIsEnrolled, Known, AsEnrolled
  <2>1. emp[f].uid \in Uids /\ PushedAs(emp[f]) = emp[f].uid
    BY Markers DEF IInv, SyncedHasUid, Known, Employee, PushedAs
  <2>2. CASE emp[f].uid = u
    BY <1>1, <1>9, <2>1, <2>2
  <2>3. CASE emp[f].uid # u
    BY <1>2, <2>1, <2>3 DEF PatientInv, SyncedIsEnrolled
  <2> QED
    BY <2>2, <2>3
<1>12. ASSUME NEW v \in Workers, job[v] # Null
       PROVE  JobFits(job[v], emp', terminal', removing')
  <2> DEFINE h == job[v]
  <2>1. JobFits(h, emp, terminal, removing) /\ h \in Job
    BY <1>12 DEF PatientInv, JobsFit, IInv, TypeOK
  <2>2. h.op \in {"PUSH_NEW", "UPDATE"} /\ h.at # "READ" =>
            h.employee \in Employees /\ h.uid \in Uids
    BY <1>12 DEF IInv, PushHolds
  <2>3. h = job[v] /\ h # Null
    BY <1>12
  <2> HIDE DEF h
  <2>4. InStep(h, emp', removing') /\ Apart(h, emp')
    BY <2>1 DEF JobFits, InStep, Apart
  <2>5. Delivered(h, emp', terminal', removing')
    <3> SUFFICES ASSUME h.op \in {"PUSH_NEW", "UPDATE"}, h.at = "SAVE",
                        emp[h.employee] \in Employee, emp[h.employee].status = "ACTIVE",
                        h.employee \notin removing
                 PROVE  terminal'[SlotOf[h.uid]] = AsEnrolled(h.uid, h.name)
      BY DEF Delivered, AsEnrolled
    <3>1. terminal[SlotOf[h.uid]] = AsEnrolled(h.uid, h.name)
      BY <2>1 DEF JobFits, Delivered
    <3>2. PushedAs(emp[h.employee]) = h.uid /\ emp[h.employee].name = h.name
      BY <2>1, <2>2 DEF JobFits, InStep
    <3>3. h.employee \in Employees /\ h.uid \in Uids /\ Known(h.employee)
      BY <2>2 DEF Known
    <3>4. CASE h.uid = u
      BY <1>1, <1>9, <3>2, <3>3, <3>4
    <3>5. CASE h.uid # u
      BY <1>2, <3>1, <3>3, <3>5
    <3> QED
      BY <3>4, <3>5
  <2>6. Listed(h, emp', terminal')
    <3> SUFFICES ASSUME h.op = "IMPORT", h.at = "NEXT", NEW user \in h.users,
                        ~\E f \in Employees : emp[f] \in Employee /\ emp[f].uid = user.uid
                 PROVE  terminal'[SlotOf[user.uid]] = user
      BY DEF Listed
    <3>1. user.uid \in Uids
      <4>1. user \in User
        BY <2>1 DEF Job
      <4> QED
        BY <4>1 DEF User
    <3>2. terminal[SlotOf[user.uid]] = user
      BY <2>1 DEF JobFits, Listed
    <3>3. /\ k.op \in {"PUSH_NEW", "UPDATE"} /\ Known(k.employee)
          /\ emp[k.employee].uid # Null
      BY <1>3, <1>4, <1>6, <2>3 DEF PatientInv, ImportCalm
    <3>4. emp[k.employee].uid = u
      <4>1. emp[k.employee] \in Employee /\ k.at # "READ"
        BY <1>5, <3>3 DEF Known
      <4>2. PushedAs(emp[k.employee]) = u
        BY <1>0, <1>3, <1>4, <3>3, <4>1 DEF JobFits, InStep
      <4> QED
        BY <3>3, <4>2 DEF PushedAs
    <3>5. user.uid # u
      BY <1>4, <3>3, <3>4 DEF Known
    <3> QED
      BY <1>2, <3>1, <3>2, <3>5
  <2> QED
    BY <2>4, <2>5, <2>6 DEF JobFits, h
<1>13. Distinct'
  BY DEF PatientInv, Distinct, Known
<1> QED
  BY <1>7, <1>10, <1>11, <1>12, <1>13 DEF Frame

LEMMA EnrolPatient ==
    ASSUME IInv, PatientInv, OwnSlots, WholeIds, NEW w \in Workers,
           Enrol(w) \/ EnrolUnanswered(w)
    PROVE  PatientInv'
<1> DEFINE user == AsEnrolled(job[w].uid, job[w].name)
<1>1. /\ job[w] # Null /\ job[w].op \in {"PUSH_NEW", "UPDATE"} /\ job[w].at = "DEVICE"
      /\ UNCHANGED <<emp, removing>>
  BY DEF Enrol, EnrolUnanswered, JobAt
<1>2. AtWork(job[w]) /\ job[w].uid \in Uids
  BY <1>1 DEF AtWork, IInv, PushHolds
<1>3. \/ terminal' = [terminal EXCEPT ![SlotOf[job[w].uid]] = user] /\ JobGoto(w, "SAVE")
      \/ terminal' = [terminal EXCEPT ![SlotOf[job[w].uid]] = user] /\ JobGoto(w, "FAIL")
      \/ UNCHANGED terminal /\ JobGoto(w, "FAIL")
  BY DEF Enrol, EnrolUnanswered, Put
<1>4. CASE UNCHANGED terminal /\ JobGoto(w, "FAIL")
  BY <1>1, <1>2, <1>4, FrameSame, GotoStep
<1>5. CASE terminal' = [terminal EXCEPT ![SlotOf[job[w].uid]] = user]
  <2>1. Frame
    <3> HIDE DEF user
    <3>1. user = AsEnrolled(job[w].uid, job[w].name)
      BY DEF user
    <3> QED
      BY <1>1, <1>2, <1>5, <3>1, FrameSlot
  <2>2. terminal'[SlotOf[job[w].uid]] = user
    BY <1>2, <1>5, TerminalAssumption DEF IInv, TypeOK
  <2>3. JobGoto(w, "SAVE") \/ JobGoto(w, "FAIL")
    BY <1>3
  <2> QED
    BY <1>1, <1>2, <2>1, <2>2, <2>3, GotoStep
<1> QED
  BY <1>3, <1>4, <1>5


LEMMA SavePatient ==
    ASSUME IInv, PatientInv, NEW w \in Workers, SaveSynced(w) \/ SaveFailed(w)
    PROVE  PatientInv'
<1> DEFINE e == job[w].employee
           row == Synced(emp[e], w)
<1>1. /\ job[w] # Null /\ job[w].op \in {"PUSH_NEW", "UPDATE"}
      /\ job[w].at \in {"SAVE", "FAIL"} /\ UNCHANGED <<terminal, removing>>
  BY DEF SaveSynced, SaveFailed, JobAt
<1>2. /\ e \in Employees /\ job[w].uid \in Uids /\ AtWork(job[w])
      /\ JobFits(job[w], emp, terminal, removing)
  BY <1>1 DEF IInv, PushHolds, AtWork, PatientInv, JobsFit
<1>3. CASE SaveSynced(w)
  <2>1. CASE UNCHANGED emp
    <3>1. DoneWith(w, e) \/ JobGoto(w, "FAIL")
      BY <1>3 DEF SaveSynced
    <3> QED
      BY <1>1, <1>2, <2>1, <3>1, FrameSame, EndStep, GotoStep
  <2>2. CASE Known(e) /\ emp' = [emp EXCEPT ![e] = row]
    <3>1. emp[e] \in Employee /\ job[w].at = "SAVE"
      BY <1>3, <2>2 DEF Known, SaveSynced, JobAt
    <3>2. PushedAs(emp[e]) = job[w].uid /\ emp[e].name = job[w].name
      BY <1>1, <1>2, <3>1 DEF JobFits, InStep
    <3>3. job[w].op = "UPDATE" => emp[e].uid # Null
      BY <1>1, <2>2, <3>1 DEF IInv, PushHolds
    <3>4. /\ row \in Employee /\ row.uid = job[w].uid /\ row.code = emp[e].code
          /\ row.name = emp[e].name /\ row.status = emp[e].status
      <4>1. CASE job[w].op = "PUSH_NEW"
        BY <1>2, <3>1, <4>1 DEF Synced, Employee, SyncStatuses
      <4>2. CASE job[w].op = "UPDATE"
        <5>1. emp[e].uid = job[w].uid
          BY <3>2, <3>3, <4>2 DEF PushedAs
        <5> QED
          BY <3>1, <4>2, <5>1 DEF Synced, Employee, SyncStatuses
      <4> QED
        BY <1>1, <4>1, <4>2
    <3> HIDE DEF row
    <3>5. PushedAs(row) = PushedAs(emp[e]) /\ (emp[e].uid # Null => row.uid = emp[e].uid)
      BY <1>2, <3>2, <3>4, Markers DEF PushedAs
    <3>6. row.status = "ACTIVE" /\ e \notin removing =>
              terminal[SlotOf[row.uid]] = AsEnrolled(row.uid, row.name)
      BY <1>1, <1>2, <3>1, <3>2, <3>4 DEF JobFits, Delivered
    <3>7. Frame
      <4> HIDE DEF e
      <4> QED
        BY <1>1, <1>2, <2>2, <3>4, <3>5, <3>6, FrameRow
    <3>8. DoneWith(w, e) \/ JobGoto(w, "FAIL")
      BY <1>3 DEF SaveSynced
    <3> QED
      BY <1>1, <1>2, <3>7, <3>8, EndStep, GotoStep
  <2> QED
    BY <1>3, <2>1, <2>2 DEF SaveSynced, Saves
<1>4. CASE SaveFailed(w)
  <2>1. DoneWith(w, e) \/ Abort(w)
    BY <1>4 DEF SaveFailed
  <2>2. Frame
    <3>1. CASE Known(e)
      BY <1>1, <1>2, <1>4, <3>1, FailedRow DEF SaveFailed
    <3>2. CASE ~Known(e)
      BY <1>1, <1>4, <3>2, FrameSame DEF SaveFailed
    <3> QED
      BY <3>1, <3>2
  <2> QED
    BY <2>1, <2>2, EndStep
<1> QED
  BY <1>3, <1>4

LEMMA RemovalPatient ==
    ASSUME IInv, PatientInv, OwnSlots, WholeIds, NEW w \in Workers, ReadDevice(w) \/ Unenrol(w)
    PROVE  PatientInv'
<1>1. /\ job[w] # Null /\ job[w].op \in {"DELETE", "REMOVE"} /\ job[w].at # "SAVE"
      /\ UNCHANGED <<emp, removing>>
  BY DEF ReadDevice, Unenrol, JobAt
<1>2. AtWork(job[w]) /\ job[w].uid \in Uids
  BY <1>1 DEF AtWork, IInv, RemovalHolds
<1>3. JobGoto(w, "DEVICE") \/ JobGoto(w, "SAVE") \/ Abort(w)
  BY DEF ReadDevice, Unenrol
<1>4. \/ UNCHANGED terminal
      \/ terminal' = [terminal EXCEPT ![SlotOf[job[w].uid]] = Null]
  BY DEF ReadDevice, Unenrol, Put
<1>5. Frame
  BY <1>1, <1>2, <1>4, FrameSame, FrameSlot
<1> QED
  BY <1>1, <1>2, <1>3, <1>5, GotoStep, EndStep

\* The row of somebody removed goes, and with it what his jobs had to be in step with.
LEMMA DropPatient ==
    ASSUME IInv, PatientInv, NEW w \in Workers, DropRow(w)
    PROVE  PatientInv'
<1> DEFINE e == job[w].employee
<1>1. /\ job[w] # Null /\ job[w].op = "REMOVE" /\ e \in Employees
      /\ job' = [job EXCEPT ![w] = Null] /\ emp' = [emp EXCEPT ![e] = Gone]
      /\ removing' = removing \ {e} /\ UNCHANGED terminal
  BY DEF DropRow, JobAt, Abort, IInv, RemovalHolds
<1> HIDE DEF e
<1>2. /\ emp'[e] = Gone /\ \A f \in Employees \ {e} : emp'[f] = emp[f]
      /\ job'[w] = Null /\ \A v \in Workers \ {w} : job'[v] = job[v]
  BY <1>1 DEF IInv, TypeOK
<1>3. /\ ~(emp'[e] \in Employee)
      /\ \A f \in Employees : Known(f)' => f # e /\ Known(f) /\ emp'[f] = emp[f]
  BY <1>2, Markers DEF Known
<1>4. \A v \in Workers : job[v] # Null => job[v].op # "IMPORT"
  <2> SUFFICES ASSUME NEW v \in Workers, job[v] # Null, job[v].op = "IMPORT"
               PROVE  FALSE
    OBVIOUS
  <2>1. \A u \in Workers : job[u] # Null /\ AtWork(job[u]) =>
            job[u].op \in {"PUSH_NEW", "UPDATE"}
    BY DEF PatientInv, ImportCalm
  <2>2. AtWork(job[w])
    BY <1>1 DEF AtWork
  <2> QED
    BY <1>1, <2>1, <2>2
<1>5. Distinct'
  BY <1>2, <1>3 DEF PatientInv, Distinct
<1>6. SlotsFit'
  BY <1>1 DEF PatientInv, SlotsFit
<1>7. ImportCalm'
  BY <1>2, <1>4 DEF ImportCalm
<1>8. SyncedIsEnrolled'
  <2> SUFFICES ASSUME NEW f \in Employees \ removing', Known(f)', emp'[f].status = "ACTIVE",
                      emp'[f].sync = "SYNCED"
               PROVE  terminal'[SlotOf[emp'[f].uid]] = AsEnrolled(emp'[f].uid, emp'[f].name)
    BY DEF SyncedIsEnrolled, AsEnrolled
  <2>1. f # e /\ f \in Employees \ removing /\ Known(f) /\ emp'[f] = emp[f]
    BY <1>1, <1>2, <1>3
  <2> QED
    BY <1>1, <2>1 DEF PatientInv, SyncedIsEnrolled
<1>9. ASSUME NEW v \in Workers \ {w}, job[v] # Null
      PROVE  JobFits(job[v], emp', terminal', removing')
  <2> DEFINE k == job[v]
  <2>1. JobFits(k, emp, terminal, removing) /\ k.op # "IMPORT"
    BY <1>4, <1>9 DEF PatientInv, JobsFit
  <2>2. k.op \in {"PUSH_NEW", "UPDATE"} /\ k.at = "SAVE" => k.employee \in Employees
    BY <1>9 DEF IInv, PushHolds
  <2> HIDE DEF k
  <2>3. \A f \in Employees : emp'[f] \in Employee =>
            f # e /\ emp'[f] = emp[f] /\ (f \in removing <=> f \in removing')
    BY <1>1, <1>2, Markers
  <2>4. InStep(k, emp', removing')
    BY <2>1, <2>3 DEF JobFits, InStep
  <2>5. Apart(k, emp')
    BY <2>1, <2>3 DEF JobFits, Apart
  <2>6. Delivered(k, emp', terminal', removing')
    BY <1>1, <2>1, <2>2, <2>3 DEF JobFits, Delivered
  <2>7. Listed(k, emp', terminal')
    BY <2>1 DEF Listed
  <2> QED
    BY <2>4, <2>5, <2>6, <2>7 DEF JobFits, k
<1>10. JobsFit'
  BY <1>2, <1>9 DEF JobsFit
<1> QED
  BY <1>5, <1>6, <1>7, <1>8, <1>10 DEF PatientInv

LEMMA ListPatient ==
    ASSUME IInv, PatientInv, NEW w \in Workers, ListUsers(w) \/ ListUnanswered(w) \/ ImportEnds(w)
    PROVE  PatientInv'
<1>1. UNCHANGED <<emp, terminal, removing>>
  BY DEF ListUsers, ListUnanswered, ImportEnds
<1>2. CASE ListUsers(w)
  <2> DEFINE listed == {terminal[s] : s \in Slots} \ {Null}
             new == [job[w] EXCEPT !.at = "NEXT", !.users = listed]
  <2>1. job[w] \in Job /\ job[w].op = "IMPORT" /\ job[w] # Null
    BY <1>2 DEF ListUsers, JobAt, IInv, TypeOK
  <2>2. job' = [job EXCEPT ![w] = new]
    BY <1>2 DEF ListUsers
  <2>3. \A user \in listed : terminal[SlotOf[user.uid]] = user
    BY DEF PatientInv, SlotsFit
  <2> HIDE DEF listed
  <2>4. new.op = "IMPORT" /\ new.users = listed
    BY <2>1 DEF Job
  <2> HIDE DEF new
  <2>5. JobFits(new, emp, terminal, removing) /\ Beside(w, new)
    BY <2>3, <2>4 DEF JobFits, InStep, Apart, Delivered, Listed, AtWork, Beside
  <2> QED
    BY <1>1, <2>1, <2>2, <2>5, FrameSame, FrameStep
<1>3. CASE ListUnanswered(w) \/ ImportEnds(w)
  BY <1>1, <1>3, FrameSame, EndStep DEF ListUnanswered, ImportEnds
<1> QED
  BY <1>2, <1>3

LEMMA ImportPatient ==
    ASSUME IInv, PatientInv, OwnSlots, WholeIds, NEW w \in Workers, ImportUser(w)
    PROVE  PatientInv'
<1>1. job[w] \in Job /\ job[w] # Null /\ job[w].op = "IMPORT" /\ job[w].at = "NEXT"
  BY DEF ImportUser, JobAt, IInv, TypeOK
<1>2. PICK user \in job[w].users :
         SkipUser(w, user) \/ \E e \in Employees : AddUser(w, user, e)
  BY DEF ImportUser
<1> DEFINE new == [job[w] EXCEPT !.users = job[w].users \ {user}]
<1>3. /\ user \in User /\ user.uid \in Uids /\ user.uid # Null
      /\ new.op = "IMPORT" /\ new.at = "NEXT" /\ new.users = job[w].users \ {user}
  BY <1>1, <1>2, Markers DEF Job, User
<1>4. job' = [job EXCEPT ![w] = new] \/ job' = [job EXCEPT ![w] = Null]
  BY <1>2 DEF SkipUser, AddUser
<1>5. UNCHANGED <<terminal, removing>>
  BY DEF ImportUser
<1>6. JobFits(job[w], emp, terminal, removing)
  BY <1>1 DEF PatientInv, JobsFit
<1> HIDE DEF new
<1>7. JobFits(new, emp, terminal, removing) /\ Beside(w, new)
  BY <1>1, <1>3, <1>6 DEF JobFits, InStep, Apart, Delivered, Listed, AtWork, Beside
<1>8. CASE SkipUser(w, user)
  BY <1>1, <1>4, <1>5, <1>7, <1>8, FrameSame, FrameStep DEF SkipUser
<1>9. ASSUME NEW e \in Employees, AddUser(w, user, e)
      PROVE  PatientInv'
  <2> DEFINE row == [code |-> ImportedCode(user.uid), uid |-> user.uid, name |-> user.name,
                     status |-> "ACTIVE", sync |-> "SYNCED"]
  <2>1. emp[e] = Null /\ emp' = [emp EXCEPT ![e] = row] /\ ~Linked(user.uid)
    BY <1>9 DEF AddUser, Fresh, Saves
  <2>2. PushedAs(row) = user.uid /\ row.uid = user.uid /\ row.name = user.name
    BY <1>3 DEF PushedAs
  <2> HIDE DEF row
  <2>3. /\ emp'[e] = row /\ \A f \in Employees \ {e} : emp'[f] = emp[f]
        /\ job'[w] \in {new, Null} /\ \A v \in Workers \ {w} : job'[v] = job[v]
        /\ ~Known(e) /\ \A f \in Employees \ {e} : Known(f)' <=> Known(f)
    BY <1>4, <2>1, Markers DEF IInv, TypeOK, Known
  <2>4. \A f \in Employees : Known(f) =>
            emp[f].uid # Null /\ PushedAs(emp[f]) = emp[f].uid /\ emp[f].uid # user.uid
    BY <1>1, <2>1 DEF PatientInv, ImportCalm, Linked, PushedAs
  <2>5. \A v \in Workers : job[v] # Null /\ AtWork(job[v]) =>
            /\ job[v].op \in {"PUSH_NEW", "UPDATE"} /\ Known(job[v].employee)
            /\ job[v].employee \in Employees \ {e}
    BY <1>1, <2>1 DEF PatientInv, ImportCalm, IInv, PushHolds, AtWork
  <2>6. terminal[SlotOf[user.uid]] = AsEnrolled(user.uid, user.name)
    <3>1. terminal[SlotOf[user.uid]] = user
      BY <1>1, <1>2, <1>6, <2>1 DEF JobFits, Listed, Linked, Known
    <3>2. AsEnrolled(user.uid, user.name) = user
      BY <1>3 DEF AsEnrolled, WholeIds, User
    <3> QED
      BY <3>1, <3>2
  <2>7. Distinct'
    <3> SUFFICES ASSUME NEW f \in Employees, NEW g \in Employees, Known(f)', Known(g)',
                        PushedAs(emp'[f]) = PushedAs(emp'[g])
                 PROVE  f = g
      BY DEF Distinct
    <3>1. CASE f = e \/ g = e
      BY <2>2, <2>3, <2>4, <3>1
    <3>2. CASE f # e /\ g # e
      BY <2>3, <3>2 DEF PatientInv, Distinct
    <3> QED
      BY <3>1, <3>2
  <2>8. SlotsFit'
    BY <1>5 DEF PatientInv, SlotsFit
  <2>9. SyncedIsEnrolled'
    <3> SUFFICES ASSUME NEW f \in Employees \ removing, Known(f)', emp'[f].status = "ACTIVE",
                        emp'[f].sync = "SYNCED"
                 PROVE  terminal[SlotOf[emp'[f].uid]] = AsEnrolled(emp'[f].uid, emp'[f].name)
      BY <1>5 DEF SyncedIsEnrolled, AsEnrolled
    <3>1. CASE f = e
      BY <2>2, <2>3, <2>6, <3>1
    <3>2. CASE f # e
      BY <2>3, <3>2 DEF PatientInv, SyncedIsEnrolled
    <3> QED
      BY <3>1, <3>2
  <2>10. ASSUME NEW k, JobFits(k, emp, terminal, removing),
                AtWork(k) => /\ k.op \in {"PUSH_NEW", "UPDATE"} /\ Known(k.employee)
                             /\ k.employee \in Employees \ {e}
         PROVE  JobFits(k, emp', terminal', removing')
    <3>1. InStep(k, emp', removing')
      BY <1>5, <2>3, <2>10 DEF JobFits, InStep, AtWork
    <3>2. Apart(k, emp')
      <4> SUFFICES ASSUME AtWork(k), NEW f \in Employees, emp'[f] \in Employee,
                          f # k.employee
                   PROVE  PushedAs(emp'[f]) # k.uid
        BY DEF Apart
      <4>1. CASE f # e
        BY <2>3, <2>10, <4>1 DEF JobFits, Apart
      <4>2. CASE f = e
        <5>1. PushedAs(emp[k.employee]) = k.uid
          BY <2>10 DEF JobFits, InStep, AtWork, Known
        <5> QED
          BY <2>2, <2>3, <2>4, <2>10, <4>2, <5>1
      <4> QED
        BY <4>1, <4>2
    <3>3. Delivered(k, emp', terminal', removing')
      <4> SUFFICES ASSUME k.op \in {"PUSH_NEW", "UPDATE"}, k.at = "SAVE",
                          emp'[k.employee] \in Employee, emp'[k.employee].status = "ACTIVE",
                          k.employee \notin removing
                   PROVE  terminal[SlotOf[k.uid]] = AsEnrolled(k.uid, k.name)
        BY <1>5 DEF Delivered, AsEnrolled
      <4>1. k.employee \in Employees \ {e} /\ emp'[k.employee] = emp[k.employee]
        BY <2>3, <2>10 DEF AtWork
      <4> QED
        BY <2>10, <4>1 DEF JobFits, Delivered
    <3>4. Listed(k, emp', terminal')
      <4> SUFFICES ASSUME k.op = "IMPORT", k.at = "NEXT", NEW u \in k.users,
                          ~(terminal[SlotOf[u.uid]] = u)
                   PROVE  \E f \in Employees : emp'[f] \in Employee /\ emp'[f].uid = u.uid
        BY <1>5 DEF Listed
      <4>1. PICK f \in Employees : emp[f] \in Employee /\ emp[f].uid = u.uid
        BY <2>10 DEF JobFits, Listed
      <4> QED
        BY <2>3, <4>1 DEF Known
    <3> QED
      BY <3>1, <3>2, <3>3, <3>4 DEF JobFits
  <2>11. JobsFit'
    <3>1. ASSUME NEW v \in Workers \ {w}, job[v] # Null
          PROVE  JobFits(job[v], emp', terminal', removing')
      BY <2>5, <2>10, <3>1 DEF PatientInv, JobsFit
    <3>2. JobFits(new, emp', terminal', removing')
      BY <1>3, <1>7, <2>10 DEF AtWork
    <3> QED
      BY <2>3, <3>1, <3>2 DEF JobsFit
  <2>12. ImportCalm'
    <3>1. \A f \in Employees : Known(f)' => emp'[f].uid # Null
      BY <1>3, <2>2, <2>3, <2>4
    <3>2. ASSUME NEW v \in Workers, job'[v] # Null, AtWork(job'[v])
          PROVE  job'[v].op \in {"PUSH_NEW", "UPDATE"} /\ emp'[job'[v].employee] \in Employee
      <4>1. v # w /\ job'[v] = job[v]
        BY <1>3, <2>3, <3>2 DEF AtWork
      <4> QED
        BY <2>3, <2>5, <3>2, <4>1 DEF Known
    <3> QED
      BY <3>1, <3>2 DEF ImportCalm, Known
  <2> QED
    BY <2>7, <2>8, <2>9, <2>11, <2>12 DEF PatientInv
<1> QED
  BY <1>2, <1>8, <1>9

-----------------------------------------------------------------------------
(* HR's calls, one for an employee no job works for. *)

\* A call saves the employee's row, and starts a job that has nothing in hand yet or
\* the id he is linked to.
LEMMA CallPatient ==
    ASSUME IInv, PatientInv, NEW e \in Employees, ~Busy(e), emp[e] = Null \/ Known(e),
           NEW row \in Employee, emp' = [emp EXCEPT ![e] = row], UNCHANGED terminal,
           removing' \in {removing, removing \cup {e}, removing \ {e}},
           \A f \in Employees \ {e} : Known(f) => PushedAs(emp[f]) # PushedAs(row),
           \A v \in Workers : job[v] # Null /\ AtWork(job[v]) => job[v].uid # PushedAs(row),
           row.status = "ACTIVE" /\ row.sync = "SYNCED" => e \in removing',
           NEW p \in Workers, NEW j, job' = [job EXCEPT ![p] = j],
           \/ j = job[p]
           \/ /\ job[p] = Null /\ j.employee = e /\ j.op # "IMPORT"
              /\ j.op \in {"PUSH_NEW", "UPDATE"} => j.at = "READ"
              /\ j.op \in {"DELETE", "REMOVE"} => j.uid = row.uid
              /\ j.op = "DELETE" => row.status # "ACTIVE"
              /\ j.op = "REMOVE" => e \in removing'
    PROVE  PatientInv'
<1>1. /\ emp'[e] = row /\ \A f \in Employees \ {e} : emp'[f] = emp[f]
      /\ job'[p] = j /\ \A v \in Workers \ {p} : job'[v] = job[v]
  BY DEF IInv, TypeOK
<1>2. \A f \in Employees \ {e} : (emp'[f] \in Employee <=> Known(f))
                                 /\ (f \in removing' <=> f \in removing)
  BY <1>1 DEF Known
<1>3. \A v \in Workers : job[v] # Null => job[v].employee # e /\ job[v].op # "IMPORT"
  BY DEF Busy
<1>4. Distinct'
  <2> SUFFICES ASSUME NEW f \in Employees, NEW g \in Employees, emp'[f] \in Employee,
                      emp'[g] \in Employee, PushedAs(emp'[f]) = PushedAs(emp'[g])
               PROVE  f = g
    BY DEF Distinct, Known
  <2>1. CASE f = e \/ g = e
    BY <1>1, <1>2, <2>1
  <2>2. CASE f # e /\ g # e
    BY <1>1, <1>2, <2>2 DEF PatientInv, Distinct
  <2> QED
    BY <2>1, <2>2
<1>5. SlotsFit'
  BY DEF PatientInv, SlotsFit
<1>6. SyncedIsEnrolled'
  <2> SUFFICES ASSUME NEW f \in Employees \ removing', emp'[f] \in Employee,
                      emp'[f].status = "ACTIVE", emp'[f].sync = "SYNCED"
               PROVE  terminal[SlotOf[emp'[f].uid]] = AsEnrolled(emp'[f].uid, emp'[f].name)
    BY DEF SyncedIsEnrolled, AsEnrolled, Known
  <2>1. f # e
    BY <1>1
  <2> QED
    BY <1>1, <1>2, <2>1 DEF PatientInv, SyncedIsEnrolled
<1>7. ASSUME NEW v \in Workers, job[v] # Null
      PROVE  JobFits(job[v], emp', terminal', removing')
  <2> DEFINE k == job[v]
  <2>1. JobFits(k, emp, terminal, removing) /\ k.employee # e /\ k.op # "IMPORT"
    BY <1>3, <1>7 DEF PatientInv, JobsFit
  <2>2. AtWork(k) => k.uid # PushedAs(row)
    BY <1>7
  <2>3. k.op \in {"PUSH_NEW", "UPDATE"} /\ k.at = "SAVE" => k.employee \in Employees
    BY <1>7 DEF IInv, PushHolds
  <2> HIDE DEF k
  <2>4. InStep(k, emp', removing')
    <3>1. k.employee \in Employees /\ emp'[k.employee] \in Employee =>
              /\ emp'[k.employee] = emp[k.employee] /\ emp[k.employee] \in Employee
              /\ k.employee \in removing => k.employee \in removing'
      BY <1>1, <1>2, <2>1
    <3> QED
      BY <2>1, <3>1 DEF JobFits, InStep
  <2>5. Apart(k, emp')
    <3> SUFFICES ASSUME AtWork(k), NEW f \in Employees, emp'[f] \in Employee, f # k.employee
                 PROVE  PushedAs(emp'[f]) # k.uid
      BY DEF Apart
    <3>1. CASE f = e
      BY <1>1, <2>2, <3>1
    <3>2. CASE f # e
      BY <1>1, <1>2, <2>1, <3>2 DEF JobFits, Apart, Known
    <3> QED
      BY <3>1, <3>2
  <2>6. Delivered(k, emp', terminal', removing')
    <3> SUFFICES ASSUME k.op \in {"PUSH_NEW", "UPDATE"}, k.at = "SAVE",
                        emp'[k.employee] \in Employee, emp'[k.employee].status = "ACTIVE",
                        k.employee \notin removing'
                 PROVE  terminal[SlotOf[k.uid]] = AsEnrolled(k.uid, k.name)
      BY DEF Delivered, AsEnrolled
    <3>1. /\ emp'[k.employee] = emp[k.employee] /\ emp[k.employee] \in Employee
          /\ k.employee \notin removing
      BY <1>1, <1>2, <2>1, <2>3 DEF Known
    <3> QED
      BY <2>1, <3>1 DEF JobFits, Delivered
  <2>7. Listed(k, emp', terminal')
    BY <2>1 DEF Listed
  <2> QED
    BY <2>4, <2>5, <2>6, <2>7 DEF JobFits, k
<1>8. j # Null => JobFits(j, emp', terminal', removing') /\ j.op # "IMPORT"
  <2>1. CASE j = job[p]
    BY <1>3, <1>7, <2>1
  <2>2. CASE /\ job[p] = Null /\ j.employee = e /\ j.op # "IMPORT"
             /\ j.op \in {"PUSH_NEW", "UPDATE"} => j.at = "READ"
             /\ j.op \in {"DELETE", "REMOVE"} => j.uid = row.uid
             /\ j.op = "DELETE" => row.status # "ACTIVE"
             /\ j.op = "REMOVE" => e \in removing'
    <3>1. InStep(j, emp', removing')
      BY <1>1, <2>2 DEF InStep
    <3>2. Apart(j, emp')
      <4> SUFFICES ASSUME AtWork(j), NEW f \in Employees, emp'[f] \in Employee, f # e
                   PROVE  PushedAs(emp'[f]) # j.uid
        BY <2>2 DEF Apart
      <4>1. Known(f) /\ emp'[f] = emp[f]
        BY <1>1, <1>2
      <4>2. j.uid = row.uid
        BY <2>2 DEF AtWork
      <4>3. CASE row.uid = Null
        BY <4>1, <4>2, <4>3, PushedAsUid, Markers
      <4>4. CASE row.uid # Null
        BY <4>1, <4>2, <4>4 DEF PushedAs
      <4> QED
        BY <4>3, <4>4
    <3>3. Delivered(j, emp', terminal', removing') /\ Listed(j, emp', terminal')
      BY <2>2 DEF Delivered, Listed
    <3> QED
      BY <2>2, <3>1, <3>2, <3>3 DEF JobFits
  <2> QED
    BY <2>1, <2>2
<1>9. JobsFit'
  BY <1>1, <1>7, <1>8 DEF JobsFit
<1>10. ImportCalm'
  BY <1>1, <1>3, <1>8 DEF ImportCalm
<1> QED
  BY <1>4, <1>5, <1>6, <1>9, <1>10 DEF PatientInv

\* An employee no job works for has, and a row that goes by his id would have, the id
\* to himself.
LEMMA AloneUnderId ==
    ASSUME IInv, PatientInv, NEW e \in Employees, Known(e), ~Busy(e),
           NEW row, PushedAs(row) = PushedAs(emp[e])
    PROVE  /\ \A f \in Employees \ {e} : Known(f) => PushedAs(emp[f]) # PushedAs(row)
           /\ \A v \in Workers : job[v] # Null /\ AtWork(job[v]) => job[v].uid # PushedAs(row)
<1>1. \A f \in Employees \ {e} : Known(f) => PushedAs(emp[f]) # PushedAs(row)
  BY DEF PatientInv, Distinct
<1>2. ASSUME NEW v \in Workers, job[v] # Null, AtWork(job[v])
      PROVE  job[v].uid # PushedAs(row)
  <2>1. job[v].employee # e
    BY <1>2 DEF Busy
  <2> QED
    BY <1>2, <2>1 DEF PatientInv, JobsFit, JobFits, Apart, Known
<1> QED
  BY <1>1, <1>2

LEMMA CreatePatient ==
    ASSUME IInv, PatientInv, Patient, NEW p \in Workers, NEW e \in Employees,
           NEW code \in HrCodes, NEW uid \in UidChoices \cup {Null}, NEW name \in HrNames,
           NEW status \in {"ACTIVE"} \cup StatusEdits, Create(p, e, code, uid, name, status)
    PROVE  PatientInv'
<1> DEFINE row == [code |-> code, uid |-> uid, name |-> name,
                   status |-> status, sync |-> "PENDING"]
           new == NewJob("PUSH_NEW", "READ", e, Null, {e})
<1>1. row \in Employee /\ row.sync = "PENDING"
  BY InputAssumption DEF Employee, Codes, Statuses, SyncStatuses
<1>2. /\ emp[e] = Null /\ ~Busy(e) /\ OwnId(row, e) /\ emp' = [emp EXCEPT ![e] = row]
      /\ job' = [job EXCEPT ![p] = new] /\ job[p] = Null /\ UNCHANGED <<terminal, removing>>
  BY DEF Create, Fresh, Saves, LeftAlone, Start
<1>3. new.op = "PUSH_NEW" /\ new.at = "READ" /\ new.employee = e
  BY DEF NewJob
<1> HIDE DEF row, new
<1>4. /\ \A f \in Employees \ {e} : Known(f) => PushedAs(emp[f]) # PushedAs(row)
      /\ \A v \in Workers : job[v] # Null /\ AtWork(job[v]) => job[v].uid # PushedAs(row)
  BY <1>2 DEF OwnId
<1> QED
  BY <1>1, <1>2, <1>3, <1>4, CallPatient

LEMMA UpdatePatient ==
    ASSUME IInv, PatientInv, Patient, NEW p \in Workers, NEW e \in Employees,
           NEW code \in HrCodes \cup {emp[e].code}, NEW uid \in UidChoices \cup {Null},
           NEW name \in HrNames, NEW status \in {emp[e].status} \cup StatusEdits,
           Update(p, e, code, uid, name, status)
    PROVE  PatientInv'
<1> DEFINE row == [emp[e] EXCEPT !.code = code, !.uid = IF uid = Null THEN @ ELSE uid,
                                 !.name = name, !.status = status, !.sync = "PENDING"]
           new == NewJob("UPDATE", "READ", e, Null, {e})
<1>1. /\ Known(e) /\ ~Busy(e) /\ OwnId(row, e) /\ emp' = [emp EXCEPT ![e] = row]
      /\ job' = [job EXCEPT ![p] = new] /\ job[p] = Null
      /\ removing' = removing \ {e} /\ UNCHANGED terminal
  BY DEF Update, Saves, LeftAlone, Start
<1>2. row \in Employee /\ row.sync = "PENDING"
  BY <1>1, InputAssumption DEF Known, Employee, Codes, Statuses, SyncStatuses
<1>3. new.op = "UPDATE" /\ new.at = "READ" /\ new.employee = e
  BY DEF NewJob
<1> HIDE DEF row, new
<1>4. /\ \A f \in Employees \ {e} : Known(f) => PushedAs(emp[f]) # PushedAs(row)
      /\ \A v \in Workers : job[v] # Null /\ AtWork(job[v]) => job[v].uid # PushedAs(row)
  BY <1>1 DEF OwnId
<1> QED
  BY <1>1, <1>2, <1>3, <1>4, CallPatient

LEMMA LeavePatient ==
    ASSUME IInv, PatientInv, Patient, NEW p \in Workers, NEW e \in Employees,
           NEW status \in LeaveAs, Leave(p, e, status)
    PROVE  PatientInv'
<1> DEFINE row == [emp[e] EXCEPT !.status = status]
           new == NewJob("DELETE", "READ", e, emp[e].uid, {})
           j == IF emp[e].uid = Null THEN job[p] ELSE new
<1>1. Known(e) /\ ~Busy(e) /\ emp' = [emp EXCEPT ![e] = row] /\ UNCHANGED <<terminal, removing>>
  BY DEF Leave, Saves, LeftAlone
<1>2. /\ row \in Employee /\ row.status # "ACTIVE"
      /\ row.uid = emp[e].uid /\ row.code = emp[e].code
  BY <1>1, InputAssumption DEF Known, Employee, Statuses
<1>3. new.op = "DELETE" /\ new.employee = e /\ new.uid = emp[e].uid
  BY DEF NewJob
<1>4. job' = [job EXCEPT ![p] = j] /\ (emp[e].uid # Null => job[p] = Null)
  BY DEF Leave, Start, IInv, TypeOK
<1> HIDE DEF row, new
<1>5. PushedAs(row) = PushedAs(emp[e])
  BY <1>2 DEF PushedAs
<1>6. /\ \A f \in Employees \ {e} : Known(f) => PushedAs(emp[f]) # PushedAs(row)
      /\ \A v \in Workers : job[v] # Null /\ AtWork(job[v]) => job[v].uid # PushedAs(row)
  BY <1>1, <1>5, AloneUnderId
<1>7. \/ j = job[p]
      \/ /\ job[p] = Null /\ j.op = "DELETE" /\ j.employee = e /\ j.uid = row.uid
  BY <1>2, <1>3, <1>4
<1> HIDE DEF j
<1> QED
  BY <1>1, <1>2, <1>4, <1>6, <1>7, CallPatient

LEMMA ActivatePatient ==
    ASSUME IInv, PatientInv, Patient, NEW p \in Workers, NEW e \in Employees, Activate(p, e)
    PROVE  PatientInv'
<1> DEFINE row == [emp[e] EXCEPT !.status = "ACTIVE", !.sync = "PENDING"]
           new == NewJob("PUSH_NEW", "READ", e, Null, {e})
<1>1. /\ Known(e) /\ ~Busy(e) /\ emp' = [emp EXCEPT ![e] = row]
      /\ job' = [job EXCEPT ![p] = new] /\ job[p] = Null
      /\ removing' = removing \ {e} /\ UNCHANGED terminal
  BY DEF Activate, Saves, LeftAlone, Start
<1>2. /\ row \in Employee /\ row.sync = "PENDING"
      /\ row.uid = emp[e].uid /\ row.code = emp[e].code
  BY <1>1 DEF Known, Employee, Statuses, SyncStatuses
<1>3. new.op = "PUSH_NEW" /\ new.at = "READ" /\ new.employee = e
  BY DEF NewJob
<1> HIDE DEF row, new
<1>4. PushedAs(row) = PushedAs(emp[e])
  BY <1>2 DEF PushedAs
<1>5. /\ \A f \in Employees \ {e} : Known(f) => PushedAs(emp[f]) # PushedAs(row)
      /\ \A v \in Workers : job[v] # Null /\ AtWork(job[v]) => job[v].uid # PushedAs(row)
  BY <1>1, <1>4, AloneUnderId
<1> QED
  BY <1>1, <1>2, <1>3, <1>5, CallPatient

LEMMA RemovePatient ==
    ASSUME IInv, PatientInv, Patient, NEW p \in Workers, NEW e \in Employees, Remove(p, e)
    PROVE  PatientInv'
<1> DEFINE at == IF emp[e].uid = Null THEN "SAVE" ELSE "READ"
           new == NewJob("REMOVE", at, e, emp[e].uid, {})
<1>1. /\ Known(e) /\ ~Busy(e) /\ job' = [job EXCEPT ![p] = new] /\ job[p] = Null
      /\ removing' = removing \cup {e} /\ UNCHANGED <<emp, terminal>>
  BY DEF Remove, LeftAlone, Start
<1>2. new.op = "REMOVE" /\ new.employee = e /\ new.uid = emp[e].uid
  BY DEF NewJob
<1> HIDE DEF new, at
<1>3. emp' = [emp EXCEPT ![e] = emp[e]] /\ emp[e] \in Employee
  BY <1>1 DEF IInv, TypeOK, Known
<1>4. /\ \A f \in Employees \ {e} : Known(f) => PushedAs(emp[f]) # PushedAs(emp[e])
      /\ \A v \in Workers : job[v] # Null /\ AtWork(job[v]) => job[v].uid # PushedAs(emp[e])
  BY <1>1, AloneUnderId
<1> QED
  BY <1>1, <1>2, <1>3, <1>4, CallPatient

LEMMA StartPatient ==
    ASSUME IInv, PatientInv, Patient, NEW w \in Workers,
           BulkSync(w) \/ Import(w) \/ AddDevice(w) \/ RemoveDevice
    PROVE  PatientInv'
<1>1. UNCHANGED <<emp, terminal, removing>>
  BY DEF BulkSync, Import, AddDevice, RemoveDevice
<1>2. CASE BulkSync(w)
  <2> DEFINE new == NewJob("PUSH_NEW", "READ", Null, Null, Unsynced)
  <2>1. job' = [job EXCEPT ![w] = new]
    BY <1>2 DEF BulkSync, Start
  <2>2. new.op = "PUSH_NEW" /\ new.at = "READ"
    BY DEF NewJob
  <2> HIDE DEF new
  <2>3. JobFits(new, emp', terminal', removing') /\ Beside(w, new)
    BY <2>2, FreshFits DEF Beside
  <2> QED
    BY <1>1, <2>1, <2>2, <2>3, FrameSame, FrameStep
<1>3. CASE NobodyWaits /\ Start(w, "IMPORT", "DEVICE", Null, Null, {})
  <2> DEFINE new == NewJob("IMPORT", "DEVICE", Null, Null, {})
  <2>1. job' = [job EXCEPT ![w] = new] /\ \A v \in Workers : job[v] = Null
    BY <1>3 DEF Start, NobodyWaits, Idle
  <2>2. new.op = "IMPORT" /\ new.at = "DEVICE"
    BY DEF NewJob
  <2> HIDE DEF new
  <2>3. JobFits(new, emp', terminal', removing') /\ ~AtWork(new)
    BY <2>2 DEF JobFits, InStep, Apart, Delivered, Listed, AtWork
  <2>4. job'[w] = new /\ \A v \in Workers \ {w} : job'[v] = Null
    BY <2>1 DEF IInv, TypeOK
  <2>5. JobsFit'
    BY <2>3, <2>4 DEF JobsFit
  <2>6. ImportCalm'
    BY <1>1, <1>3, <2>3, <2>4 DEF ImportCalm, NobodyWaits, Known
  <2> QED
    BY <1>1, <2>5, <2>6, FrameSame DEF Frame, PatientInv
<1>4. CASE UNCHANGED job
  BY <1>1, <1>4 DEF PatientInv, Distinct, SlotsFit, JobsFit, ImportCalm, SyncedIsEnrolled, Known
<1>5. RemoveDevice => UNCHANGED job
  BY DEF RemoveDevice, Idle, HoldsDevice, JobAt, IInv, TypeOK
<1> QED
  BY <1>2, <1>3, <1>4, <1>5 DEF Import, AddDevice

-----------------------------------------------------------------------------

LEMMA InitPatient == Init => PatientInv
<1> SUFFICES ASSUME Init PROVE PatientInv
  OBVIOUS
<1>1. SlotsFit
  <2> SUFFICES ASSUME NEW s \in Slots, terminal[s] # Null
               PROVE  SlotOf[terminal[s].uid] = s
    BY DEF SlotsFit
  <2>1. terminal[s] = IF \E x \in Enrolled : SlotOf[x.uid] = s
                      THEN CHOOSE x \in Enrolled : SlotOf[x.uid] = s ELSE Null
    BY DEF Init
  <2> QED
    BY <2>1
<1>2. \A e \in Employees : ~Known(e)
  BY Markers DEF Init, Known
<1> QED
  BY <1>1, <1>2 DEF Init, PatientInv, Distinct, JobsFit, ImportCalm, SyncedIsEnrolled

LEMMA CallsPatient ==
    ASSUME IInv, PatientInv, Patient, Calls
    PROVE  PatientInv'
<1> USE DEF Workers
<1>1. CASE \E p \in Pushes, e \in Employees, code \in HrCodes, uid \in UidChoices \cup {Null},
              name \in HrNames, status \in {"ACTIVE"} \cup StatusEdits :
              Create(p, e, code, uid, name, status)
  BY <1>1, CreatePatient
<1>2. CASE \E p \in Pushes, e \in Employees : \E code \in HrCodes \cup {emp[e].code},
              uid \in UidChoices \cup {Null}, name \in HrNames,
              status \in {emp[e].status} \cup StatusEdits :
              Update(p, e, code, uid, name, status)
  BY <1>2, UpdatePatient
<1>3. CASE \E p \in Pushes, e \in Employees :
              (\E status \in LeaveAs : Leave(p, e, status)) \/ Activate(p, e) \/ Remove(p, e)
  BY <1>3, LeavePatient, ActivatePatient, RemovePatient
<1>4. CASE (\E p \in Pushes : BulkSync(p) \/ Import(p) \/ AddDevice(p)) \/ RemoveDevice
  BY <1>4, StartPatient
<1> QED
  BY <1>1, <1>2, <1>3, <1>4 DEF Calls

LEMMA NextPatient ==
    ASSUME Patient, OwnSlots, WholeIds, IInv, PatientInv, [Next]_vars
    PROVE  PatientInv'
<1>1. CASE Calls
  BY <1>1, CallsPatient
<1>2. ASSUME NEW w \in Workers, JobStep(w) PROVE PatientInv'
  BY <1>2, ReadPatient, EnrolPatient, SavePatient, RemovalPatient, DropPatient, ListPatient,
     ImportPatient DEF JobStep
<1>3. CASE Tick
  BY <1>3, StartPatient DEF Tick, Workers
<1>4. CASE Crash
  BY <1>4 DEF Crash, PatientInv, Distinct, SlotsFit, JobsFit, ImportCalm, SyncedIsEnrolled, Known
<1>5. CASE UNCHANGED vars
  BY <1>5 DEF vars, PatientInv, Distinct, SlotsFit, JobsFit, ImportCalm, SyncedIsEnrolled, Known
<1> QED
  BY <1>1, <1>2, <1>3, <1>4, <1>5 DEF Next

\* Where HR lets a push end before the next call for that employee and gives everybody an
\* id of his own, ids have slots of their own and fit into what the terminal keeps of
\* them, an active employee shown as synced is on the terminal as he is (pushNewEmployee,
\* pushUpdate, bulkSync, importFromDevice): with any number of employees, pushes and
\* batches beside each other, with answers lost and the server dying anywhere.
THEOREM SyncedAreEnrolled ==
    ASSUME Patient, OwnSlots, WholeIds
    PROVE  Spec => []SyncedIsEnrolled
<1>1. Init => IInv /\ PatientInv
  BY InitIInv, InitPatient
<1>2. IInv /\ PatientInv /\ [Next]_vars => IInv' /\ PatientInv'
  BY NextIInv, NextPatient
<1>3. PatientInv => SyncedIsEnrolled
  BY DEF PatientInv
<1> QED
  BY <1>1, <1>2, <1>3, PTL DEF Spec
=============================================================================
