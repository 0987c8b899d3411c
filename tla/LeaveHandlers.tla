----------------------------- MODULE LeaveHandlers -----------------------------
(***************************************************************************)
(* LeaveService as it runs: every handler is an async function whose       *)
(* database calls are separate statements, outside any transaction, so     *)
(* handlers overlap between their awaits and a crash of the server leaves  *)
(* the statements already made.  Each action is what one handler does from *)
(* one await to the next; what it read earlier is in its job.              *)
(*                                                                         *)
(* LeaveRequests runs the same handlers alone; with one handler and quiet  *)
(* surroundings this module implements it (ImplementsSerial).              *)
(***************************************************************************)
EXTENDS LeaveRequests

CONSTANTS
    Handlers,     \* the requests the server handles at the same time
    MayCrash,     \* whether the server process may die
    Interrupted,  \* whether other services write while a handler runs
    Calls         \* the handlers that clients call (input set)

ASSUME HandlersAssumption == MayCrash \in BOOLEAN /\ Interrupted \in BOOLEAN
ASSUME CallsAssumption ==
    Calls \subseteq {"CREATE", "APPROVE", "REJECT", "CANCEL",
                     "REQUEST", "APPROVE_CANCEL", "REJECT_CANCEL"}

VARIABLES
    job,     \* a running handler's locals; Null for a free one
    rested   \* history, in quiet surroundings: the database when no handler ran last

allVars == <<vars, job, rested>>

\* SIMPLE is approve() once it has found no tier to record a decision for.
Ops == {"CREATE", "APPROVE", "SIMPLE", "REJECT", "CANCEL",
        "REQUEST", "APPROVE_CANCEL", "REJECT_CANCEL"}

\* The await a handler is at: the statement it makes next.
Awaits == {"FUND", "ROUTE", "INSERT", "AUTHORISE", "NEXT", "RECORD",
           "WRITE", "BALANCE", "SETTLE", "DAYS", "ROWS"}

Job ==
    [op : Ops, at : Awaits, user : Users,
     id : RequestIds \cup {Null},                  \* Null until it is inserted
     row : Request,                                \* the request as it was read
     next : (1 .. MaxTier + 1) \cup {Null},        \* the tier it moves to
     there : SUBSET TierOrders,                    \* history: the chain it was filed into
     seen : Nat,                                   \* the balance as it was read
     day : Days]                                   \* the next day to mark

ASSUME NullJobAssumption == Null \notin RequestIds /\ Null \notin Job

Granting(op) == op \in {"CREATE", "APPROVE", "SIMPLE"}

Idle == \A h \in Handlers : job[h] = Null
AtRest == [req |-> req, approved |-> approved, used |-> used,
           attendance |-> attendance, standing |-> standing]

HTypeOK ==
    /\ TypeOK
    /\ job \in [Handlers -> Job \cup {Null}]

HInit ==
    /\ Init
    /\ job = [h \in Handlers |-> Null]
    /\ rested = AtRest

-----------------------------------------------------------------------------
(* What a step does to its own job. *)

Begin(h, op, at, u, id, row) ==
    /\ op \in Calls
    /\ job[h] = Null
    /\ job' = [job EXCEPT ![h] =
                 [op |-> op, at |-> at, user |-> u, id |-> id, row |-> row,
                  next |-> Null, there |-> {}, seen |-> 0, day |-> row.first]]

At(h, op, at) == job[h] # Null /\ job[h].op \in op /\ job[h].at = at
Goto(h, at) == job' = [job EXCEPT ![h].at = at]
Return(h) == job' = [job EXCEPT ![h] = Null]

\* The row as the handler read it, and the balance it concerns.
RowOf(h) == job[h].row
BalanceOf(h) == <<RowOf(h).employee, RowOf(h).type, YearOf[RowOf(h).first]>>
LiveTiers(h) == ActiveTiers(RowOf(h).employee, workflow)

ReadsOnly == UNCHANGED <<dbVars, standing>>
WritesRow == UNCHANGED <<approved, used, entitled, attendance, standing>>

-----------------------------------------------------------------------------
(* create(). *)

\* Who files and for which days: the queries up to the overlap guard.
StartCreate(h, u, e, t, first, last, session, override) ==
    /\ MayFile(u, e, override)
    /\ ValidSpan(first, last, session)
    /\ DaysFree(e, first, last)
    /\ Begin(h, "CREATE", IF override THEN "ROUTE" ELSE "FUND", u, Null,
             NewRequest(e, t, first, last, session, Null,
                        IF NeedsApproval[t] THEN "PENDING" ELSE "APPROVED",
                        IF NeedsApproval[t] THEN Null ELSE u))
    /\ ReadsOnly

Fund(h) ==
    /\ At(h, {"CREATE"}, "FUND")
    /\ IF Funded(RowOf(h).employee, RowOf(h).type, RowOf(h).first, RowOf(h).charge)
       THEN Goto(h, "ROUTE") ELSE Return(h)
    /\ ReadsOnly

\* getActiveWorkflow: the first tier, for a type that needs approval.
Route(h) ==
    /\ At(h, {"CREATE"}, "ROUTE")
    /\ LET orders == IF RowOf(h).status = "PENDING" THEN DOMAIN LiveTiers(h) ELSE {}
       IN  job' = [job EXCEPT ![h].at = "INSERT", ![h].there = orders,
                              ![h].row.tier = FirstIn(orders)]
    /\ ReadsOnly

Insert(h, r) ==
    /\ At(h, {"CREATE"}, "INSERT")
    /\ r \notin Filed
    /\ req' = [req EXCEPT ![r] = RowOf(h)]
    /\ standing' = [standing EXCEPT ![r] = job[h].there \cap DOMAIN LiveTiers(h)]
    /\ IF RowOf(h).status = "APPROVED"
       THEN job' = [job EXCEPT ![h].at = "BALANCE", ![h].id = r] ELSE Return(h)
    /\ UNCHANGED <<approved, used, entitled, attendance>>

-----------------------------------------------------------------------------
(* The first read of the handlers that decide. *)

\* Slip: a request is decided whatever became of it.
StartDecisionAny(h, u, r) ==
    /\ SignedIn(u) /\ r \in Filed
    /\ \E op \in {"APPROVE", "REJECT"} : Begin(h, op, "AUTHORISE", u, r, req[r])
    /\ ReadsOnly

StartDecision(h, u, r) ==
    /\ SignedIn(u) /\ r \in Filed
    /\ req[r].status = "PENDING"
    /\ \E op \in {"APPROVE", "REJECT"} : Begin(h, op, "AUTHORISE", u, r, req[r])
    /\ ReadsOnly

\* Slip: an APPROVED request is cancelled without its side effects.
StartCancelRowOnly(h, u, r) ==
    /\ Cancelling(u, r)
    /\ req[r].status # "CANCELLED"
    /\ Begin(h, "CANCEL", "WRITE", u, r, req[r])
    /\ ReadsOnly

StartCancel(h, u, r) ==
    /\ Cancelling(u, r)
    /\ req[r].status # "CANCELLED"
    /\ Begin(h, "CANCEL", IF req[r].status = "APPROVED" THEN "BALANCE" ELSE "WRITE",
             u, r, req[r])
    /\ ReadsOnly

StartRequest(h, u, r) ==
    /\ SignedIn(u) /\ r \in Filed
    /\ EmployeeOf[u] = req[r].employee
    /\ req[r].status = "APPROVED" /\ req[r].cStatus # "PENDING"
    /\ today < req[r].first
    /\ Begin(h, "REQUEST", "NEXT", u, r, req[r])
    /\ ReadsOnly

StartCancelDecision(h, u, r) ==
    /\ SignedIn(u) /\ r \in Filed
    /\ req[r].cStatus = "PENDING"
    /\ \E op \in {"APPROVE_CANCEL", "REJECT_CANCEL"} :
          Begin(h, op, "AUTHORISE", u, r, req[r])
    /\ ReadsOnly

-----------------------------------------------------------------------------
(* Authority, and the tier after: two reads of the workflow.                 *)

\* checkTierAuthorization.
Authorise(h) ==
    /\ At(h, {"APPROVE", "REJECT"}, "AUTHORISE")
    /\ IF ~MayDecide(job[h].user, RowOf(h).employee, RowOf(h).tier, LiveTiers(h), headLogin)
       THEN Return(h)
       ELSE IF job[h].op = "REJECT" THEN Goto(h, "WRITE")
       ELSE IF RowOf(h).tier \in DOMAIN LiveTiers(h) THEN Goto(h, "NEXT")
       ELSE job' = [job EXCEPT ![h].op = "SIMPLE", ![h].at = "WRITE"]
    /\ ReadsOnly

\* checkCancellationTierAuthorization; a tier that is gone makes it the last.
AuthoriseCancel(h) ==
    /\ At(h, {"APPROVE_CANCEL", "REJECT_CANCEL"}, "AUTHORISE")
    /\ IF ~MayDecideCancellation(job[h].user, RowOf(h).employee, RowOf(h).cTier,
                                 LiveTiers(h), headLogin)
       THEN Return(h)
       ELSE IF job[h].op = "REJECT_CANCEL" THEN Goto(h, "WRITE")
       ELSE IF RowOf(h).cTier \in CancellationOrders(LiveTiers(h)) THEN Goto(h, "NEXT")
       ELSE Goto(h, "BALANCE")
    /\ ReadsOnly

FindNext(h) ==
    /\ At(h, {"APPROVE", "REQUEST", "APPROVE_CANCEL"}, "NEXT")
    /\ LET orders == CancellationOrders(LiveTiers(h))
           next == CASE job[h].op = "APPROVE" -> NextIn(DOMAIN LiveTiers(h), RowOf(h).tier)
                     [] job[h].op = "REQUEST" -> FirstIn(orders)
                     [] job[h].op = "APPROVE_CANCEL" -> NextIn(orders, RowOf(h).cTier)
           at == CASE job[h].op = "APPROVE" -> "RECORD"
                   [] job[h].op = "REQUEST" -> "WRITE"
                   [] job[h].op = "APPROVE_CANCEL" -> IF next = Null THEN "BALANCE" ELSE "WRITE"
       IN  job' = [job EXCEPT ![h].next = next, ![h].at = at]
    /\ ReadsOnly

\* Slip: the decision names the tier the request moves to.
RecordNext(h) ==
    /\ At(h, {"APPROVE"}, "RECORD")
    /\ approved' = [approved EXCEPT
                      ![job[h].id] = @ \cup {IF job[h].next = Null THEN RowOf(h).tier
                                             ELSE job[h].next}]
    /\ Goto(h, "WRITE")
    /\ UNCHANGED <<req, used, entitled, attendance, standing>>

\* The APPROVED row in LeaveApprovalDecision.
Record(h) ==
    /\ At(h, {"APPROVE"}, "RECORD")
    /\ approved' = [approved EXCEPT ![job[h].id] = @ \cup {RowOf(h).tier}]
    /\ Goto(h, "WRITE")
    /\ UNCHANGED <<req, used, entitled, attendance, standing>>

-----------------------------------------------------------------------------
(* The update of the request: it names columns, and is not conditional on    *)
(* what the handler read.                                                    *)

MoveOn(h) ==
    /\ At(h, {"APPROVE", "APPROVE_CANCEL", "REQUEST"}, "WRITE")
    /\ job[h].next # Null
    /\ req' = CASE job[h].op = "APPROVE" ->
                     [req EXCEPT ![job[h].id].tier = job[h].next]
                [] job[h].op = "APPROVE_CANCEL" ->
                     [req EXCEPT ![job[h].id].cTier = job[h].next]
                [] job[h].op = "REQUEST" ->
                     [req EXCEPT ![job[h].id].cStatus = "PENDING",
                                 ![job[h].id].cTier = job[h].next]
    /\ Return(h)
    /\ WritesRow

\* Slip: approve() returns before the side effects.
GrantOnly(h) ==
    /\ At(h, {"APPROVE", "SIMPLE"}, "WRITE")
    /\ job[h].next = Null
    /\ req' = [req EXCEPT ![job[h].id].status = "APPROVED",
                          ![job[h].id].tier = IF job[h].op = "APPROVE" THEN Null ELSE @,
                          ![job[h].id].closedBy = job[h].user]
    /\ Return(h)
    /\ WritesRow

Grant(h) ==
    /\ At(h, {"APPROVE", "SIMPLE"}, "WRITE")
    /\ job[h].next = Null
    /\ req' = [req EXCEPT ![job[h].id].status = "APPROVED",
                          ![job[h].id].tier = IF job[h].op = "APPROVE" THEN Null ELSE @,
                          ![job[h].id].closedBy = job[h].user]
    /\ Goto(h, "BALANCE")
    /\ WritesRow

Refuse(h) ==
    /\ At(h, {"REJECT", "REJECT_CANCEL"}, "WRITE")
    /\ req' = IF job[h].op = "REJECT"
              THEN [req EXCEPT ![job[h].id].status = "REJECTED", ![job[h].id].tier = Null,
                               ![job[h].id].closedBy = job[h].user]
              ELSE [req EXCEPT ![job[h].id].cStatus = "REJECTED", ![job[h].id].cTier = Null]
    /\ Return(h)
    /\ WritesRow

\* The last statement of cancel() and of a cancellation chain.
Withdraw(h) ==
    /\ At(h, {"CANCEL", "APPROVE_CANCEL"}, "WRITE")
    /\ job[h].next = Null
    /\ req' = [req EXCEPT ![job[h].id] =
                 CancelledRow(@, IF job[h].op = "CANCEL" THEN "NONE" ELSE "APPROVED",
                              job[h].user)]
    /\ Return(h)
    /\ WritesRow

-----------------------------------------------------------------------------
(* applyApprovalSideEffects and reverseApprovalSideEffects.                  *)

ReadBalance(h) ==
    /\ At(h, Ops, "BALANCE")
    /\ job' = [job EXCEPT ![h].seen = used[BalanceOf(h)], ![h].at = "SETTLE"]
    /\ ReadsOnly

WriteBalance(h) ==
    /\ At(h, Ops, "SETTLE")
    /\ LET seen == job[h].seen
           charge == RowOf(h).charge
       IN  used' = [used EXCEPT ![BalanceOf(h)] =
                      IF Granting(job[h].op) THEN seen + charge
                      ELSE IF seen < charge THEN 0 ELSE seen - charge]
    /\ Goto(h, IF Granting(job[h].op) THEN "DAYS" ELSE "ROWS")
    /\ UNCHANGED <<req, approved, entitled, attendance, standing>>

\* Slip: the cursor runs one day too far.
MarkDayPast(h) ==
    /\ At(h, Ops, "DAYS")
    /\ attendance' = [attendance EXCEPT ![<<RowOf(h).employee, job[h].day>>] =
                        IF @ = "NONE" THEN "ON_LEAVE" ELSE @]
    /\ IF job[h].day <= RowOf(h).last
       THEN job' = [job EXCEPT ![h].day = @ + 1] ELSE Return(h)
    /\ UNCHANGED <<req, approved, used, entitled, standing>>

\* Slip: the upsert updates a row that is there.
MarkDayOverwriting(h) ==
    /\ At(h, Ops, "DAYS")
    /\ attendance' = [attendance EXCEPT ![<<RowOf(h).employee, job[h].day>>] = "ON_LEAVE"]
    /\ IF job[h].day < RowOf(h).last
       THEN job' = [job EXCEPT ![h].day = @ + 1] ELSE Return(h)
    /\ UNCHANGED <<req, approved, used, entitled, standing>>

\* One upsert for one covered day; a row that is there stays as it is.
MarkDay(h) ==
    /\ At(h, Ops, "DAYS")
    /\ attendance' = [attendance EXCEPT ![<<RowOf(h).employee, job[h].day>>] =
                        IF @ = "NONE" THEN "ON_LEAVE" ELSE @]
    /\ IF job[h].day < RowOf(h).last
       THEN job' = [job EXCEPT ![h].day = @ + 1] ELSE Return(h)
    /\ UNCHANGED <<req, approved, used, entitled, standing>>

\* Slip: the deletion stops at the first day.
DropRowsFirstDay(h) ==
    /\ At(h, Ops, "ROWS")
    /\ attendance' = [attendance EXCEPT ![<<RowOf(h).employee, RowOf(h).first>>] =
                        IF @ = "ON_LEAVE" THEN "NONE" ELSE @]
    /\ Goto(h, "WRITE")
    /\ UNCHANGED <<req, approved, used, entitled, standing>>

\* deleteMany over the covered days.
DropRows(h) ==
    /\ At(h, Ops, "ROWS")
    /\ attendance' = [k \in Employees \X Days |->
                        IF /\ k[1] = RowOf(h).employee
                           /\ k[2] \in RowOf(h).first .. RowOf(h).last
                           /\ attendance[k] = "ON_LEAVE"
                        THEN "NONE" ELSE attendance[k]]
    /\ Goto(h, "WRITE")
    /\ UNCHANGED <<req, approved, used, entitled, standing>>

-----------------------------------------------------------------------------
\* The process dies; what its handlers had not yet written is lost.
Crash ==
    /\ MayCrash /\ ~Idle
    /\ job' = [h \in Handlers |-> Null]
    /\ ReadsOnly

Start(h) ==
    \E u \in Users :
        \/ \E e \in Employees, t \in LeaveTypes, first, last \in Days,
              session \in {"FULL_DAY", "HALF_DAY"}, override \in BOOLEAN :
              /\ RequestIds # Filed
              /\ StartCreate(h, u, e, t, first, last, session, override)
        \/ \E r \in RequestIds :
              \/ StartDecision(h, u, r) \/ StartCancel(h, u, r)
              \/ StartRequest(h, u, r) \/ StartCancelDecision(h, u, r)

Step(h) ==
    \/ Fund(h) \/ Route(h) \/ (\E r \in RequestIds : Insert(h, r))
    \/ Authorise(h) \/ AuthoriseCancel(h) \/ FindNext(h) \/ Record(h)
    \/ MoveOn(h) \/ Grant(h) \/ Refuse(h) \/ Withdraw(h)
    \/ ReadBalance(h) \/ WriteBalance(h) \/ MarkDay(h) \/ DropRows(h)

KeepRested == rested' = IF ~Interrupted /\ Idle' THEN AtRest' ELSE rested

HNext ==
    \/ /\ (\E h \in Handlers : Start(h) \/ Step(h)) \/ Crash
       /\ UNCHANGED <<orgVars, today, edited>>
       /\ KeepRested
    \/ /\ Interrupted \/ Idle
       /\ Surroundings
       /\ UNCHANGED job
       /\ KeepRested

HSpec == HInit /\ [][HNext]_allVars

-----------------------------------------------------------------------------
(* Properties. *)

Serial == INSTANCE LeaveRequests WITH
    req <- rested.req, approved <- rested.approved, used <- rested.used,
    attendance <- rested.attendance, standing <- rested.standing

\* A handler that is not interrupted does, await by await, what LeaveRequests
\* does in one step: whatever it read first, refused half way or wrote last.
ImplementsSerial == Serial!Spec

\* approve() grants along the chain only when every tier that stood in it since
\* the request was filed has approved, even while other handlers decide the same
\* request and the workflow is saved between the two times it is read.
GrantedTierByTier ==
    \A h \in Handlers :
        At(h, {"APPROVE"}, "BALANCE") => standing[job[h].id] \subseteq approved[job[h].id]

\* Whatever a crash cuts short, no employee is charged for a leave that is not
\* APPROVED: approve() charges after the request says APPROVED, and cancelling
\* refunds before it says CANCELLED (leave.service.ts:1027 and :1147).
NeverOvercharged ==
    \A b \in DOMAIN used : used[b] <= SumFunctionOnSet(Charges, GrantedOn(b))
=============================================================================
