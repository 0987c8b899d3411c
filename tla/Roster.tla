--------------------------------- MODULE Roster ---------------------------------
(***************************************************************************)
(* The duty roster: RosterService, and the RosterProgram screen that asks  *)
(* it.  A screen offers what the week it fetched allows; the service reads *)
(* the duty, decides by what it read, writes, and tells the employee.      *)
(* Each action is what a screen or a request does between two awaits.      *)
(***************************************************************************)
EXTENDS Common

CONSTANTS
    Duties,    \* an employee's day
    Plans,     \* what may be planned for it: a shift, or OFF
    Planners,  \* the people with the screen open, one request each at a time
    Managers   \* those of them whose role is MANAGER; the others are HR or ADMIN

ASSUME PlannersAssumption == Managers \subseteq Planners /\ Null \notin Plans /\ "CLEARED" \notin Plans

VARIABLES
    duty,     \* RosterAssignment
    told,     \* the last SHIFT notification the employee got about the day
    screen,   \* the week as each screen fetched it last
    request,  \* the running request of each planner, Null for none
    strained  \* history: duties two requests were writing at once, or whose
              \* request died between its write and its notification

rosterVars == <<duty, told, screen, request, strained>>

Assignment == [plan : Plans, status : {"PENDING", "APPROVED"}]
Duty == Assignment \cup {Null}

Request ==
    [op : {"UPSERT", "APPROVE", "REMOVE"}, on : Duties, plan : Plans \cup {Null},
     note : BOOLEAN,                          \* whether it carries a note
     at : {"READ", "WRITE", "TELL", "ANSWER"},
     existing : Duty,                         \* the duty as the service read it
     shown : Duty,                            \* history: the duty the planner saw, until it is read
     says : Plans \cup {"CLEARED", Null}]     \* the notification it has to send

ASSUME RosterNullAssumption == Null \notin Assignment /\ Null \notin Request /\ Null # "CLEARED"

RosterTypeOK ==
    /\ duty \in [Duties -> Duty]
    /\ told \in [Duties -> Plans \cup {"CLEARED", Null}]
    /\ screen \in [Planners -> [Duties -> Duty]]
    /\ request \in [Planners -> Request \cup {Null}]
    /\ strained \subseteq Duties

RosterInit ==
    /\ duty = [d \in Duties |-> Null]
    /\ told = [d \in Duties |-> Null]
    /\ screen = [u \in Planners |-> duty]
    /\ request = [u \in Planners |-> Null]
    /\ strained = {}

IsHrOrAdmin(u) == u \notin Managers
IsApproved(row) == row # Null /\ row.status = "APPROVED"
IsPending(row) == row # Null /\ row.status = "PENDING"
RequestAt(u, at) == request[u] # Null /\ request[u].at = at

-----------------------------------------------------------------------------
(* RosterProgram. *)

\* Fetched on opening the screen, another week or department, and when stale.
FetchWeek(u) ==
    /\ screen' = [screen EXCEPT ![u] = duty]
    /\ UNCHANGED <<duty, told, request, strained>>

LockedForManager(u, row) == IsApproved(row) /\ ~IsHrOrAdmin(u)

\* Slip: the screen asks for a note for what is pending.
NeedsNoteWhenPending(u, row) == IsPending(row) /\ IsHrOrAdmin(u)

NeedsNote(u, row) == IsApproved(row) /\ IsHrOrAdmin(u)

\* Only the plan buttons carry a plan.
Asks(op, plan) == (op = "UPSERT") = (plan # Null)

\* handlePick, handleClear, handleApprove: what the open cell offers.  The
\* buttons stay disabled until a note that is needed has been typed, and are
\* sent with it.
Send(u, op, d, plan) ==
    LET shown == screen[u][d]
    IN  /\ request[u] = Null
        /\ ~LockedForManager(u, shown)
        /\ op = "APPROVE" => IsPending(shown) /\ IsHrOrAdmin(u)
        /\ op = "REMOVE" => shown # Null
        /\ Asks(op, plan)
        /\ request' = [request EXCEPT ![u] =
              [op |-> op, on |-> d, plan |-> plan, at |-> "READ", existing |-> Null,
               note |-> NeedsNote(u, shown), shown |-> shown, says |-> Null]]
        /\ UNCHANGED <<duty, told, screen, strained>>

-----------------------------------------------------------------------------
(* RosterService. *)

\* Slip: a note is all it takes.
AllowsWithNote(u, r, existing) ==
    CASE r.op = "APPROVE" -> IsPending(existing)
      [] r.op # "APPROVE" -> IsApproved(existing) => r.note \/ ~IsHrOrAdmin(u)

Allows(u, r, existing) ==
    CASE r.op = "APPROVE" -> IsPending(existing)
      [] r.op # "APPROVE" -> IsApproved(existing) => IsHrOrAdmin(u) /\ r.note

\* Another request for that duty has read it and not told of its write yet.
Underway(u, d) ==
    \E v \in Planners \ {u} :
        request[v] # Null /\ request[v].on = d /\ request[v].at \in {"WRITE", "TELL"}

ReadDuty(u) ==
    LET r == request[u]
    IN  /\ RequestAt(u, "READ")
        /\ Allows(u, r, duty[r.on])
        /\ r.op = "REMOVE" => duty[r.on] # Null
        /\ request' = [request EXCEPT ![u].at = "WRITE", ![u].existing = duty[r.on],
                                      ![u].shown = Null]
        /\ strained' = IF Underway(u, r.on) THEN strained \cup {r.on} ELSE strained
        /\ UNCHANGED <<duty, told, screen>>

\* There is nothing to remove.
NothingThere(u) ==
    /\ RequestAt(u, "READ")
    /\ request[u].op = "REMOVE" /\ duty[request[u].on] = Null
    /\ request' = [request EXCEPT ![u].at = "ANSWER", ![u].shown = Null]
    /\ UNCHANGED <<duty, told, screen, strained>>

\* An error answers the request, and the screen stays as it is.
Refuse(u) ==
    /\ RequestAt(u, "READ")
    /\ ~Allows(u, request[u], duty[request[u].on])
    /\ request' = [request EXCEPT ![u] = Null]
    /\ UNCHANGED <<duty, told, screen, strained>>

\* Slip: the employee is only told of a change to what was approved before.
SaysOfChange(r, row) == IF IsApproved(row) /\ IsApproved(r.existing) THEN row.plan ELSE Null

\* What the employee is told of the row that was written.
Says(r, row) == IF IsApproved(row) THEN row.plan ELSE Null

Written(u, row, says) ==
    /\ duty' = [duty EXCEPT ![request[u].on] = row]
    /\ request' = [request EXCEPT ![u].at = IF says = Null THEN "ANSWER" ELSE "TELL",
                                  ![u].says = says, ![u].plan = Null, ![u].existing = Null]
    /\ UNCHANGED <<told, screen, strained>>

\* upsert(): whether there is a row is decided anew, its status is not.
WritePlan(u) ==
    LET r == request[u]
        new == [plan |-> r.plan, status |-> IF IsHrOrAdmin(u) THEN "APPROVED" ELSE "PENDING"]
        row == IF duty[r.on] = Null THEN new ELSE [duty[r.on] EXCEPT !.plan = r.plan]
    IN  RequestAt(u, "WRITE") /\ r.op = "UPSERT" /\ Written(u, row, Says(r, row))

\* approve() confirms whatever the row says by now; there must be one.
WriteApproval(u) ==
    LET r == request[u]
        row == [duty[r.on] EXCEPT !.status = "APPROVED"]
    IN  /\ RequestAt(u, "WRITE") /\ r.op = "APPROVE" /\ duty[r.on] # Null
        /\ Written(u, row, Says(r, row))

ApprovalFails(u) ==
    /\ RequestAt(u, "WRITE") /\ request[u].op = "APPROVE" /\ duty[request[u].on] = Null
    /\ request' = [request EXCEPT ![u] = Null]
    /\ UNCHANGED <<duty, told, screen, strained>>

\* remove(): the employee is told when he could see it.
WriteRemoval(u) ==
    LET r == request[u]
    IN  /\ RequestAt(u, "WRITE") /\ r.op = "REMOVE"
        /\ Written(u, Null, IF IsApproved(r.existing) THEN "CLEARED" ELSE Null)

\* NotificationsService.createForEmployee.
Tell(u) ==
    /\ RequestAt(u, "TELL")
    /\ told' = [told EXCEPT ![request[u].on] = request[u].says]
    /\ request' = [request EXCEPT ![u].at = "ANSWER", ![u].says = Null]
    /\ UNCHANGED <<duty, screen, strained>>

\* onSuccess invalidates the week, which is fetched again.
AnswerAndRefetch(u) ==
    /\ RequestAt(u, "ANSWER")
    /\ request' = [request EXCEPT ![u] = Null]
    /\ screen' = [screen EXCEPT ![u] = duty]
    /\ UNCHANGED <<duty, told, strained>>

ServerDiesPlanning ==
    /\ request' = [u \in Planners |-> Null]
    /\ strained' = strained \cup {request[u].on : u \in {v \in Planners : RequestAt(v, "TELL")}}
    /\ UNCHANGED <<duty, told, screen>>

RosterNext ==
    \/ \E u \in Planners :
          \/ FetchWeek(u)
          \/ \E op \in {"UPSERT", "APPROVE", "REMOVE"}, d \in Duties, plan \in Plans \cup {Null} :
                Send(u, op, d, plan)
          \/ ReadDuty(u) \/ NothingThere(u) \/ Refuse(u)
          \/ WritePlan(u) \/ WriteApproval(u) \/ ApprovalFails(u) \/ WriteRemoval(u)
          \/ Tell(u) \/ AnswerAndRefetch(u)
    \/ ServerDiesPlanning

RosterSpec == RosterInit /\ [][RosterNext]_rosterVars

-----------------------------------------------------------------------------
(* Properties. *)

\* upsert, approve, remove and getMine: unless two requests worked on a day at
\* once or one died half-way, the last thing an employee was told of the day is
\* what his calendar shows, from whichever screens it was planned, approved,
\* changed and cleared.
ToldWhatStands ==
    \A d \in Duties \ strained :
        (\A u \in Planners : ~(RequestAt(u, "TELL") /\ request[u].on = d)) =>
            IF IsApproved(duty[d]) THEN told[d] = duty[d].plan
            ELSE told[d] \in {Null, "CLEARED"}

\* upsert and remove, lines 139-147 and 257-262: however old the screen it was
\* asked from, an approved duty is changed or cleared only by HR or ADMIN, with
\* a note.
ApprovedIsLocked ==
    [][\A d \in Duties \ strained' :
          IsApproved(duty[d]) /\ duty'[d] # duty[d] =>
             \E u \in Planners \ Managers :
                /\ RequestAt(u, "WRITE") /\ request'[u] # request[u]
                /\ request[u].on = d /\ request[u].note]_rosterVars

\* RosterProgram and RosterService go by the same rules: a request the screen
\* offered is refused only when the duty is not any more what the planner saw.
RefusedOnlyStale ==
    [][\A u \in Planners : Refuse(u) => request[u].shown # duty[request[u].on]]_rosterVars
=============================================================================
