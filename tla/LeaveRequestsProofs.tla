-------------------------- MODULE LeaveRequestsProofs --------------------------
(* Safety of LeaveRequests, and of what its screens offer, for every value of *)
(* their constants.                                                          *)
EXTENDS LeaveScreens, LeaveRulesProofs, SumProofs

USE DEF Filed, CancelStatuses, Statuses, SignedIn, TiersOf, Balance

(***************************************************************************)
(* Type correctness.                                                       *)
(***************************************************************************)
\* The chain of a request's department, or the empty one, is a chain.
LEMMA ActiveTiersType ==
    ASSUME TypeOK, NEW e \in Employees
    PROVE  ActiveTiers(e, workflow) \in Chain /\ DOMAIN ActiveTiers(e, workflow) \in SUBSET TierOrders
<1>1. NoTiers \in Chain
  <2>1. NoTiers \in [{} -> Users \cup {REPORTING_SUPERIOR, Null}]
    BY DEF NoTiers
  <2> QED BY <2>1 DEF Chain
<1>2. ActiveTiers(e, workflow) \in Chain
  BY <1>1, DirectoryAssumption DEF TypeOK, ActiveTiers
<1> QED BY <1>2 DEF Chain

\* The row create() inserts is a row of LeaveRequest.
LEMMA NewRequestType ==
    ASSUME NEW e \in Employees, NEW t \in LeaveTypes, NEW first \in Days, NEW last \in Days,
           NEW session, NEW tier \in TierOrders \cup {Null},
           NEW status \in Statuses, NEW by \in Users \cup {Null}
    PROVE  NewRequest(e, t, first, last, session, tier, status, by) \in Request
BY ChargeType DEF NewRequest, Request

\* applyApprovalSideEffects leaves balances and attendance rows well formed.
LEMMA ApplyApprovalType ==
    ASSUME TypeOK, NEW e \in Employees, NEW t \in LeaveTypes, NEW first \in Days, NEW last,
           NEW charge \in Nat, ApplyApproval(e, t, first, last, charge)
    PROVE  /\ used' \in [Employees \X LeaveTypes \X Years -> Nat]
           /\ attendance' \in [Employees \X Days -> Rows]
<1>1. <<e, t, YearOf[first]>> \in Employees \X LeaveTypes \X Years
  BY TypesAssumption
<1>2. used' \in [Employees \X LeaveTypes \X Years -> Nat]
  BY <1>1 DEF TypeOK, ApplyApproval
<1>3. attendance' \in [Employees \X Days -> Rows]
  BY DEF TypeOK, ApplyApproval, Rows
<1> QED BY <1>2, <1>3

\* reverseApprovalSideEffects leaves balances natural: the refund stops at zero.
LEMMA ReverseApprovalType ==
    ASSUME TypeOK, NEW r \in Filed, ReverseApproval(r)
    PROVE  /\ used' \in [Employees \X LeaveTypes \X Years -> Nat]
           /\ attendance' \in [Employees \X Days -> Rows]
<1>1. req[r] \in Request
  BY DEF TypeOK
<1>2. req[r].charge \in Nat /\ Balance(r) \in Employees \X LeaveTypes \X Years
  BY <1>1, TypesAssumption DEF Request
<1>3. used' \in [Employees \X LeaveTypes \X Years -> Nat]
  <2> DEFINE refunded == IF used[Balance(r)] < req[r].charge
                         THEN 0 ELSE used[Balance(r)] - req[r].charge
  <2>1. refunded \in Nat
    BY <1>2 DEF TypeOK
  <2>2. used' = [used EXCEPT ![Balance(r)] = refunded]
    BY DEF ReverseApproval
  <2> HIDE DEF refunded
  <2> QED BY <2>1, <2>2 DEF TypeOK
<1>4. attendance' \in [Employees \X Days -> Rows]
  BY DEF TypeOK, ReverseApproval, Rows
<1> QED BY <1>3, <1>4

\* The empty database is well formed.
LEMMA InitType == Init => TypeOK
<1> SUFFICES ASSUME Init PROVE TypeOK
  OBVIOUS
<1>1. NoTiers \in Chain
  <2>1. NoTiers \in [{} -> Users \cup {REPORTING_SUPERIOR, Null}]
    BY DEF NoTiers
  <2> QED BY <2>1 DEF Chain
<1> QED BY <1>1, InputAssumption DEF Init, TypeOK, Rows

\* create() keeps the database well formed.
LEMMA CreateType ==
    ASSUME TypeOK, NEW u \in Users, NEW r \in RequestIds, Create(u, r)
    PROVE  TypeOK'
<1> USE DEF orgVars
<1> PICK e \in Employees, t \in LeaveTypes, first \in Days, last \in Days,
         session \in {"FULL_DAY", "HALF_DAY"}, override \in BOOLEAN :
             \/ CreatePending(u, r, e, t, first, last, session, override)
             \/ CreateApproved(u, r, e, t, first, last, session, override)
  BY DEF Create
<1>1. CASE CreatePending(u, r, e, t, first, last, session, override)
  <2> DEFINE orders == DOMAIN ActiveTiers(e, workflow)
  <2>1. orders \in SUBSET TierOrders /\ orders \in SUBSET Nat
    BY ActiveTiersType, BoundsAssumption DEF TierOrders
  <2>2. FirstIn(orders) \in TierOrders \cup {Null}
    BY <2>1, FirstTier
  <2>3. NewRequest(e, t, first, last, session, FirstIn(orders), "PENDING", Null) \in Request
    BY <2>2, NewRequestType
  <2>4. req' \in [RequestIds -> Request \cup {Null}]
    BY <1>1, <2>3 DEF TypeOK, CreatePending
  <2>5. standing' \in [RequestIds -> SUBSET TierOrders]
    BY <1>1, <2>1 DEF TypeOK, CreatePending
  <2> QED BY <1>1, <2>4, <2>5 DEF TypeOK, CreatePending
<1>2. CASE CreateApproved(u, r, e, t, first, last, session, override)
  <2>1. NewRequest(e, t, first, last, session, Null, "APPROVED", u) \in Request
    BY NewRequestType
  <2>2. req' \in [RequestIds -> Request \cup {Null}]
    BY <1>2, <2>1 DEF TypeOK, CreateApproved
  <2>3. /\ used' \in [Employees \X LeaveTypes \X Years -> Nat]
        /\ attendance' \in [Employees \X Days -> Rows]
    BY <1>2, ChargeType, ApplyApprovalType DEF CreateApproved
  <2> QED BY <1>2, <2>2, <2>3 DEF TypeOK, CreateApproved
<1> QED BY <1>1, <1>2

\* approve, reject, cancel and the cancellation chain keep it well formed.
LEMMA DecideType ==
    ASSUME TypeOK, NEW u \in Users, NEW r \in RequestIds, Decide(u, r)
    PROVE  TypeOK'
<1> USE DEF orgVars
<1>1. r \in Filed
  BY DEF Decide, ApproveTier, ApproveFinal, ApproveSimple, Reject, Deciding, CancelGranted,
         CancelOther, Cancelling, RequestingCancellation, RequestCancellation,
         ApproveCancellationTier,
         ApproveCancellationFinal, RejectCancellation, DecidingCancellation
<1>2. /\ req[r] \in Request
      /\ req[r].employee \in Employees /\ req[r].type \in LeaveTypes
      /\ req[r].first \in Days /\ req[r].last \in Days /\ req[r].charge \in Nat
      /\ req[r].tier \in TierOrders \cup {Null}
      /\ req[r].cTier \in (1 .. MaxTier + 1) \cup {Null}
  <2>1. req[r] \in Request
    BY <1>1 DEF TypeOK
  <2> QED BY <2>1 DEF Request
<1> DEFINE tiers == TiersOf(r)
           orders == DOMAIN tiers
<1>3. tiers \in Chain /\ orders \in SUBSET TierOrders /\ orders \in SUBSET Nat
  BY <1>2, ActiveTiersType, BoundsAssumption DEF TierOrders
<1>4. CASE ApproveTier(u, r)
  <2>1. NextIn(orders, req[r].tier) \in TierOrders
    BY <1>3, <1>4, NextTier DEF ApproveTier
  <2>2. req' \in [RequestIds -> Request \cup {Null}]
    BY <1>2, <1>4, <2>1 DEF TypeOK, ApproveTier, Request
  <2>3. approved' \in [RequestIds -> SUBSET TierOrders]
    BY <1>3, <1>4 DEF TypeOK, ApproveTier
  <2> QED BY <1>4, <2>2, <2>3 DEF TypeOK, ApproveTier
<1>5. CASE ApproveFinal(u, r)
  <2> DEFINE row == [req[r] EXCEPT !.status = "APPROVED", !.tier = Null, !.closedBy = u]
  <2>0. row \in Request /\ req' = [req EXCEPT ![r] = row]
    BY <1>1, <1>2, <1>5 DEF TypeOK, ApproveFinal, Request
  <2> HIDE DEF row
  <2>1. req' \in [RequestIds -> Request \cup {Null}]
    BY <2>0 DEF TypeOK
  <2>2. approved' \in [RequestIds -> SUBSET TierOrders]
    BY <1>3, <1>5 DEF TypeOK, ApproveFinal
  <2>3. /\ used' \in [Employees \X LeaveTypes \X Years -> Nat]
        /\ attendance' \in [Employees \X Days -> Rows]
    BY <1>2, <1>5, ApplyApprovalType DEF ApproveFinal
  <2> QED BY <1>5, <2>1, <2>2, <2>3 DEF TypeOK, ApproveFinal
<1>6. CASE ApproveSimple(u, r)
  <2>1. req' \in [RequestIds -> Request \cup {Null}]
    BY <1>2, <1>6 DEF TypeOK, ApproveSimple, Request
  <2>2. /\ used' \in [Employees \X LeaveTypes \X Years -> Nat]
        /\ attendance' \in [Employees \X Days -> Rows]
    BY <1>2, <1>6, ApplyApprovalType DEF ApproveSimple
  <2> QED BY <1>6, <2>1, <2>2 DEF TypeOK, ApproveSimple
<1>7. CASE Reject(u, r)
  <2>1. req' \in [RequestIds -> Request \cup {Null}]
    BY <1>2, <1>7 DEF TypeOK, Reject, Request
  <2> QED BY <1>7, <2>1 DEF TypeOK, Reject
<1>8. \A c \in CancelStatuses : CancelledRow(req[r], c, u) \in Request
  BY <1>2 DEF CancelledRow, Request
<1>9. CASE CancelGranted(u, r)
  <2>1. req' \in [RequestIds -> Request \cup {Null}]
    BY <1>8, <1>9 DEF TypeOK, CancelGranted
  <2>2. /\ used' \in [Employees \X LeaveTypes \X Years -> Nat]
        /\ attendance' \in [Employees \X Days -> Rows]
    BY <1>1, <1>9, ReverseApprovalType DEF CancelGranted
  <2> QED BY <1>9, <2>1, <2>2 DEF TypeOK, CancelGranted
<1>10. CASE CancelOther(u, r)
  <2>1. req' \in [RequestIds -> Request \cup {Null}]
    BY <1>8, <1>10 DEF TypeOK, CancelOther
  <2> QED BY <1>10, <2>1 DEF TypeOK, CancelOther
<1>11. CASE RequestCancellation(u, r)
  <2>1. FirstIn(CancellationOrders(tiers)) \in 1 .. MaxTier + 1
    BY <1>3, CancellationSteps
  <2>2. req' \in [RequestIds -> Request \cup {Null}]
    BY <1>2, <1>11, <2>1 DEF TypeOK, RequestingCancellation, RequestCancellation, Request
  <2> QED BY <1>11, <2>2 DEF TypeOK, RequestingCancellation, RequestCancellation
<1>12. CASE ApproveCancellationTier(u, r)
  <2>1. req[r].cTier \in 1 .. MaxTier + 1
    BY <1>2, <1>12 DEF ApproveCancellationTier, DecidingCancellation, MayDecideCancellation
  <2>2. NextCancellationTier(r) \in 1 .. MaxTier + 1
    BY <1>3, <1>12, <2>1, CancellationSteps DEF ApproveCancellationTier, NextCancellationTier
  <2>3. req' \in [RequestIds -> Request \cup {Null}]
    BY <1>2, <1>12, <2>2 DEF TypeOK, ApproveCancellationTier, Request
  <2> QED BY <1>12, <2>3 DEF TypeOK, ApproveCancellationTier
<1>13. CASE ApproveCancellationFinal(u, r)
  <2>1. req' \in [RequestIds -> Request \cup {Null}]
    BY <1>8, <1>13 DEF TypeOK, ApproveCancellationFinal
  <2>2. /\ used' \in [Employees \X LeaveTypes \X Years -> Nat]
        /\ attendance' \in [Employees \X Days -> Rows]
    BY <1>1, <1>13, ReverseApprovalType DEF ApproveCancellationFinal
  <2> QED BY <1>13, <2>1, <2>2 DEF TypeOK, ApproveCancellationFinal
<1>14. CASE RejectCancellation(u, r)
  <2>1. req' \in [RequestIds -> Request \cup {Null}]
    BY <1>2, <1>14 DEF TypeOK, RejectCancellation, Request
  <2> QED BY <1>14, <2>1 DEF TypeOK, RejectCancellation
<1> QED BY <1>4, <1>5, <1>6, <1>7, <1>9, <1>10, <1>11, <1>12, <1>13, <1>14 DEF Decide

\* The other services keep it well formed.
LEMMA SurroundingsType ==
    ASSUME TypeOK, Surroundings
    PROVE  TypeOK'
<1> USE DEF orgVars, dbVars
<1>1. ASSUME NEW u \in Users, NEW d \in Departments,
             NEW tiers \in SavableChains \cup {NoTiers}, SetWorkflow(u, d, tiers)
      PROVE  TypeOK'
  <2>1. NoTiers \in [{} -> Users \cup {REPORTING_SUPERIOR, Null}]
    BY DEF NoTiers
  <2>2. tiers \in Chain
    BY <2>1, InputAssumption DEF Chain
  <2>3. workflow' \in [Departments -> Chain]
    BY <1>1, <2>2 DEF TypeOK, SetWorkflow
  <2>4. standing' \in [RequestIds -> SUBSET TierOrders]
    BY <1>1 DEF TypeOK, SetWorkflow
  <2> QED BY <1>1, <2>3, <2>4 DEF TypeOK, SetWorkflow
<1>2. ASSUME NEW d \in Departments, NEW u \in HeadChoices, SetHead(d, u)
      PROVE  TypeOK'
  BY <1>2, InputAssumption DEF TypeOK, SetHead
<1>3. ASSUME NEW u \in Users, SwitchLogin(u)
      PROVE  TypeOK'
  BY <1>3 DEF TypeOK, SwitchLogin
<1>4. ASSUME NEW u \in Users, DeleteLogin(u)
      PROVE  TypeOK'
  <2>1. workflow' \in [Departments -> Chain]
    <3>1. ASSUME NEW d \in Departments PROVE workflow'[d] \in Chain
      <4>1. workflow[d] \in Chain
        BY DEF TypeOK
      <4>2. PICK S \in SUBSET TierOrders :
               workflow[d] \in [S -> Users \cup {REPORTING_SUPERIOR, Null}]
        BY <4>1 DEF Chain
      <4>3. workflow'[d] \in [S -> Users \cup {REPORTING_SUPERIOR, Null}]
        BY <1>4, <4>2 DEF DeleteLogin
      <4> QED BY <4>3 DEF Chain
    <3> QED BY <1>4, <3>1 DEF DeleteLogin
  <2>2. headLogin' \in [Departments -> Users \cup {Null}]
    BY <1>4 DEF TypeOK, DeleteLogin
  <2> QED BY <1>4, <2>1, <2>2 DEF TypeOK, DeleteLogin
<1>5. ASSUME NEW u \in Users, NEW b \in Employees \X LeaveTypes \X Years,
             NEW n \in Entitlements, AdjustBalance(u, b, n)
      PROVE  TypeOK'
  BY <1>5, InputAssumption DEF TypeOK, AdjustBalance
<1>6. ASSUME NEW e \in Employees, NEW d \in PunchDays, NEW row \in Rows, ProcessDay(e, d, row)
      PROVE  TypeOK'
  BY <1>6 DEF TypeOK, ProcessDay
<1>7. ASSUME NEW e \in Employees, NEW d \in CorrectDays, NEW row \in Rows,
             CorrectAttendance(e, d, row)
      PROVE  TypeOK'
  BY <1>7, InputAssumption DEF TypeOK, CorrectAttendance
<1>8. CASE NextDay
  BY <1>8 DEF TypeOK, NextDay
<1> QED BY <1>1, <1>2, <1>3, <1>4, <1>5, <1>6, <1>7, <1>8, InputAssumption DEF Surroundings

\* Every step keeps it well formed.
LEMMA TypeStep == TypeOK /\ [Next]_vars => TypeOK'
<1> SUFFICES ASSUME TypeOK, [Next]_vars PROVE TypeOK'
  OBVIOUS
<1>1. CASE Next
  BY <1>1, CreateType, DecideType, SurroundingsType DEF Next
<1>2. CASE UNCHANGED vars
  BY <1>2 DEF vars, TypeOK
<1> QED BY <1>1, <1>2

\* Every reachable state has the declared type.
THEOREM TypeCorrect == Spec => []TypeOK
BY InitType, TypeStep, PTL DEF Spec

(***************************************************************************)
(* The inductive invariant.  NoTierSkipped speaks of approved requests; it *)
(* rests on what holds of a pending one: the tiers that have stood in the  *)
(* chain since it was filed are still there, and those before the tier it  *)
(* stands at have approved it.                                             *)
(***************************************************************************)
TiersPassed ==
    \A r \in RequestIds :
        /\ r \notin Filed => standing[r] = {}
        /\ r \in Filed /\ req[r].status = "PENDING" =>
              /\ standing[r] \subseteq DOMAIN TiersOf(r)
              /\ req[r].tier = Null => standing[r] = {}
              /\ req[r].tier # Null => \A o \in standing[r] : o < req[r].tier => o \in approved[r]

IInv ==
    /\ TypeOK
    /\ NoOverlap
    /\ GrantedDaysMarked
    /\ NoOrphanPlaceholder
    /\ CancellationInStep
    /\ HrAdminClosesChain
    /\ TiersPassed
    /\ NoTierSkipped

(***************************************************************************)
(* What a decision does to the request it decides, and to no other.        *)
(***************************************************************************)
SameLeave(r) ==
    /\ req'[r].employee = req[r].employee
    /\ req'[r].type = req[r].type
    /\ req'[r].first = req[r].first
    /\ req'[r].last = req[r].last
    /\ req'[r].charge = req[r].charge

Grants(r) ==
    /\ req[r].status = "PENDING"
    /\ req'[r].status = "APPROVED"
    /\ ApplyApproval(req[r].employee, req[r].type, req[r].first, req[r].last, req[r].charge)

Revokes(r) ==
    /\ req[r].status = "APPROVED"
    /\ req'[r].status = "CANCELLED"
    /\ ReverseApproval(r)

Keeps(r) ==
    /\ \/ req'[r].status = req[r].status
       \/ req[r].status = "PENDING" /\ req'[r].status \in {"REJECTED", "CANCELLED"}
       \/ req[r].status = "REJECTED" /\ req'[r].status = "CANCELLED"
    /\ UNCHANGED <<attendance, used>>

\* Rewriting one field of a filed request leaves it filed and leaves the others alone.
LEMMA RowWritten ==
    ASSUME TypeOK, NEW r \in Filed, NEW row \in Request, req' = [req EXCEPT ![r] = row]
    PROVE  /\ req'[r] = row
           /\ \A s \in RequestIds : s # r => req'[s] = req[s]
           /\ Filed' = Filed
<1>1. req'[r] = row
  BY DEF TypeOK
<1>2. \A s \in RequestIds : s # r => req'[s] = req[s]
  BY DEF TypeOK
<1>3. row # Null
  BY NullRowAssumption
<1> QED BY <1>1, <1>2, <1>3

\* A decision grants one open leave, takes one granted leave back, or does
\* neither and leaves attendance alone.
LEMMA DecideShape ==
    ASSUME TypeOK, CancellationInStep, NEW u \in Users, NEW r \in RequestIds, Decide(u, r)
    PROVE  /\ r \in Filed /\ req[r] \in Request /\ req'[r] \in Request
           /\ \A s \in RequestIds : s # r => req'[s] = req[s]
           /\ Filed' = Filed
           /\ SameLeave(r)
           /\ Grants(r) \/ Revokes(r) \/ Keeps(r)
           /\ UNCHANGED <<workflow, standing, edited>>
<1> USE DEF orgVars
<1>1. r \in Filed
  BY DEF Decide, ApproveTier, ApproveFinal, ApproveSimple, Reject, Deciding, CancelGranted,
         CancelOther, Cancelling, RequestingCancellation, RequestCancellation,
         ApproveCancellationTier,
         ApproveCancellationFinal, RejectCancellation, DecidingCancellation
<1>2. req[r] \in Request
  BY <1>1 DEF TypeOK
<1>3. TiersOf(r) \in Chain /\ DOMAIN TiersOf(r) \in SUBSET TierOrders /\ DOMAIN TiersOf(r) \in SUBSET Nat
  BY <1>2, ActiveTiersType, BoundsAssumption DEF TierOrders, Request
<1>4. ASSUME NEW row \in Request, req' = [req EXCEPT ![r] = row]
      PROVE  /\ req'[r] = row
             /\ \A s \in RequestIds : s # r => req'[s] = req[s]
             /\ Filed' = Filed
  BY <1>1, <1>4, RowWritten
<1>5. CASE ApproveTier(u, r)
  <2> DEFINE row == [req[r] EXCEPT !.tier = NextIn(DOMAIN TiersOf(r), req[r].tier)]
  <2>1. NextIn(DOMAIN TiersOf(r), req[r].tier) \in TierOrders
    BY <1>3, <1>5, NextTier DEF ApproveTier
  <2>2. row \in Request
    BY <1>2, <2>1 DEF Request
  <2>3. req' = [req EXCEPT ![r] = row]
    BY <1>5, <1>1 DEF ApproveTier, TypeOK
  <2>4. SameLeave(r)
    BY <1>2, <1>4, <2>2, <2>3 DEF SameLeave, Request
  <2>5. Keeps(r)
    BY <1>1, <1>2, <1>5, <1>4, <2>2, <2>3 DEF Keeps, ApproveTier, Request, Deciding
  <2> QED BY <1>1, <1>2, <1>5, <1>4, <2>2, <2>3, <2>4, <2>5 DEF ApproveTier
<1>6. CASE ApproveFinal(u, r)
  <2> DEFINE row == [req[r] EXCEPT !.status = "APPROVED", !.tier = Null, !.closedBy = u]
  <2>1. row \in Request
    BY <1>2 DEF Request
  <2>2. req' = [req EXCEPT ![r] = row]
    BY <1>6, <1>1 DEF ApproveFinal, TypeOK
  <2>3. SameLeave(r)
    BY <1>2, <1>4, <2>1, <2>2 DEF SameLeave, Request
  <2>4. Grants(r)
    BY <1>1, <1>2, <1>6, <1>4, <2>1, <2>2 DEF Grants, ApproveFinal, Request, Deciding
  <2> QED BY <1>1, <1>2, <1>6, <1>4, <2>1, <2>2, <2>3, <2>4 DEF ApproveFinal
<1>7. CASE ApproveSimple(u, r)
  <2> DEFINE row == [req[r] EXCEPT !.status = "APPROVED", !.closedBy = u]
  <2>1. row \in Request
    BY <1>2 DEF Request
  <2>2. req' = [req EXCEPT ![r] = row]
    BY <1>7, <1>1 DEF ApproveSimple, TypeOK
  <2>3. SameLeave(r)
    BY <1>2, <1>4, <2>1, <2>2 DEF SameLeave, Request
  <2>4. Grants(r)
    BY <1>1, <1>2, <1>7, <1>4, <2>1, <2>2 DEF Grants, ApproveSimple, Request, Deciding
  <2> QED BY <1>1, <1>2, <1>7, <1>4, <2>1, <2>2, <2>3, <2>4 DEF ApproveSimple
<1>8. CASE Reject(u, r)
  <2> DEFINE row == [req[r] EXCEPT !.status = "REJECTED", !.tier = Null, !.closedBy = u]
  <2>1. row \in Request
    BY <1>2 DEF Request
  <2>2. req' = [req EXCEPT ![r] = row]
    BY <1>8, <1>1 DEF Reject, TypeOK
  <2>3. SameLeave(r)
    BY <1>2, <1>4, <2>1, <2>2 DEF SameLeave, Request
  <2>4. Keeps(r)
    BY <1>1, <1>2, <1>8, <1>4, <2>1, <2>2 DEF Keeps, Reject, Request, Deciding
  <2> QED BY <1>1, <1>2, <1>8, <1>4, <2>1, <2>2, <2>3, <2>4 DEF Reject
<1>9. CASE CancelGranted(u, r)
  <2> DEFINE row == CancelledRow(req[r], "NONE", u)
  <2>1. row \in Request
    BY <1>2 DEF Request, CancelledRow
  <2>2. req' = [req EXCEPT ![r] = row]
    BY <1>9, <1>1 DEF CancelGranted, TypeOK
  <2>3. SameLeave(r)
    BY <1>2, <1>4, <2>1, <2>2 DEF SameLeave, Request, CancelledRow
  <2>4. Revokes(r)
    BY <1>1, <1>2, <1>9, <1>4, <2>1, <2>2 DEF Revokes, CancelGranted, Request, CancelledRow
  <2> QED BY <1>1, <1>2, <1>9, <1>4, <2>1, <2>2, <2>3, <2>4 DEF CancelGranted
<1>10. CASE CancelOther(u, r)
  <2> DEFINE row == CancelledRow(req[r], "NONE", u)
  <2>1. row \in Request
    BY <1>2 DEF Request, CancelledRow
  <2>2. req' = [req EXCEPT ![r] = row]
    BY <1>10, <1>1 DEF CancelOther, TypeOK
  <2>3. SameLeave(r)
    BY <1>2, <1>4, <2>1, <2>2 DEF SameLeave, Request, CancelledRow
  <2>4. Keeps(r)
    BY <1>1, <1>2, <1>10, <1>4, <2>1, <2>2 DEF Keeps, CancelOther, Request, CancelledRow
  <2> QED BY <1>1, <1>2, <1>10, <1>4, <2>1, <2>2, <2>3, <2>4 DEF CancelOther
<1>11. CASE RequestCancellation(u, r)
  <2> DEFINE row == [req[r] EXCEPT !.cStatus = "PENDING", !.cTier = FirstIn(CancellationOrders(TiersOf(r)))]
  <2>1. FirstIn(CancellationOrders(TiersOf(r))) \in 1 .. MaxTier + 1
    BY <1>3, CancellationSteps
  <2>2. row \in Request
    BY <1>2, <2>1 DEF Request
  <2>3. req' = [req EXCEPT ![r] = row]
    BY <1>11, <1>1 DEF RequestingCancellation, RequestCancellation, TypeOK
  <2>4. SameLeave(r)
    BY <1>2, <1>4, <2>2, <2>3 DEF SameLeave, Request
  <2>5. Keeps(r)
    BY <1>1, <1>2, <1>11, <1>4, <2>2, <2>3
       DEF Keeps, RequestingCancellation, RequestCancellation, Request
  <2> QED BY <1>1, <1>2, <1>11, <1>4, <2>2, <2>3, <2>4, <2>5
          DEF RequestingCancellation, RequestCancellation
<1>12. CASE ApproveCancellationTier(u, r)
  <2> DEFINE row == [req[r] EXCEPT !.cTier = NextCancellationTier(r)]
  <2>1. req[r].cTier \in 1 .. MaxTier + 1
    BY <1>2, <1>12 DEF ApproveCancellationTier, DecidingCancellation, MayDecideCancellation, Request
  <2>2. NextCancellationTier(r) \in 1 .. MaxTier + 1
    BY <1>3, <1>12, <2>1, CancellationSteps DEF ApproveCancellationTier, NextCancellationTier
  <2>3. row \in Request
    BY <1>2, <2>2 DEF Request
  <2>4. req' = [req EXCEPT ![r] = row]
    BY <1>12, <1>1 DEF ApproveCancellationTier, TypeOK
  <2>5. SameLeave(r)
    BY <1>2, <1>4, <2>3, <2>4 DEF SameLeave, Request
  <2>6. Keeps(r)
    BY <1>1, <1>2, <1>12, <1>4, <2>3, <2>4 DEF Keeps, ApproveCancellationTier, Request
  <2> QED BY <1>1, <1>2, <1>12, <1>4, <2>3, <2>4, <2>5, <2>6 DEF ApproveCancellationTier
<1>13. CASE ApproveCancellationFinal(u, r)
  <2> DEFINE row == CancelledRow(req[r], "APPROVED", u)
  <2>1. row \in Request
    BY <1>2 DEF Request, CancelledRow
  <2>2. req' = [req EXCEPT ![r] = row]
    BY <1>13, <1>1 DEF ApproveCancellationFinal, TypeOK
  <2>3. SameLeave(r)
    BY <1>2, <1>4, <2>1, <2>2 DEF SameLeave, Request, CancelledRow
  <2>4. Revokes(r)
    BY <1>1, <1>2, <1>13, <1>4, <2>1, <2>2, ZenonT(40) DEF Revokes, ApproveCancellationFinal, Request, CancelledRow, DecidingCancellation, CancellationInStep
  <2> QED BY <1>1, <1>2, <1>13, <1>4, <2>1, <2>2, <2>3, <2>4 DEF ApproveCancellationFinal
<1>14. CASE RejectCancellation(u, r)
  <2> DEFINE row == [req[r] EXCEPT !.cStatus = "REJECTED", !.cTier = Null]
  <2>1. row \in Request
    BY <1>2 DEF Request
  <2>2. req' = [req EXCEPT ![r] = row]
    BY <1>14, <1>1 DEF RejectCancellation, TypeOK
  <2>3. SameLeave(r)
    BY <1>2, <1>4, <2>1, <2>2 DEF SameLeave, Request
  <2>4. Keeps(r)
    BY <1>1, <1>2, <1>14, <1>4, <2>1, <2>2 DEF Keeps, RejectCancellation, Request
  <2> QED BY <1>1, <1>2, <1>14, <1>4, <2>1, <2>2, <2>3, <2>4 DEF RejectCancellation
<1> QED BY <1>5, <1>6, <1>7, <1>8, <1>9, <1>10, <1>11, <1>12, <1>13, <1>14 DEF Decide

\* create() adds one request on free days and touches no other one.
LEMMA CreateShape ==
    ASSUME TypeOK, NEW u \in Users, NEW r \in RequestIds, Create(u, r)
    PROVE  /\ r \in RequestIds \ Filed /\ req'[r] \in Request
           /\ \A s \in RequestIds : s # r => req'[s] = req[s]
           /\ Filed' = Filed \cup {r}
           /\ req'[r].first <= req'[r].last
           /\ req'[r].cStatus = "NONE" /\ req'[r].cTier = Null
           /\ \A s \in RequestIds :
                 Live(s) /\ req[s].employee = req'[r].employee => ~Overlap(req[s], req'[r])
           /\ \/ /\ req'[r].status = "PENDING"
                 /\ req'[r].tier = FirstIn(DOMAIN ActiveTiers(req'[r].employee, workflow))
                 /\ standing' = [standing EXCEPT
                                   ![r] = DOMAIN ActiveTiers(req'[r].employee, workflow)]
                 /\ UNCHANGED <<attendance, used>>
              \/ /\ req'[r].status = "APPROVED"
                 /\ UNCHANGED standing
                 /\ ApplyApproval(req'[r].employee, req'[r].type, req'[r].first,
                                  req'[r].last, req'[r].charge)
           /\ UNCHANGED <<approved, workflow, edited>>
<1> USE DEF orgVars
<1> PICK e \in Employees, t \in LeaveTypes, first \in Days, last \in Days,
         session \in {"FULL_DAY", "HALF_DAY"}, override \in BOOLEAN :
             \/ CreatePending(u, r, e, t, first, last, session, override)
             \/ CreateApproved(u, r, e, t, first, last, session, override)
  BY DEF Create
<1>1. r \in RequestIds \ Filed /\ Filing(u, e, t, first, last, session, override)
  BY DEF CreatePending, CreateApproved
<1>2. /\ first <= last
      /\ \A s \in RequestIds :
            Live(s) /\ req[s].employee = e => ~Overlap(req[s], [first |-> first, last |-> last])
  BY <1>1 DEF Filing, DaysFree, ValidSpan
<1>3. ASSUME NEW tier, NEW status, NEW by,
             NewRequest(e, t, first, last, session, tier, status, by) \in Request,
             req' = [req EXCEPT ![r] = NewRequest(e, t, first, last, session, tier, status, by)]
      PROVE  /\ req'[r] \in Request
             /\ \A s \in RequestIds : s # r => req'[s] = req[s]
             /\ Filed' = Filed \cup {r}
             /\ req'[r].first <= req'[r].last
             /\ req'[r].cStatus = "NONE" /\ req'[r].cTier = Null
             /\ \A s \in RequestIds :
                   Live(s) /\ req[s].employee = req'[r].employee => ~Overlap(req[s], req'[r])
             /\ req'[r].employee = e /\ req'[r].type = t
             /\ req'[r].first = first /\ req'[r].last = last
             /\ req'[r].charge = LeaveCharge(e, first, last, session)
             /\ req'[r].status = status /\ req'[r].tier = tier
  <2> DEFINE row == NewRequest(e, t, first, last, session, tier, status, by)
  <2>1. req'[r] = row /\ \A s \in RequestIds : s # r => req'[s] = req[s]
    BY <1>3 DEF TypeOK
  <2>2. row # Null
    BY <1>3, NullRowAssumption
  <2>3. Filed' = Filed \cup {r}
    BY <2>1, <2>2
  <2>4. /\ row.employee = e /\ row.type = t /\ row.first = first /\ row.last = last
        /\ row.charge = LeaveCharge(e, first, last, session)
        /\ row.status = status /\ row.tier = tier
        /\ row.cStatus = "NONE" /\ row.cTier = Null
    BY DEF NewRequest
  <2>5. \A s \in RequestIds : Live(s) /\ req[s].employee = e => ~Overlap(req[s], row)
    BY <1>2, <2>4 DEF Overlap
  <2> HIDE DEF row
  <2> QED BY <1>2, <1>3, <2>1, <2>3, <2>4, <2>5 DEF row
<1>4. CASE CreatePending(u, r, e, t, first, last, session, override)
  <2> DEFINE orders == DOMAIN ActiveTiers(e, workflow)
  <2>1. orders \in SUBSET TierOrders /\ orders \in SUBSET Nat
    BY ActiveTiersType, BoundsAssumption DEF TierOrders
  <2>2. FirstIn(orders) \in TierOrders \cup {Null}
    BY <2>1, FirstTier
  <2>3. NewRequest(e, t, first, last, session, FirstIn(orders), "PENDING", Null) \in Request
    BY <2>2, NewRequestType
  <2>4. req' = [req EXCEPT ![r] = NewRequest(e, t, first, last, session,
                                             FirstIn(orders), "PENDING", Null)]
    BY <1>4 DEF CreatePending
  <2> QED BY <1>1, <1>3, <1>4, <2>3, <2>4, ZenonT(40) DEF CreatePending
<1>5. CASE CreateApproved(u, r, e, t, first, last, session, override)
  <2>1. NewRequest(e, t, first, last, session, Null, "APPROVED", u) \in Request
    BY NewRequestType
  <2>2. req' = [req EXCEPT ![r] = NewRequest(e, t, first, last, session, Null, "APPROVED", u)]
    BY <1>5 DEF CreateApproved
  <2> QED BY <1>1, <1>3, <1>5, <2>1, <2>2 DEF CreateApproved
<1> QED BY <1>4, <1>5

\* No other service writes a request or what is used of a balance.
LEMMA SurroundingsShape ==
    ASSUME TypeOK, Surroundings
    PROVE  UNCHANGED <<req, approved, used>>
BY DEF Surroundings, SetWorkflow, SetHead, SwitchLogin, DeleteLogin, AdjustBalance, ProcessDay,
       CorrectAttendance, NextDay, dbVars

(***************************************************************************)
(* No overlap: only create() adds a live request, and it looks at every    *)
(* other one; a decision leaves the leave alone and revives nothing.       *)
(***************************************************************************)
\* Every step keeps the live requests of an employee on different days.
LEMMA NoOverlapStep ==
    ASSUME TypeOK, CancellationInStep, NoOverlap, [Next]_vars
    PROVE  NoOverlap'
<1>1. ASSUME NEW u \in Users, NEW r \in RequestIds, Create(u, r)
      PROVE  NoOverlap'
  <2> SUFFICES ASSUME NEW a \in RequestIds, NEW b \in RequestIds, a # b,
                      Live(a)', Live(b)', req'[a].employee = req'[b].employee
               PROVE  ~Overlap(req'[a], req'[b])
    BY DEF NoOverlap
  <2>1. \A s \in RequestIds : s # r /\ Live(s)' => Live(s) /\ req'[s] = req[s]
    BY <1>1, CreateShape DEF Live
  <2>2. CASE a # r /\ b # r
    BY <2>1, <2>2 DEF NoOverlap
  <2>3. CASE a = r
    <3>1. ~Overlap(req[b], req'[a])
      BY <1>1, <2>1, <2>3, CreateShape
    <3> QED BY <2>1, <2>3, <3>1 DEF Overlap
  <2>4. CASE b = r
    BY <1>1, <2>1, <2>4, CreateShape
  <2> QED BY <2>2, <2>3, <2>4
<1>2. ASSUME NEW u \in Users, NEW r \in RequestIds, Decide(u, r)
      PROVE  NoOverlap'
  <2>1. \A s \in RequestIds : Live(s)' => Live(s)
    BY <1>2, DecideShape DEF Live, Grants, Revokes, Keeps
  <2>2. \A s \in RequestIds : /\ req'[s].employee = req[s].employee
                              /\ req'[s].first = req[s].first /\ req'[s].last = req[s].last
    BY <1>2, DecideShape DEF SameLeave
  <2> QED BY <2>1, <2>2 DEF NoOverlap, Overlap
<1>3. CASE Surroundings
  BY <1>3, SurroundingsShape DEF NoOverlap, Live
<1>4. CASE UNCHANGED vars
  BY <1>4 DEF vars, NoOverlap, Live
<1> QED BY <1>1, <1>2, <1>3, <1>4 DEF Next

(***************************************************************************)
(* Attendance.  Only the attendance service changes a row in the           *)
(* surroundings, it removes none, and a day it corrects is in edited.      *)
(***************************************************************************)
\* The other services remove no attendance row, and turn one into ON_LEAVE only
\* by a hand correction, which is remembered.
LEMMA SurroundingsAttendance ==
    ASSUME TypeOK, Surroundings
    PROVE  /\ edited \subseteq edited'
           /\ \A k \in Employees \X Days :
                 \/ attendance'[k] = attendance[k]
                 \/ attendance'[k] \in {"PUNCHED", "OVERTIME"}
                 \/ attendance'[k] # "NONE" /\ k \in edited'
<1> USE DEF orgVars, dbVars
<1>1. ASSUME NEW e \in Employees, NEW d \in PunchDays, NEW row \in Rows, ProcessDay(e, d, row)
      PROVE  /\ edited \subseteq edited'
             /\ \A k \in Employees \X Days :
                   attendance'[k] = attendance[k] \/ attendance'[k] \in {"PUNCHED", "OVERTIME"}
  BY <1>1 DEF ProcessDay, TypeOK
<1>2. ASSUME NEW e \in Employees, NEW d \in CorrectDays, NEW row \in Rows,
             CorrectAttendance(e, d, row)
      PROVE  /\ edited \subseteq edited'
             /\ \A k \in Employees \X Days :
                   attendance'[k] = attendance[k] \/ (attendance'[k] # "NONE" /\ k \in edited')
  <2>1. edited' = edited \cup {<<e, d>>} /\ row # "NONE"
    BY <1>2 DEF CorrectAttendance
  <2>2. attendance' = [attendance EXCEPT ![<<e, d>>] = row]
    BY <1>2 DEF CorrectAttendance
  <2>3. ASSUME NEW k \in Employees \X Days
        PROVE  attendance'[k] = attendance[k] \/ (attendance'[k] # "NONE" /\ k \in edited')
    BY <2>1, <2>2 DEF TypeOK
  <2> QED BY <2>1, <2>3
<1>3. CASE UNCHANGED <<attendance, edited>>
  BY <1>3
<1> QED BY <1>1, <1>2, <1>3 DEF Surroundings, SetWorkflow, SetHead, SwitchLogin, DeleteLogin,
                              AdjustBalance, NextDay

\* A granted leave reserves its days, so no two granted leaves share one.
LEMMA OneLeaveADay ==
    ASSUME TypeOK, NoOverlap, NEW r \in RequestIds, NEW s \in RequestIds, Granted(r), Granted(s),
           NEW e \in Employees, NEW d \in Days, Covers(r, e, d), Covers(s, e, d)
    PROVE  r = s
<1>1. req[r] \in Request /\ req[s] \in Request
  BY DEF TypeOK, Granted
<1>2. Overlap(req[r], req[s])
  BY <1>1, BoundsAssumption DEF Overlap, Covers, Request, Days
<1> QED BY <1>2 DEF NoOverlap, Live, Granted, Covers

\* Marking the days of a leave removes no row.
LEMMA ApprovalKeepsRows ==
    ASSUME NEW e, NEW t, NEW first, NEW last, NEW charge,
           ApplyApproval(e, t, first, last, charge)
    PROVE  \A k \in Employees \X Days : attendance[k] # "NONE" => attendance'[k] # "NONE"
BY DEF ApplyApproval

\* Every step keeps a row on every granted day; NoOverlap is why a withdrawal
\* does not take the row of another granted leave.
LEMMA GrantedDaysMarkedStep ==
    ASSUME TypeOK, NoOverlap, CancellationInStep, GrantedDaysMarked, [Next]_vars
    PROVE  GrantedDaysMarked'
<1> SUFFICES ASSUME NEW s \in RequestIds, NEW d \in Days,
                    Granted(s)', Covers(s, req[s].employee, d)'
             PROVE  attendance'[<<req'[s].employee, d>>] # "NONE"
  BY DEF GrantedDaysMarked
<1>1. ASSUME NEW u \in Users, NEW r \in RequestIds, Create(u, r)
      PROVE  attendance'[<<req'[s].employee, d>>] # "NONE"
  <2>1. CASE s # r
    <3>1. req'[s] = req[s] /\ Granted(s)
      BY <1>1, <2>1, CreateShape DEF Granted
    <3>2. attendance[<<req[s].employee, d>>] # "NONE" /\ req[s].employee \in Employees
      BY <3>1 DEF GrantedDaysMarked, Covers, TypeOK, Granted, Request
    <3>3. \/ UNCHANGED attendance
          \/ ApplyApproval(req'[r].employee, req'[r].type, req'[r].first,
                           req'[r].last, req'[r].charge)
      BY <1>1, CreateShape
    <3> QED BY <3>1, <3>2, <3>3, ApprovalKeepsRows
  <2>2. CASE s = r
    <3>1. /\ req'[r].status = "APPROVED" /\ req'[r] \in Request
          /\ ApplyApproval(req'[r].employee, req'[r].type, req'[r].first,
                           req'[r].last, req'[r].charge)
      BY <1>1, <2>2, CreateShape DEF Granted
    <3>2. d \in req'[r].first .. req'[r].last /\ req'[r].employee \in Employees
      BY <2>2, <3>1, BoundsAssumption DEF Covers, Request, Days
    <3> QED BY <2>2, <3>1, <3>2 DEF ApplyApproval
  <2> QED BY <2>1, <2>2
<1>2. ASSUME NEW u \in Users, NEW r \in RequestIds, Decide(u, r)
      PROVE  attendance'[<<req'[s].employee, d>>] # "NONE"
  <2>1. /\ req'[s].employee = req[s].employee
        /\ req'[s].first = req[s].first /\ req'[s].last = req[s].last
        /\ s \in Filed
    BY <1>2, DecideShape DEF SameLeave, Granted
  <2>2. req[s] \in Request /\ Covers(s, req[s].employee, d) /\ req[s].employee \in Employees
    BY <2>1 DEF TypeOK, Covers, Request
  <2>3. CASE Granted(s) /\ ~Revokes(r)
    <3>1. attendance[<<req[s].employee, d>>] # "NONE"
      BY <2>2, <2>3 DEF GrantedDaysMarked
    <3>2. \/ UNCHANGED attendance
          \/ ApplyApproval(req[r].employee, req[r].type, req[r].first, req[r].last, req[r].charge)
      BY <1>2, <2>3, DecideShape DEF Grants, Keeps
    <3> QED BY <2>1, <2>2, <3>1, <3>2, ApprovalKeepsRows
  <2>4. CASE Granted(s) /\ Revokes(r)
    <3>1. s # r /\ Granted(r)
      BY <1>2, <2>4, DecideShape DEF Revokes, Granted
    <3>2. ~Covers(r, req[s].employee, d)
      BY <2>2, <2>4, <3>1, OneLeaveADay
    <3>3. attendance[<<req[s].employee, d>>] # "NONE"
      BY <2>2, <2>4 DEF GrantedDaysMarked
    <3> QED BY <2>1, <2>2, <2>4, <3>2, <3>3 DEF Revokes, ReverseApproval
  <2>5. CASE ~Granted(s)
    <3>1. s = r /\ Grants(r)
      BY <1>2, <2>1, <2>5, DecideShape DEF Granted, Grants, Revokes, Keeps
    <3>2. d \in req[s].first .. req[s].last
      BY <2>2, BoundsAssumption DEF Covers, Request, Days
    <3> QED BY <2>1, <2>2, <3>1, <3>2 DEF Grants, ApplyApproval
  <2> QED BY <2>3, <2>4, <2>5
<1>3. CASE Surroundings
  <2>1. req' = req /\ Granted(s) /\ Covers(s, req[s].employee, d) /\ req[s].employee \in Employees
    BY <1>3, SurroundingsShape DEF Granted, Covers, TypeOK, Request
  <2>2. attendance[<<req[s].employee, d>>] # "NONE"
    BY <2>1 DEF GrantedDaysMarked
  <2> QED BY <1>3, <2>1, <2>2, SurroundingsAttendance
<1>4. CASE UNCHANGED vars
  BY <1>4 DEF vars, GrantedDaysMarked, Granted, Covers
<1> QED BY <1>1, <1>2, <1>3, <1>4 DEF Next

\* Every step keeps each placeholder row under a granted leave.
LEMMA NoOrphanPlaceholderStep ==
    ASSUME TypeOK, CancellationInStep, NoOrphanPlaceholder, [Next]_vars
    PROVE  NoOrphanPlaceholder'
<1> SUFFICES ASSUME NEW e \in Employees, NEW d \in Days,
                    attendance'[<<e, d>>] = "ON_LEAVE", <<e, d>> \notin edited'
             PROVE  \E s \in RequestIds : Granted(s)' /\ Covers(s, e, d)'
  BY DEF NoOrphanPlaceholder
<1>1. ASSUME NEW u \in Users, NEW r \in RequestIds, Create(u, r)
      PROVE  \E s \in RequestIds : Granted(s)' /\ Covers(s, e, d)'
  <2>1. CASE attendance[<<e, d>>] = "ON_LEAVE"
    <3>1. <<e, d>> \notin edited
      BY <1>1, CreateShape
    <3>2. PICK s \in RequestIds : Granted(s) /\ Covers(s, e, d)
      BY <2>1, <3>1 DEF NoOrphanPlaceholder
    <3> QED BY <1>1, <3>2, CreateShape DEF Granted, Covers
  <2>2. CASE attendance[<<e, d>>] # "ON_LEAVE"
    <3>1. /\ req'[r].status = "APPROVED" /\ req'[r] \in Request /\ r \in Filed'
          /\ ApplyApproval(req'[r].employee, req'[r].type, req'[r].first,
                           req'[r].last, req'[r].charge)
      BY <1>1, <2>2, CreateShape
    <3>2. e = req'[r].employee /\ d \in req'[r].first .. req'[r].last
      BY <2>2, <3>1 DEF ApplyApproval
    <3> QED BY <3>1, <3>2, BoundsAssumption DEF Granted, Covers, Request, Days
  <2> QED BY <2>1, <2>2
<1>2. ASSUME NEW u \in Users, NEW r \in RequestIds, Decide(u, r)
      PROVE  \E s \in RequestIds : Granted(s)' /\ Covers(s, e, d)'
  <2>1. CASE attendance[<<e, d>>] = "ON_LEAVE"
    <3>1. <<e, d>> \notin edited
      BY <1>2, DecideShape
    <3>2. PICK s \in RequestIds : Granted(s) /\ Covers(s, e, d)
      BY <2>1, <3>1 DEF NoOrphanPlaceholder
    <3>3. Covers(s, e, d)'
      BY <1>2, <3>2, DecideShape DEF Covers, SameLeave
    <3>4. ~(Revokes(r) /\ s = r)
      BY <2>1, <3>2 DEF Revokes, ReverseApproval
    <3>5. Granted(s)'
      BY <1>2, <3>2, <3>4, DecideShape DEF Granted, Grants, Revokes, Keeps
    <3> QED BY <3>3, <3>5
  <2>2. CASE attendance[<<e, d>>] # "ON_LEAVE"
    <3>1. Grants(r)
      BY <1>2, <2>2, DecideShape DEF Revokes, Keeps, ReverseApproval
    <3>2. e = req[r].employee /\ d \in req[r].first .. req[r].last
      BY <2>2, <3>1 DEF Grants, ApplyApproval
    <3>3. /\ req'[r] \in Request /\ req[r] \in Request /\ r \in Filed' /\ SameLeave(r)
          /\ req'[r].status = "APPROVED"
      BY <1>2, <3>1, DecideShape DEF Grants
    <3> QED BY <3>2, <3>3, BoundsAssumption DEF Granted, Covers, Request, Days, SameLeave
  <2> QED BY <2>1, <2>2
<1>3. CASE Surroundings
  <2>1. req' = req /\ attendance[<<e, d>>] = "ON_LEAVE" /\ <<e, d>> \notin edited
    BY <1>3, SurroundingsShape, SurroundingsAttendance
  <2> QED BY <2>1 DEF NoOrphanPlaceholder, Granted, Covers
<1>4. CASE UNCHANGED vars
  BY <1>4 DEF vars, NoOrphanPlaceholder, Granted, Covers
<1> QED BY <1>1, <1>2, <1>3, <1>4 DEF Next

(***************************************************************************)
(* Balances.  A grant adds its charge to one balance and a withdrawal      *)
(* takes the same charge back: the charge is part of what the balance      *)
(* shows, so the floor at zero is never what the refund reaches.           *)
(***************************************************************************)
\* The granted leaves of a balance are filed, so there are finitely many.
LEMMA GrantedFinite ==
    ASSUME TypeOK, IsFiniteSet(Filed), NEW b
    PROVE  /\ IsFiniteSet(GrantedOn(b))
           /\ \A r \in GrantedOn(b) : Charges[r] = req[r].charge /\ Charges[r] \in Nat
<1>1. GrantedOn(b) \subseteq Filed
  BY DEF GrantedOn, Granted
<1>2. \A r \in Filed : req[r] \in Request
  BY DEF TypeOK
<1> QED BY <1>1, <1>2, FS_Subset DEF Charges, Request

\* What a write to one request leaves of the granted leaves of a balance.
LEMMA GrantedOnOthers ==
    ASSUME TypeOK, NEW r \in RequestIds, NEW b,
           \A s \in RequestIds : s # r => req'[s] = req[s]
    PROVE  /\ GrantedOn(b)' \ {r} = GrantedOn(b) \ {r}
           /\ \A s \in GrantedOn(b) \ {r} : Charges'[s] = Charges[s]
<1>1. \A s \in RequestIds : s # r => (s \in GrantedOn(b)' <=> s \in GrantedOn(b))
  BY DEF GrantedOn, Granted
<1>2. GrantedOn(b)' \subseteq RequestIds /\ GrantedOn(b) \subseteq RequestIds
  BY DEF GrantedOn
<1>3. \A s \in GrantedOn(b) \ {r} : s \in Filed /\ s \in Filed' /\ req'[s] = req[s]
  BY DEF GrantedOn, Granted
<1> QED BY <1>1, <1>2, <1>3 DEF Charges

\* applyApprovalSideEffects charges what the leave it grants adds to the sum.
LEMMA GrantCharges ==
    ASSUME TypeOK, TypeOK', IsFiniteSet(Filed), UsedMatchesGranted,
           NEW r \in RequestIds, ~Granted(r), Granted(r)',
           \A s \in RequestIds : s # r => req'[s] = req[s],
           ApplyApproval(req'[r].employee, req'[r].type, req'[r].first, req'[r].last,
                         req'[r].charge)
    PROVE  UsedMatchesGranted'
<1> SUFFICES ASSUME NEW b \in DOMAIN used
             PROVE  used'[b] = SumFunctionOnSet(Charges', GrantedOn(b)')
  BY DEF UsedMatchesGranted, ApplyApproval
<1> DEFINE S == GrantedOn(b)
<1>1. /\ IsFiniteSet(S) /\ r \notin S
      /\ \A x \in S : Charges[x] \in Nat
  BY GrantedFinite DEF GrantedOn
<1>2. GrantedOn(b)' \ {r} = S /\ \A x \in S : Charges'[x] = Charges[x]
  BY <1>1, GrantedOnOthers
<1>3. req'[r] \in Request /\ r \in Filed' /\ Charges'[r] = req'[r].charge /\ Charges'[r] \in Nat
  BY DEF Granted, TypeOK, Charges, Request
<1>4. used[b] = SumFunctionOnSet(Charges, S)
  BY DEF UsedMatchesGranted
<1>5. Balance(r)' \in Employees \X LeaveTypes \X Years
  BY <1>3, TypesAssumption DEF Request
<1>6. CASE b = Balance(r)'
  <2>1. GrantedOn(b)' = S \cup {r}
    BY <1>2, <1>6 DEF GrantedOn
  <2>2. used'[b] = used[b] + req'[r].charge
    BY <1>5, <1>6 DEF ApplyApproval, TypeOK
  <2> DEFINE T == GrantedOn(b)'
             was == Charges
             is == Charges'
  <2>3. /\ IsFiniteSet(S) /\ r \notin S /\ T = S \cup {r} /\ is[r] \in Nat
        /\ \A x \in S : was[x] = is[x] /\ was[x] \in Nat
    BY <1>1, <1>2, <1>3, <2>1
  <2> HIDE DEF S, T, was, is
  <2>4. SumFunctionOnSet(is, T) = SumFunctionOnSet(was, S) + is[r]
    BY <2>3, SumWithOneMore
  <2> QED BY <1>3, <1>4, <2>2, <2>4 DEF T, was, is
<1>7. CASE b # Balance(r)'
  <2>1. GrantedOn(b)' = S
    BY <1>2, <1>7 DEF GrantedOn
  <2>2. used'[b] = used[b]
    BY <1>7 DEF ApplyApproval, TypeOK
  <2> HIDE DEF S
  <2>3. SumFunctionOnSet(Charges', S) = SumFunctionOnSet(Charges, S)
    BY <1>1, <1>2, SumSame
  <2> QED BY <1>4, <2>1, <2>2, <2>3
<1> QED BY <1>6, <1>7

\* reverseApprovalSideEffects takes back what the leave added, and no less: the
\* balance shows at least that much.
LEMMA RevokeRefunds ==
    ASSUME TypeOK, TypeOK', IsFiniteSet(Filed), UsedMatchesGranted,
           NEW r \in RequestIds, Granted(r), ~Granted(r)',
           \A s \in RequestIds : s # r => req'[s] = req[s],
           ReverseApproval(r)
    PROVE  UsedMatchesGranted'
<1> SUFFICES ASSUME NEW b \in DOMAIN used
             PROVE  used'[b] = SumFunctionOnSet(Charges', GrantedOn(b)')
  BY DEF UsedMatchesGranted, ReverseApproval
<1> DEFINE S == GrantedOn(b)'
<1>0. GrantedOn(b)' = S
  OBVIOUS
<1>1. r \notin S /\ GrantedOn(b) \ {r} = S /\ \A x \in S : Charges'[x] = Charges[x]
  <2>1. r \notin S
    BY DEF GrantedOn
  <2> QED BY <2>1, GrantedOnOthers
<1>2. IsFiniteSet(S) /\ \A x \in S : Charges[x] \in Nat /\ Charges'[x] \in Nat
  BY <1>1, GrantedFinite, FS_Subset
<1>3. req[r] \in Request /\ Charges[r] = req[r].charge /\ Charges[r] \in Nat
  BY DEF Granted, TypeOK, Charges, Request
<1>4. used[b] = SumFunctionOnSet(Charges, GrantedOn(b))
  BY DEF UsedMatchesGranted
<1>5. Balance(r) \in Employees \X LeaveTypes \X Years
  BY <1>3, TypesAssumption DEF Request
<1>6. SumFunctionOnSet(Charges', S) \in Nat
  <2> HIDE DEF S
  <2> QED BY <1>2, SumType
<1>7. CASE b = Balance(r)
  <2>1. GrantedOn(b) = S \cup {r}
    BY <1>1, <1>7 DEF GrantedOn
  <2>2. used'[b] = IF used[b] < req[r].charge THEN 0 ELSE used[b] - req[r].charge
    BY <1>5, <1>7 DEF ReverseApproval, TypeOK
  <2>3. SumFunctionOnSet(Charges, GrantedOn(b)) = SumFunctionOnSet(Charges', S) + Charges[r]
    <3> DEFINE T == GrantedOn(b)
               was == Charges'
               is == Charges
    <3>1. IsFiniteSet(S) /\ r \notin S /\ T = S \cup {r}
      BY <1>1, <1>2, <2>1
    <3>2. \A x \in S : was[x] = is[x]
      BY <1>1
    <3>3. \A x \in S : was[x] \in Nat
      BY <1>2
    <3>4. is[r] \in Nat
      BY <1>3
    <3> HIDE DEF S, T, was, is
    <3>5. SumFunctionOnSet(is, T) = SumFunctionOnSet(was, S) + is[r]
      BY <3>1, <3>2, <3>3, <3>4, SumWithOneMore
    <3> QED BY <3>5 DEF T, was, is
  <2> HIDE DEF S
  <2> DEFINE rest == SumFunctionOnSet(Charges', S)
             charge == req[r].charge
  <2>4. rest \in Nat /\ charge \in Nat /\ used[b] = rest + charge
    BY <1>3, <1>4, <1>6, <2>3
  <2>5. used'[b] = IF rest + charge < charge THEN 0 ELSE (rest + charge) - charge
    BY <2>2, <2>4
  <2> HIDE DEF rest, charge
  <2>6. used'[b] = rest
    BY <2>4, <2>5
  <2> QED BY <1>0, <2>6 DEF rest
<1>8. CASE b # Balance(r)
  <2>1. GrantedOn(b) = S
    BY <1>1, <1>8 DEF GrantedOn
  <2>2. used'[b] = used[b]
    BY <1>8 DEF ReverseApproval, TypeOK
  <2> HIDE DEF S
  <2>3. SumFunctionOnSet(Charges', S) = SumFunctionOnSet(Charges, S)
    BY <1>1, <1>2, SumSame
  <2> QED BY <1>0, <1>4, <2>1, <2>2, <2>3
<1> QED BY <1>7, <1>8

\* A write that leaves every leave as granted as it was leaves the sums alone.
LEMMA SumsUntouched ==
    ASSUME TypeOK, IsFiniteSet(Filed), UsedMatchesGranted, used' = used,
           \A r \in RequestIds : Granted(r)' <=> Granted(r),
           \A r \in RequestIds : Granted(r) =>
                 Balance(r)' = Balance(r) /\ req'[r].charge = req[r].charge
    PROVE  UsedMatchesGranted'
<1> SUFFICES ASSUME NEW b \in DOMAIN used
             PROVE  used'[b] = SumFunctionOnSet(Charges', GrantedOn(b)')
  BY DEF UsedMatchesGranted
<1> DEFINE S == GrantedOn(b)
<1>1. GrantedOn(b)' = S
  BY DEF GrantedOn
<1>2. IsFiniteSet(S) /\ \A r \in S : Charges'[r] = Charges[r]
  BY GrantedFinite DEF GrantedOn, Granted, Charges
<1> HIDE DEF S
<1>3. SumFunctionOnSet(Charges', S) = SumFunctionOnSet(Charges, S)
  BY <1>2, SumSame
<1>4. used[b] = SumFunctionOnSet(Charges, S)
  BY DEF UsedMatchesGranted, S
<1> QED BY <1>1, <1>3, <1>4

\* Every step keeps the balances equal to what was granted.
LEMMA UsedStep ==
    ASSUME TypeOK, CancellationInStep, IsFiniteSet(Filed), UsedMatchesGranted, [Next]_vars
    PROVE  IsFiniteSet(Filed') /\ UsedMatchesGranted'
<1>0. TypeOK'
  BY TypeStep
<1>1. ASSUME NEW u \in Users, NEW r \in RequestIds, Create(u, r)
      PROVE  IsFiniteSet(Filed') /\ UsedMatchesGranted'
  <2>1. IsFiniteSet(Filed')
    BY <1>1, CreateShape, FS_AddElement
  <2>2. ~Granted(r) /\ r \in Filed' /\ \A s \in RequestIds : s # r => req'[s] = req[s]
    BY <1>1, CreateShape DEF Granted
  <2>3. CASE req'[r].status = "APPROVED"
    <3>1. Granted(r)'
      BY <2>2, <2>3 DEF Granted
    <3>2. ApplyApproval(req'[r].employee, req'[r].type, req'[r].first, req'[r].last,
                        req'[r].charge)
      BY <1>1, <2>3, CreateShape
    <3> QED BY <1>0, <2>1, <2>2, <3>1, <3>2, GrantCharges
  <2>4. CASE req'[r].status # "APPROVED"
    <3>1. used' = used
      BY <1>1, <2>4, CreateShape
    <3>2. \A s \in RequestIds : Granted(s)' <=> Granted(s)
      BY <2>2, <2>4 DEF Granted
    <3>3. \A s \in RequestIds : Granted(s) =>
                Balance(s)' = Balance(s) /\ req'[s].charge = req[s].charge
      BY <2>2
    <3> QED BY <2>1, <3>1, <3>2, <3>3, SumsUntouched
  <2> QED BY <2>3, <2>4
<1>2. ASSUME NEW u \in Users, NEW r \in RequestIds, Decide(u, r)
      PROVE  IsFiniteSet(Filed') /\ UsedMatchesGranted'
  <2>1. /\ r \in Filed /\ Filed' = Filed /\ SameLeave(r)
        /\ \A s \in RequestIds : s # r => req'[s] = req[s]
        /\ Grants(r) \/ Revokes(r) \/ Keeps(r)
    BY <1>2, DecideShape
  <2>2. CASE Grants(r)
    <3>1. ~Granted(r) /\ Granted(r)'
      BY <2>1, <2>2 DEF Grants, Granted
    <3>2. ApplyApproval(req'[r].employee, req'[r].type, req'[r].first, req'[r].last,
                        req'[r].charge)
      BY <2>1, <2>2 DEF Grants, SameLeave
    <3> QED BY <1>0, <2>1, <3>1, <3>2, GrantCharges
  <2>3. CASE Revokes(r)
    <3>1. Granted(r) /\ ~Granted(r)' /\ ReverseApproval(r)
      BY <2>1, <2>3 DEF Revokes, Granted
    <3> QED BY <1>0, <2>1, <3>1, RevokeRefunds
  <2>4. CASE Keeps(r)
    <3>1. used' = used /\ \A s \in RequestIds : Granted(s)' <=> Granted(s)
      BY <2>1, <2>4 DEF Keeps, Granted
    <3>2. \A s \in RequestIds : Granted(s) =>
                Balance(s)' = Balance(s) /\ req'[s].charge = req[s].charge
      BY <2>1 DEF SameLeave
    <3> QED BY <2>1, <3>1, <3>2, SumsUntouched
  <2> QED BY <2>1, <2>2, <2>3, <2>4
<1>3. CASE Surroundings \/ UNCHANGED vars
  <2>1. req' = req /\ used' = used
    BY <1>3, SurroundingsShape DEF vars
  <2>2. \A r \in RequestIds : /\ Granted(r)' <=> Granted(r)
                              /\ Balance(r)' = Balance(r) /\ req'[r].charge = req[r].charge
    BY <2>1 DEF Granted
  <2>3. Filed' = Filed
    BY <2>1
  <2> QED BY <2>1, <2>2, <2>3, SumsUntouched
<1> QED BY <1>1, <1>2, <1>3 DEF Next

(***************************************************************************)
(* The cancellation chain.                                                 *)
(***************************************************************************)
CancellationOk(row) ==
    /\ row.cStatus = "PENDING" => row.status = "APPROVED"
    /\ row.cStatus = "APPROVED" => row.status = "CANCELLED" /\ IsRescuer(RoleOf[row.closedBy])
    /\ (row.cTier # Null) = (row.cStatus = "PENDING")

\* A decision keeps the cancellation half of a request consistent; HR Admin's
\* order is above every tier, so a tier of the department never closes it.
LEMMA DecideCancellation ==
    ASSUME TypeOK, NEW u \in Users, NEW r \in Filed, req[r] \in Request,
           CancellationOk(req[r]), Decide(u, r)
    PROVE  CancellationOk(req'[r])
<1>1. TiersOf(r) \in Chain
  BY ActiveTiersType DEF Request
<1>2. CASE ApproveTier(u, r)
  BY <1>2 DEF TypeOK, CancellationOk, ApproveTier, Deciding, Request
<1>3. CASE ApproveFinal(u, r)
  BY <1>3 DEF TypeOK, CancellationOk, ApproveFinal, Deciding, Request
<1>4. CASE ApproveSimple(u, r)
  BY <1>4 DEF TypeOK, CancellationOk, ApproveSimple, Deciding, Request
<1>5. CASE Reject(u, r)
  BY <1>5 DEF TypeOK, CancellationOk, Reject, Deciding, Request
<1>6. CASE CancelGranted(u, r)
  BY <1>6 DEF TypeOK, CancellationOk, CancelGranted, CancelledRow, Request
<1>7. CASE CancelOther(u, r)
  BY <1>7 DEF TypeOK, CancellationOk, CancelOther, CancelledRow, Request
<1>8. CASE RequestCancellation(u, r)
  <2>1. FirstIn(CancellationOrders(TiersOf(r))) # Null
    BY <1>1, CancellationSteps, NullAssumption, BoundsAssumption
  <2> QED BY <1>8, <2>1
          DEF TypeOK, CancellationOk, RequestingCancellation, RequestCancellation, Request
<1>9. CASE ApproveCancellationTier(u, r)
  BY <1>9 DEF TypeOK, CancellationOk, ApproveCancellationTier, DecidingCancellation, Request
<1>10. CASE ApproveCancellationFinal(u, r)
  <2>1. req[r].cTier \notin DOMAIN TiersOf(r)
    BY <1>1, <1>10, CancellationSteps
       DEF ApproveCancellationFinal, NextCancellationTier, CancellationOrders
  <2>2. IsRescuer(RoleOf[u])
    BY <1>10, <2>1 DEF ApproveCancellationFinal, DecidingCancellation, MayDecideCancellation
  <2> QED BY <1>10, <2>2 DEF TypeOK, CancellationOk, ApproveCancellationFinal, CancelledRow, Request
<1>11. CASE RejectCancellation(u, r)
  BY <1>11 DEF TypeOK, CancellationOk, RejectCancellation, DecidingCancellation, Request
<1> QED BY <1>2, <1>3, <1>4, <1>5, <1>6, <1>7, <1>8, <1>9, <1>10, <1>11 DEF Decide

\* Every step keeps the cancellation half of every request consistent.
LEMMA CancellationStep ==
    ASSUME TypeOK, CancellationInStep, HrAdminClosesChain, [Next]_vars
    PROVE  CancellationInStep' /\ HrAdminClosesChain'
<1>1. \A s \in Filed : CancellationOk(req[s])
  BY DEF CancellationInStep, HrAdminClosesChain, CancellationOk
<1>2. SUFFICES \A s \in Filed' : CancellationOk(req'[s])
  BY DEF CancellationInStep, HrAdminClosesChain, CancellationOk
<1>3. ASSUME NEW u \in Users, NEW r \in RequestIds, Create(u, r)
      PROVE  \A s \in Filed' : CancellationOk(req'[s])
  <2>1. CancellationOk(req'[r])
    BY <1>3, CreateShape DEF CancellationOk
  <2> QED BY <1>1, <1>3, <2>1, CreateShape
<1>4. ASSUME NEW u \in Users, NEW r \in RequestIds, Decide(u, r)
      PROVE  \A s \in Filed' : CancellationOk(req'[s])
  <2>1. CancellationOk(req'[r])
    BY <1>1, <1>4, DecideShape, DecideCancellation
  <2> QED BY <1>1, <1>4, <2>1, DecideShape
<1>5. CASE Surroundings
  BY <1>1, <1>5, SurroundingsShape
<1>6. CASE UNCHANGED vars
  BY <1>1, <1>6 DEF vars
<1> QED BY <1>3, <1>4, <1>5, <1>6 DEF Next

(***************************************************************************)
(* The tiers a request has passed.                                         *)
(***************************************************************************)
TiersOk(row, there, orders, done) ==
    /\ row.status = "PENDING" =>
          /\ there \subseteq orders
          /\ row.tier = Null => there = {}
          /\ row.tier # Null => \A o \in there : o < row.tier => o \in done
    /\ row.status = "APPROVED" /\ row.tier = Null => there \subseteq done

\* A decision keeps every standing tier below the current one approved.
LEMMA DecideTiers ==
    ASSUME TypeOK, NEW u \in Users, NEW r \in Filed, req[r] \in Request,
           TiersOk(req[r], standing[r], DOMAIN TiersOf(r), approved[r]), Decide(u, r)
    PROVE  /\ TiersOk(req'[r], standing[r], DOMAIN TiersOf(r), approved'[r])
           /\ \A s \in RequestIds : s # r => approved'[s] = approved[s]
<1> DEFINE orders == DOMAIN TiersOf(r)
<1>1. orders \in SUBSET TierOrders /\ orders \in SUBSET Nat
  BY ActiveTiersType, BoundsAssumption DEF TierOrders, Request
<1>2. CASE ApproveTier(u, r)
  <2> DEFINE tier == req[r].tier
             next == NextIn(orders, tier)
  <2>1. tier \in orders /\ next # Null /\ tier \in Nat /\ tier # Null
    BY <1>1, <1>2, NullAssumption DEF ApproveTier
  <2>2. \A n \in orders : n < next => n <= tier
    BY <1>1, <2>1, NextTier
  <2>3. req'[r] = [req[r] EXCEPT !.tier = next]
    BY <1>2 DEF TypeOK, ApproveTier
  <2>4. /\ approved'[r] = approved[r] \cup {tier}
        /\ \A s \in RequestIds : s # r => approved'[s] = approved[s]
    BY <1>2 DEF TypeOK, ApproveTier
  <2>5. req[r].status = "PENDING"
    BY <1>2 DEF ApproveTier, Deciding
  <2>6. /\ standing[r] \subseteq orders
        /\ \A o \in standing[r] : o < tier => o \in approved[r]
    BY <2>1, <2>5 DEF TiersOk
  <2> HIDE DEF next
  <2>7. req'[r].status = "PENDING" /\ req'[r].tier = next
    BY <2>3, <2>5 DEF Request
  <2> HIDE DEF tier
  <2>8. \A o \in standing[r] : o < next => o \in approved'[r]
    BY <1>1, <2>1, <2>2, <2>4, <2>6
  <2> QED BY <2>1, <2>4, <2>6, <2>7, <2>8 DEF TiersOk
<1>3. CASE ApproveFinal(u, r)
  <2> DEFINE tier == req[r].tier
  <2>1. tier \in orders /\ tier \in Nat /\ tier # Null /\ req[r].status = "PENDING"
    BY <1>1, <1>3, NullAssumption DEF ApproveFinal, Deciding
  <2>2. \A n \in orders : n <= tier
    BY <1>1, <1>3, <2>1, NextTier DEF ApproveFinal
  <2>3. /\ approved'[r] = approved[r] \cup {tier}
        /\ \A s \in RequestIds : s # r => approved'[s] = approved[s]
    BY <1>3 DEF TypeOK, ApproveFinal
  <2>4. /\ standing[r] \subseteq orders
        /\ \A o \in standing[r] : o < tier => o \in approved[r]
    BY <2>1 DEF TiersOk
  <2>5. req'[r].status = "APPROVED"
    BY <1>3 DEF TypeOK, ApproveFinal, Request
  <2> HIDE DEF tier
  <2>6. standing[r] \subseteq approved'[r]
    BY <1>1, <2>1, <2>2, <2>3, <2>4
  <2> QED BY <2>3, <2>5, <2>6 DEF TiersOk
<1>4. CASE ApproveSimple(u, r)
  <2>1. req'[r].status = "APPROVED" /\ req'[r].tier = req[r].tier /\ approved' = approved
    BY <1>4 DEF TypeOK, ApproveSimple, Request
  <2> QED BY <1>4, <2>1 DEF ApproveSimple, Deciding, TiersOk
<1>5. CASE Reject(u, r)
  BY <1>5 DEF TypeOK, Reject, TiersOk, Request
<1>6. CASE CancelGranted(u, r)
  BY <1>6 DEF TypeOK, CancelGranted, CancelledRow, TiersOk, Request
<1>7. CASE CancelOther(u, r)
  BY <1>7 DEF TypeOK, CancelOther, CancelledRow, TiersOk, Request
<1>8. CASE RequestCancellation(u, r)
  BY <1>8 DEF TypeOK, RequestingCancellation, RequestCancellation, TiersOk, Request
<1>9. CASE ApproveCancellationTier(u, r)
  BY <1>9 DEF TypeOK, ApproveCancellationTier, TiersOk, Request
<1>10. CASE ApproveCancellationFinal(u, r)
  BY <1>10 DEF TypeOK, ApproveCancellationFinal, CancelledRow, TiersOk, Request
<1>11. CASE RejectCancellation(u, r)
  BY <1>11 DEF TypeOK, RejectCancellation, TiersOk, Request
<1> QED BY <1>2, <1>3, <1>4, <1>5, <1>6, <1>7, <1>8, <1>9, <1>10, <1>11 DEF Decide

\* Whatever changes a workflow, the tiers counted as standing stay in it.
LEMMA SurroundingsTiers ==
    ASSUME TypeOK, Surroundings
    PROVE  \A r \in RequestIds :
              /\ standing'[r] \subseteq standing[r]
              /\ r \in Filed /\ standing[r] \subseteq DOMAIN TiersOf(r)
                    => standing'[r] \subseteq DOMAIN TiersOf(r)'
<1> USE DEF orgVars
<1>1. req' = req
  BY SurroundingsShape
<1>2. \A r \in Filed : req[r].employee \in Employees
  BY DEF TypeOK, Request
<1>3. ASSUME NEW u \in Users, NEW d \in Departments,
             NEW tiers \in SavableChains \cup {NoTiers}, SetWorkflow(u, d, tiers),
             NEW r \in RequestIds
      PROVE  /\ standing'[r] \subseteq standing[r]
             /\ r \in Filed /\ standing[r] \subseteq DOMAIN TiersOf(r)
                   => standing'[r] \subseteq DOMAIN TiersOf(r)'
  <2>1. standing'[r] = IF r \in Filed /\ DepartmentOf[req[r].employee] = d
                       THEN standing[r] \cap DOMAIN tiers ELSE standing[r]
    BY <1>3 DEF SetWorkflow
  <2>2. CASE r \in Filed /\ DepartmentOf[req[r].employee] = d
    <3>1. TiersOf(r)' = tiers
      BY <1>1, <1>3, <2>2, NullAssumption DEF SetWorkflow, ActiveTiers, TypeOK
    <3> QED BY <2>1, <2>2, <3>1
  <2>3. CASE r \in Filed /\ DepartmentOf[req[r].employee] # d
    <3>1. TiersOf(r)' = TiersOf(r)
      BY <1>1, <1>2, <1>3, <2>3, DirectoryAssumption DEF SetWorkflow, ActiveTiers, TypeOK
    <3> QED BY <2>1, <2>3, <3>1
  <2>4. CASE r \notin Filed
    BY <2>1, <2>4
  <2> QED BY <2>2, <2>3, <2>4
<1>4. ASSUME NEW u \in Users, DeleteLogin(u), NEW r \in RequestIds
      PROVE  /\ standing'[r] \subseteq standing[r]
             /\ r \in Filed /\ standing[r] \subseteq DOMAIN TiersOf(r)
                   => standing'[r] \subseteq DOMAIN TiersOf(r)'
  <2>1. standing' = standing
    BY <1>4 DEF DeleteLogin
  <2>2. \A d \in Departments : DOMAIN workflow'[d] = DOMAIN workflow[d]
    BY <1>4 DEF DeleteLogin
  <2>3. r \in Filed => DOMAIN TiersOf(r)' = DOMAIN TiersOf(r)
    BY <1>1, <1>2, <2>2, DirectoryAssumption DEF ActiveTiers
  <2> QED BY <2>1, <2>3
<1>5. CASE UNCHANGED <<workflow, standing>>
  BY <1>1, <1>5 DEF ActiveTiers
<1> QED BY <1>3, <1>4, <1>5, InputAssumption
        DEF Surroundings, SetHead, SwitchLogin, AdjustBalance, ProcessDay, CorrectAttendance,
            NextDay

\* Every step keeps every standing tier below the current one approved.
LEMMA TiersStep ==
    ASSUME TypeOK, CancellationInStep, TiersPassed, NoTierSkipped, [Next]_vars
    PROVE  TiersPassed' /\ NoTierSkipped'
<1>1. /\ \A s \in Filed : TiersOk(req[s], standing[s], DOMAIN TiersOf(s), approved[s])
      /\ \A s \in RequestIds \ Filed : standing[s] = {}
  BY DEF TiersPassed, NoTierSkipped, TiersOk
<1>2. SUFFICES
        /\ \A s \in Filed' : TiersOk(req'[s], standing'[s], DOMAIN TiersOf(s)', approved'[s])
        /\ \A s \in RequestIds \ Filed' : standing'[s] = {}
  BY DEF TiersPassed, NoTierSkipped, TiersOk
<1>3. ASSUME NEW u \in Users, NEW r \in RequestIds, Create(u, r)
      PROVE  /\ \A s \in Filed' : TiersOk(req'[s], standing'[s], DOMAIN TiersOf(s)', approved'[s])
             /\ \A s \in RequestIds \ Filed' : standing'[s] = {}
  <2>1. \A s \in RequestIds : s # r => /\ standing'[s] = standing[s]
                                       /\ approved'[s] = approved[s]
                                       /\ TiersOf(s)' = TiersOf(s)
    BY <1>3, CreateShape DEF TypeOK, ActiveTiers
  <2>2. TiersOk(req'[r], standing'[r], DOMAIN TiersOf(r)', approved'[r])
    <3> DEFINE orders == DOMAIN ActiveTiers(req'[r].employee, workflow)
    <3>1. DOMAIN TiersOf(r)' = orders
      BY <1>3, CreateShape DEF ActiveTiers
    <3>2. CASE /\ req'[r].status = "PENDING" /\ req'[r].tier = FirstIn(orders)
               /\ standing' = [standing EXCEPT ![r] = orders]
      <4>1. standing'[r] = orders
        BY <3>2 DEF TypeOK
      <4>2. orders \in SUBSET Nat
        BY <1>3, CreateShape, ActiveTiersType, BoundsAssumption DEF TierOrders, Request
      <4> DEFINE first == FirstIn(orders)
      <4>3. /\ first = Null => orders = {}
            /\ first # Null => first \in orders /\ \A n \in orders : first <= n
        BY <4>2, FirstTier
      <4> HIDE DEF orders, first
      <4>4. ASSUME first # Null, NEW n \in orders PROVE ~(n < first)
        <5>1. first \in Nat /\ n \in Nat /\ first <= n
          BY <4>2, <4>3, <4>4
        <5> QED BY <5>1
      <4>5. TiersOk(req'[r], orders, orders, approved'[r])
        BY <3>2, <4>3, <4>4 DEF TiersOk, first
      <4> QED BY <3>1, <4>1, <4>5
    <3>3. CASE req'[r].status = "APPROVED" /\ UNCHANGED standing
      BY <1>1, <1>3, <3>3, CreateShape DEF TiersOk
    <3> QED BY <1>3, <3>2, <3>3, CreateShape
  <2> QED BY <1>1, <1>3, <2>1, <2>2, CreateShape
<1>4. ASSUME NEW u \in Users, NEW r \in RequestIds, Decide(u, r)
      PROVE  /\ \A s \in Filed' : TiersOk(req'[s], standing'[s], DOMAIN TiersOf(s)', approved'[s])
             /\ \A s \in RequestIds \ Filed' : standing'[s] = {}
  <2>1. \A s \in RequestIds : TiersOf(s)' = TiersOf(s)
    BY <1>4, DecideShape DEF ActiveTiers, SameLeave
  <2>2. /\ TiersOk(req'[r], standing[r], DOMAIN TiersOf(r), approved'[r])
        /\ \A s \in RequestIds : s # r => approved'[s] = approved[s]
    BY <1>1, <1>4, DecideShape, DecideTiers
  <2> QED BY <1>1, <1>4, <2>1, <2>2, DecideShape
<1>5. CASE Surroundings
  <2>1. req' = req /\ approved' = approved
    BY <1>5, SurroundingsShape
  <2> QED BY <1>1, <1>5, <2>1, SurroundingsTiers DEF TiersOk
<1>6. CASE UNCHANGED vars
  BY <1>1, <1>6 DEF vars, ActiveTiers
<1> QED BY <1>3, <1>4, <1>5, <1>6 DEF Next

(***************************************************************************)
(* The theorems.                                                           *)
(***************************************************************************)
\* The inductive invariant holds at the start.
LEMMA InitIInv == Init => IInv
<1> SUFFICES ASSUME Init PROVE IInv
  OBVIOUS
<1>1. TypeOK
  BY InitType
<1>2. Filed = {} /\ \A r \in RequestIds : standing[r] = {}
  BY DEF Init
<1>3. \A k \in Employees \X Days : attendance[k] = "NONE"
  BY DEF Init
<1> QED BY <1>1, <1>2, <1>3
        DEF IInv, NoOverlap, Live, GrantedDaysMarked, Granted, NoOrphanPlaceholder,
            CancellationInStep, HrAdminClosesChain, TiersPassed, NoTierSkipped

\* Every step preserves the inductive invariant.
LEMMA NextIInv == IInv /\ [Next]_vars => IInv'
<1> SUFFICES ASSUME IInv, [Next]_vars PROVE IInv'
  OBVIOUS
<1>1. TypeOK'
  BY TypeStep DEF IInv
<1>2. NoOverlap'
  BY NoOverlapStep DEF IInv
<1>3. GrantedDaysMarked'
  BY GrantedDaysMarkedStep DEF IInv
<1>4. NoOrphanPlaceholder'
  BY NoOrphanPlaceholderStep DEF IInv
<1>5. CancellationInStep' /\ HrAdminClosesChain'
  BY CancellationStep DEF IInv
<1>6. TiersPassed' /\ NoTierSkipped'
  BY TiersStep DEF IInv
<1> QED BY <1>1, <1>2, <1>3, <1>4, <1>5, <1>6 DEF IInv

\* The inductive invariant holds in every reachable state: the properties below
\* together with TiersPassed, which says how far along its chain a request is.
THEOREM Invariance == Spec => []IInv
BY InitIInv, NextIInv, PTL DEF Spec

\* The overlap guard of create() is enough: two live requests of one employee
\* never share a day.
THEOREM OverlapNever == Spec => []NoOverlap
<1>1. IInv => NoOverlap
  BY DEF IInv
<1> QED BY <1>1, Invariance, PTL

\* Every day of a granted leave keeps an attendance row.
THEOREM GrantedDaysStayMarked == Spec => []GrantedDaysMarked
<1>1. IInv => GrantedDaysMarked
  BY DEF IInv
<1> QED BY <1>1, Invariance, PTL

\* A placeholder row that was not corrected by hand has its granted leave.
THEOREM PlaceholdersHaveLeaves == Spec => []NoOrphanPlaceholder
<1>1. IInv => NoOrphanPlaceholder
  BY DEF IInv
<1> QED BY <1>1, Invariance, PTL

\* What a balance shows as used is what its granted leaves were charged, however
\* many requests have been filed.
THEOREM BalancesMatchGranted == Spec => []UsedMatchesGranted
<1> DEFINE Inv == IsFiniteSet(Filed) /\ UsedMatchesGranted
<1>1. Init => Inv
  <2> SUFFICES ASSUME Init PROVE Inv
    OBVIOUS
  <2>1. Filed = {} /\ \A b : GrantedOn(b) = {}
    BY DEF Init, GrantedOn, Granted
  <2>2. \A b \in DOMAIN used : used[b] = 0
    BY DEF Init
  <2> QED BY <2>1, <2>2, FS_EmptySet, SumEmpty DEF UsedMatchesGranted
<1>2. Inv /\ IInv /\ [Next]_vars => Inv'
  BY UsedStep DEF IInv
<1>3. Inv => UsedMatchesGranted
  OBVIOUS
<1> HIDE DEF Inv
<1> QED BY <1>1, <1>2, <1>3, Invariance, PTL DEF Spec

\* A cancellation chain runs over a granted leave only, and what it leaves behind
\* agrees with the request.
THEOREM CancellationChainInStep == Spec => []CancellationInStep
<1>1. IInv => CancellationInStep
  BY DEF IInv
<1> QED BY <1>1, Invariance, PTL

\* Only ADMIN or HR closes a cancellation chain, however its tiers are edited.
THEOREM CancellationClosedByHr == Spec => []HrAdminClosesChain
<1>1. IInv => HrAdminClosesChain
  BY DEF IInv
<1> QED BY <1>1, Invariance, PTL

\* No tier that stood in the chain since the request was filed is passed over.
THEOREM TiersAllPassed == Spec => []NoTierSkipped
<1>1. IInv => NoTierSkipped
  BY DEF IInv
<1> QED BY <1>1, Invariance, PTL

\* The other services never take a punch away.
LEMMA SurroundingsPunches ==
    ASSUME TypeOK, Surroundings, NEW k \in Employees \X Days,
           attendance[k] \in {"PUNCHED", "OVERTIME"}
    PROVE  attendance'[k] \in {"PUNCHED", "OVERTIME"}
<1> USE DEF orgVars, dbVars
<1>1. ASSUME NEW e \in Employees, NEW d \in PunchDays, NEW row \in Rows, ProcessDay(e, d, row)
      PROVE  attendance'[k] \in {"PUNCHED", "OVERTIME"}
  BY <1>1 DEF ProcessDay, TypeOK
<1>2. ASSUME NEW e \in Employees, NEW d \in CorrectDays, NEW row \in Rows,
             CorrectAttendance(e, d, row)
      PROVE  attendance'[k] = attendance[k]
  BY <1>2 DEF CorrectAttendance, TypeOK
<1>3. CASE UNCHANGED attendance
  BY <1>3
<1> QED BY <1>1, <1>2, <1>3
        DEF Surroundings, SetWorkflow, SetHead, SwitchLogin, DeleteLogin, AdjustBalance, NextDay

\* A punched day outlives every decision about a leave.
THEOREM PunchesSurvive == Spec => PunchesKept
<1>1. ASSUME IInv, [Next]_vars,
             NEW k \in Employees \X Days, attendance[k] \in {"PUNCHED", "OVERTIME"}
      PROVE  attendance'[k] \in {"PUNCHED", "OVERTIME"}
  <2>1. TypeOK /\ CancellationInStep
    BY <1>1 DEF IInv
  <2>2. ASSUME NEW u \in Users, NEW r \in RequestIds, Create(u, r)
        PROVE  attendance'[k] = attendance[k]
    <3>1. \/ UNCHANGED attendance
          \/ ApplyApproval(req'[r].employee, req'[r].type, req'[r].first,
                           req'[r].last, req'[r].charge)
      BY <2>1, <2>2, CreateShape
    <3> QED BY <1>1, <3>1 DEF ApplyApproval
  <2>3. ASSUME NEW u \in Users, NEW r \in RequestIds, Decide(u, r)
        PROVE  attendance'[k] = attendance[k]
    <3>1. \/ UNCHANGED attendance
          \/ ApplyApproval(req[r].employee, req[r].type, req[r].first, req[r].last, req[r].charge)
          \/ ReverseApproval(r)
      BY <2>1, <2>3, DecideShape DEF Grants, Revokes, Keeps
    <3> QED BY <1>1, <3>1 DEF ApplyApproval, ReverseApproval
  <2>4. CASE Surroundings
    BY <1>1, <2>1, <2>4, SurroundingsPunches
  <2>5. CASE UNCHANGED vars
    BY <1>1, <2>5 DEF vars
  <2> QED BY <1>1, <2>2, <2>3, <2>4, <2>5 DEF Next
<1>2. IInv /\ [Next]_vars
          => [\A k \in Employees \X Days :
                attendance[k] \in {"PUNCHED", "OVERTIME"}
                    => attendance'[k] \in {"PUNCHED", "OVERTIME"}]_vars
  BY <1>1
<1> QED BY <1>2, Invariance, PTL DEF Spec, PunchesKept

(***************************************************************************)
(* Refinement: every step is a step of the lifecycle or leaves it alone.   *)
(***************************************************************************)
\* Where the lifecycle says a request stands, read off its row.
LEMMA PhaseNames ==
    ASSUME NEW row \in Request
    PROVE  /\ row # Null
           /\ row.status = "PENDING" => PhaseOf(row) = "OPEN"
           /\ row.status = "APPROVED" => PhaseOf(row) = "GRANTED"
           /\ row.status = "REJECTED" => PhaseOf(row) = "REFUSED"
           /\ row.status = "CANCELLED" => PhaseOf(row) = "WITHDRAWN"
           /\ HolderOf(row) = row.employee
           /\ SpanOf(row) = row.first .. row.last
<1>1. row # Null
  BY NullRowAssumption
<1> QED BY <1>1 DEF PhaseOf, HolderOf, SpanOf, Request

\* A row inserted for days that are free is the lifecycle's File.
LEMMA FilingFiles ==
    ASSUME TypeOK, NEW r \in RequestIds \ Filed, req'[r] \in Request,
           \A s \in RequestIds : s # r => req'[s] = req[s],
           req'[r].status \in {"PENDING", "APPROVED"}, req'[r].first <= req'[r].last,
           \A s \in RequestIds :
              Live(s) /\ req[s].employee = req'[r].employee => ~Overlap(req[s], req'[r])
    PROVE  Lifecycle!Next
<1> DEFINE row == req'[r]
           days == row.first .. row.last
           p == PhaseOf(row)
<1>1. p \in {"OPEN", "GRANTED"}
  BY PhaseNames
<1>2. row.employee \in Employees /\ row.first \in Days /\ row.last \in Days
  BY DEF Request
<1>3. days \in SUBSET (1 .. MaxDay) /\ days # {}
  BY <1>2, BoundsAssumption DEF Days
<1>4. ASSUME NEW s \in RequestIds, Live(s), req[s].employee = row.employee
      PROVE  (req[s].first .. req[s].last) \cap days = {}
  <2>1. req[s] \in Request
    BY <1>4 DEF Live, TypeOK
  <2>2. ~Overlap(req[s], row)
    BY <1>4
  <2> QED BY <1>2, <2>1, <2>2, BoundsAssumption DEF Overlap, Request, Days
<1>5. ASSUME NEW s \in RequestIds, PhaseOf(req[s]) \in {"OPEN", "GRANTED"}
      PROVE  Live(s)
  <2>1. req[s] \in Request \cup {Null}
    BY DEF TypeOK
  <2>2. CASE req[s] = Null
    BY <1>5, <2>2 DEF PhaseOf
  <2>3. CASE req[s] \in Request
    BY <1>5, <2>3, PhaseNames DEF Live, Request
  <2> QED BY <2>1, <2>2, <2>3
<1>6. \A s \in RequestIds :
         PhaseOf(req[s]) \in {"OPEN", "GRANTED"} /\ HolderOf(req[s]) = row.employee
            => SpanOf(req[s]) \cap days = {}
  BY <1>4, <1>5 DEF HolderOf, SpanOf, Live
<1>7. PICK e \in Employees, D \in SUBSET (1 .. MaxDay), q \in {"OPEN", "GRANTED"} :
         e = row.employee /\ D = days /\ q = p
  BY <1>1, <1>2, <1>3
<1>8. PhaseOf(req[r]) = "UNFILED" /\ HolderOf(row) = e /\ SpanOf(row) = D
  BY <1>7, PhaseNames DEF PhaseOf
<1> HIDE DEF row, days, p
<1>9. /\ [s \in RequestIds |-> PhaseOf(req'[s])]
             = [[s \in RequestIds |-> PhaseOf(req[s])] EXCEPT ![r] = q]
       /\ [s \in RequestIds |-> HolderOf(req'[s])]
             = [[s \in RequestIds |-> HolderOf(req[s])] EXCEPT ![r] = e]
       /\ [s \in RequestIds |-> SpanOf(req'[s])]
             = [[s \in RequestIds |-> SpanOf(req[s])] EXCEPT ![r] = D]
  BY <1>7, <1>8 DEF row, p
<1>10. Lifecycle!File(r, e, D, q)
  BY <1>3, <1>6, <1>7, <1>8, <1>9 DEF Lifecycle!File, Lifecycle!Reserves
<1> QED BY <1>10 DEF Lifecycle!Next

\* A row that is rewritten moves its request, or leaves the lifecycle alone.
LEMMA RewritingMoves ==
    ASSUME NEW r \in RequestIds, req[r] \in Request, req'[r] \in Request, SameLeave(r),
           \A s \in RequestIds : s # r => req'[s] = req[s],
           \/ req[r].status = "PENDING" /\ req'[r].status \in {"APPROVED", "REJECTED"}
           \/ req[r].status # "CANCELLED" /\ req'[r].status = "CANCELLED"
           \/ req'[r].status = req[r].status
    PROVE  [Lifecycle!Next]_Lifecycle!vars
<1>1. HolderOf(req'[r]) = HolderOf(req[r]) /\ SpanOf(req'[r]) = SpanOf(req[r])
  BY PhaseNames DEF SameLeave
<1>2. /\ [s \in RequestIds |-> HolderOf(req'[s])] = [s \in RequestIds |-> HolderOf(req[s])]
      /\ [s \in RequestIds |-> SpanOf(req'[s])] = [s \in RequestIds |-> SpanOf(req[s])]
      /\ [s \in RequestIds |-> PhaseOf(req'[s])]
            = [[s \in RequestIds |-> PhaseOf(req[s])] EXCEPT ![r] = PhaseOf(req'[r])]
  BY <1>1
<1>3. CASE req[r].status = "PENDING" /\ req'[r].status = "APPROVED"
  <2>1. PhaseOf(req[r]) = "OPEN" /\ PhaseOf(req'[r]) = "GRANTED"
    BY <1>3, PhaseNames
  <2>2. Lifecycle!Grant(r)
    BY <1>2, <2>1 DEF Lifecycle!Grant, Lifecycle!Move
  <2> QED BY <2>2 DEF Lifecycle!Next
<1>4. CASE req[r].status = "PENDING" /\ req'[r].status = "REJECTED"
  <2>1. PhaseOf(req[r]) = "OPEN" /\ PhaseOf(req'[r]) = "REFUSED"
    BY <1>4, PhaseNames
  <2>2. Lifecycle!Refuse(r)
    BY <1>2, <2>1 DEF Lifecycle!Refuse, Lifecycle!Move
  <2> QED BY <2>2 DEF Lifecycle!Next
<1>5. CASE req[r].status # "CANCELLED" /\ req'[r].status = "CANCELLED"
  <2>1. req[r].status \in {"PENDING", "APPROVED", "REJECTED"}
    BY <1>5 DEF Request
  <2>2. PhaseOf(req[r]) \in {"OPEN", "GRANTED", "REFUSED"} /\ PhaseOf(req'[r]) = "WITHDRAWN"
    BY <1>5, <2>1, PhaseNames
  <2>3. Lifecycle!Withdraw(r)
    BY <1>2, <2>2 DEF Lifecycle!Withdraw, Lifecycle!Move
  <2> QED BY <2>3 DEF Lifecycle!Next
<1>6. CASE req'[r].status = req[r].status
  <2>1. PhaseOf(req'[r]) = PhaseOf(req[r])
    BY <1>6, PhaseNames DEF Request
  <2> QED BY <1>2, <2>1 DEF Lifecycle!vars
<1> QED BY <1>3, <1>4, <1>5, <1>6

\* Of LeaveRequests, create() files and every decision moves or leaves alone.
LEMMA CreateFiles ==
    ASSUME IInv, NEW u \in Users, NEW r \in RequestIds, Create(u, r)
    PROVE  Lifecycle!Next
<1>1. TypeOK
  BY DEF IInv
<1> QED BY <1>1, CreateShape, FilingFiles

LEMMA DecideMoves ==
    ASSUME IInv, NEW u \in Users, NEW r \in RequestIds, Decide(u, r)
    PROVE  [Lifecycle!Next]_Lifecycle!vars
<1>1. TypeOK /\ CancellationInStep
  BY DEF IInv
<1>2. /\ req[r] \in Request /\ req'[r] \in Request /\ SameLeave(r)
      /\ \A s \in RequestIds : s # r => req'[s] = req[s]
  BY <1>1, DecideShape
<1>3. \/ req[r].status = "PENDING" /\ req'[r].status \in {"APPROVED", "REJECTED"}
      \/ req[r].status # "CANCELLED" /\ req'[r].status = "CANCELLED"
      \/ req'[r].status = req[r].status
  BY <1>1, DecideShape DEF Grants, Revokes, Keeps
<1> QED BY <1>2, <1>3, RewritingMoves

\* The service implements the lifecycle promised for every request.
THEOREM LifecycleImplemented == Spec => ImplementsLifecycle
<1>1. Init => Lifecycle!Init
  BY DEF Init, Lifecycle!Init, PhaseOf, HolderOf, SpanOf
<1>2. IInv /\ [Next]_vars => [Lifecycle!Next]_Lifecycle!vars
  <2> SUFFICES ASSUME IInv, [Next]_vars PROVE [Lifecycle!Next]_Lifecycle!vars
    OBVIOUS
  <2>1. CASE \E u \in Users, r \in RequestIds : Create(u, r)
    BY <2>1, CreateFiles
  <2>2. CASE \E u \in Users, r \in RequestIds : Decide(u, r)
    BY <2>2, DecideMoves
  <2>3. CASE Surroundings \/ UNCHANGED vars
    <3>1. req' = req
      BY <2>3, SurroundingsShape DEF vars, IInv
    <3> QED BY <3>1 DEF Lifecycle!vars
  <2> QED BY <2>1, <2>2, <2>3 DEF Next
<1> QED BY <1>1, <1>2, Invariance, PTL DEF Spec, Lifecycle!Spec, ImplementsLifecycle

(***************************************************************************)
(* The screens.  Their walk of the tiers and the checks of the handlers    *)
(* agree because a request stands at a tier or at none, and a cancellation *)
(* that is waiting stands at one, over an APPROVED leave.                  *)
(***************************************************************************)
\* The walk and the checks agree on every request, for every login.
LEMMA WalkAgrees == TypeOK /\ CancellationInStep => ScreensOfferDecisions
<1> SUFFICES ASSUME TypeOK, CancellationInStep, NEW u \in Users, NEW r \in Filed
             PROVE  /\ Deciding(u, r) /\ (InPortal(u) => req[r].tier # Null) => OffersDecision(u, r)
                    /\ DecidingCancellation(u, r) => OffersCancellation(u, r)
                    /\ InPortal(u) /\ SignedIn(u) =>
                          /\ OffersDecision(u, r) =>
                                Deciding(u, r) /\ (InPortal(u) => req[r].tier # Null)
                          /\ OffersCancellation(u, r) => DecidingCancellation(u, r)
                          /\ RequestingCancellation(u, r) => OffersOwnCancel(u, r)
  BY DEF ScreensOfferDecisions
<1>1. Null \notin DOMAIN TiersOf(r)
  <2>1. req[r].employee \in Employees /\ workflow \in [Departments -> Chain]
    BY DEF TypeOK, Request
  <2>2. DOMAIN TiersOf(r) \subseteq TierOrders
    BY <2>1, ActiveTiersType DEF Chain
  <2> QED BY <2>2, NullAssumption, BoundsAssumption DEF TierOrders
<1>2. req[r].cStatus = "PENDING" => req[r].status = "APPROVED" /\ req[r].cTier # Null
  BY DEF CancellationInStep
<1>3. Deciding(u, r) /\ (InPortal(u) => req[r].tier # Null) => OffersDecision(u, r)
  BY DEF Deciding, MayDecide, MayActOnTier, OffersDecision, CanDecide, InPortal
<1>4. DecidingCancellation(u, r) => OffersCancellation(u, r)
  BY <1>2 DEF DecidingCancellation, MayDecideCancellation, MayActOnTier, OffersCancellation,
              CanDecideCancellation, CancellationOrders, InPortal
<1>5. InPortal(u) /\ SignedIn(u) /\ OffersDecision(u, r) => Deciding(u, r) /\ req[r].tier # Null
  BY <1>1 DEF Deciding, MayDecide, MayActOnTier, OffersDecision, CanDecide
<1>6. InPortal(u) /\ SignedIn(u) /\ OffersCancellation(u, r) => DecidingCancellation(u, r)
  BY <1>2 DEF DecidingCancellation, MayDecideCancellation, MayActOnTier, OffersCancellation,
              CanDecideCancellation, InPortal
<1>7. InPortal(u) /\ RequestingCancellation(u, r) => OffersOwnCancel(u, r)
  BY DEF RequestingCancellation, OffersOwnCancel
<1> QED BY <1>3, <1>4, <1>5, <1>6, <1>7

\* A decision is offered on a screen to whoever may take it, and in a portal to
\* nobody else.
THEOREM DecisionsAreOffered == Spec => []ScreensOfferDecisions
<1>1. IInv => ScreensOfferDecisions
  BY WalkAgrees DEF IInv
<1> QED BY <1>1, Invariance, PTL
=============================================================================
