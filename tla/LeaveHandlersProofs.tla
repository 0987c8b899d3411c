-------------------------- MODULE LeaveHandlersProofs --------------------------
(* Safety of LeaveHandlers for every value of its constants. *)
EXTENDS LeaveHandlers, LeaveRequestsProofs

(***************************************************************************)
(* Type correctness, for any number of handlers that overlap in any order. *)
(***************************************************************************)
\* What a running handler may rely on: a handler that decides has its request,
\* and the tier it records, or moves the request to, is an order of a tier.
JobOk(j, filed) ==
    /\ j.op # "CREATE" => j.id # Null
    /\ j.id # Null => j.id \in filed
    /\ j.op = "APPROVE" => j.next \in TierOrders \cup {Null}
    /\ j.op = "APPROVE" /\ j.at \in {"NEXT", "RECORD"} => j.row.tier \in TierOrders
    /\ j.op = "APPROVE_CANCEL" /\ j.at = "NEXT" => j.row.cTier # Null

JobsOk == \A h \in Handlers : job[h] # Null => JobOk(job[h], Filed)

HTypeInv == HTypeOK /\ JobsOk

\* A filed request stays filed, so what holds of a waiting job goes on holding.
LEMMA JobsWait ==
    ASSUME HTypeInv, Filed \subseteq Filed', NEW h \in Handlers,
           NEW j \in Job \cup {Null}, job' = [job EXCEPT ![h] = j],
           j # Null => JobOk(j, Filed')
    PROVE  job' \in [Handlers -> Job \cup {Null}] /\ JobsOk'
<1>1. job'[h] = j /\ \A g \in Handlers : g # h => job'[g] = job[g]
  BY DEF HTypeInv, HTypeOK
<1>2. job' \in [Handlers -> Job \cup {Null}]
  BY DEF HTypeInv, HTypeOK
<1>3. \A g \in Handlers : job'[g] # Null => JobOk(job'[g], Filed')
  BY <1>1 DEF HTypeInv, JobsOk, JobOk
<1> QED BY <1>2, <1>3 DEF JobsOk

\* The job of a handler that starts.
LEMMA BegunJob ==
    ASSUME HTypeInv, NEW op \in Ops, NEW at \in Awaits, NEW u \in Users,
           NEW id \in RequestIds \cup {Null}, NEW row \in Request,
           op # "CREATE" => id # Null, id # Null => id \in Filed,
           op \in {"APPROVE", "APPROVE_CANCEL"} => at = "AUTHORISE"
    PROVE  LET j == [op |-> op, at |-> at, user |-> u, id |-> id, row |-> row,
                     next |-> Null, there |-> {}, seen |-> 0, day |-> row.first]
           IN  j \in Job /\ JobOk(j, Filed)
<1> DEFINE j == [op |-> op, at |-> at, user |-> u, id |-> id, row |-> row,
                 next |-> Null, there |-> {}, seen |-> 0, day |-> row.first]
<1>1. row.first \in Days
  BY DEF Request
<1>2. j \in Job
  BY <1>1 DEF Job
<1>3. JobOk(j, Filed)
  BY DEF JobOk
<1> QED BY <1>2, <1>3

\* Every first step is well typed.
LEMMA StartType ==
    ASSUME HTypeInv, NEW h \in Handlers, Start(h)
    PROVE  /\ job' \in [Handlers -> Job \cup {Null}] /\ JobsOk'
           /\ UNCHANGED <<dbVars, standing>>
<1>1. UNCHANGED <<dbVars, standing>>
  BY DEF Start, StartCreate, StartDecision, StartCancel, StartRequest, StartCancelDecision, ReadsOnly
<1>2. Filed' = Filed
  BY <1>1 DEF dbVars, Filed
<1>3. ASSUME NEW op \in Ops, NEW at \in Awaits, NEW u \in Users,
             NEW id \in RequestIds \cup {Null}, NEW row \in Request,
             op # "CREATE" => id # Null, id # Null => id \in Filed,
             op \in {"APPROVE", "APPROVE_CANCEL"} => at = "AUTHORISE",
             Begin(h, op, at, u, id, row)
      PROVE  job' \in [Handlers -> Job \cup {Null}] /\ JobsOk'
  <2> DEFINE j == [op |-> op, at |-> at, user |-> u, id |-> id, row |-> row,
                   next |-> Null, there |-> {}, seen |-> 0, day |-> row.first]
  <2>1. j \in Job /\ JobOk(j, Filed)
    BY <1>3, BegunJob
  <2>2. job' = [job EXCEPT ![h] = j]
    BY <1>3 DEF Begin
  <2> HIDE DEF j
  <2> QED BY <1>2, <2>1, <2>2, JobsWait
<1>4. \A r \in Filed : req[r] \in Request /\ r \in RequestIds /\ r # Null
  BY NullJobAssumption DEF HTypeInv, HTypeOK, TypeOK, Filed
<1>5. ASSUME NEW u \in Users, NEW e \in Employees, NEW t \in LeaveTypes, NEW first \in Days,
             NEW last \in Days, NEW session, NEW override,
             StartCreate(h, u, e, t, first, last, session, override)
      PROVE  job' \in [Handlers -> Job \cup {Null}] /\ JobsOk'
  <2> DEFINE row == NewRequest(e, t, first, last, session, Null,
                               IF NeedsApproval[t] THEN "PENDING" ELSE "APPROVED",
                               IF NeedsApproval[t] THEN Null ELSE u)
             at == IF override THEN "ROUTE" ELSE "FUND"
  <2>1. row \in Request
    BY NewRequestType DEF Statuses
  <2>2. at \in Awaits /\ "CREATE" \in Ops
    BY DEF Awaits, Ops
  <2>3. Begin(h, "CREATE", at, u, Null, row)
    BY <1>5 DEF StartCreate
  <2> HIDE DEF row, at
  <2> QED BY <1>3, <2>1, <2>2, <2>3
<1>6. ASSUME NEW u \in Users, NEW r \in RequestIds, StartDecision(h, u, r)
      PROVE  job' \in [Handlers -> Job \cup {Null}] /\ JobsOk'
  <2>1. r \in Filed /\ \E op \in {"APPROVE", "REJECT"} : Begin(h, op, "AUTHORISE", u, r, req[r])
    BY <1>6 DEF StartDecision
  <2> QED BY <1>3, <1>4, <2>1 DEF Ops, Awaits
<1>7. ASSUME NEW u \in Users, NEW r \in RequestIds, StartCancel(h, u, r)
      PROVE  job' \in [Handlers -> Job \cup {Null}] /\ JobsOk'
  <2> DEFINE at == IF req[r].status = "APPROVED" THEN "BALANCE" ELSE "WRITE"
  <2>1. r \in Filed /\ Begin(h, "CANCEL", at, u, r, req[r])
    BY <1>7 DEF StartCancel, Cancelling
  <2>2. at \in Awaits /\ "CANCEL" \in Ops
    BY DEF Awaits, Ops
  <2> HIDE DEF at
  <2> QED BY <1>3, <1>4, <2>1, <2>2
<1>8. ASSUME NEW u \in Users, NEW r \in RequestIds, StartRequest(h, u, r)
      PROVE  job' \in [Handlers -> Job \cup {Null}] /\ JobsOk'
  <2>1. r \in Filed /\ Begin(h, "REQUEST", "NEXT", u, r, req[r])
    BY <1>8 DEF StartRequest
  <2> QED BY <1>3, <1>4, <2>1 DEF Ops, Awaits
<1>9. ASSUME NEW u \in Users, NEW r \in RequestIds, StartCancelDecision(h, u, r)
      PROVE  job' \in [Handlers -> Job \cup {Null}] /\ JobsOk'
  <2>1. /\ r \in Filed
        /\ \E op \in {"APPROVE_CANCEL", "REJECT_CANCEL"} :
              Begin(h, op, "AUTHORISE", u, r, req[r])
    BY <1>9 DEF StartCancelDecision
  <2> QED BY <1>3, <1>4, <2>1 DEF Ops, Awaits
<1> QED BY <1>1, <1>5, <1>6, <1>7, <1>8, <1>9 DEF Start

\* Every later step is well typed.
LEMMA StepType ==
    ASSUME HTypeInv, NEW h \in Handlers, Step(h)
    PROVE  /\ job' \in [Handlers -> Job \cup {Null}] /\ JobsOk' /\ Filed \subseteq Filed'
           /\ req' \in [RequestIds -> Request \cup {Null}]
           /\ approved' \in [RequestIds -> SUBSET TierOrders]
           /\ used' \in [Employees \X LeaveTypes \X Years -> Nat]
           /\ attendance' \in [Employees \X Days -> Rows]
           /\ standing' \in [RequestIds -> SUBSET TierOrders]
           /\ entitled' = entitled
<1> DEFINE j == job[h]
<1>1. /\ j \in Job /\ j # Null /\ JobOk(j, Filed)
      /\ j.op \in Ops /\ j.user \in Users /\ j.row \in Request /\ j.seen \in Nat /\ j.day \in Days
      /\ j.next \in (1 .. MaxTier + 1) \cup {Null} /\ j.there \subseteq TierOrders
      /\ j.id \in RequestIds \cup {Null}
  <2>1. j # Null
    BY DEF Step, Fund, Route, Insert, Authorise, AuthoriseCancel, FindNext, Record, MoveOn, Grant,
           Refuse, Withdraw, ReadBalance, WriteBalance, MarkDay, DropRows, At
  <2>2. j \in Job /\ JobOk(j, Filed)
    BY <2>1 DEF HTypeInv, HTypeOK, JobsOk
  <2> HIDE DEF j
  <2> QED BY <2>1, <2>2 DEF Job
<1>2. /\ j.row.employee \in Employees /\ j.row.type \in LeaveTypes
      /\ j.row.first \in Days /\ j.row.last \in Days /\ j.row.charge \in Nat
      /\ j.row.tier \in TierOrders \cup {Null}
      /\ j.row.cTier \in (1 .. MaxTier + 1) \cup {Null}
  <2> HIDE DEF j
  <2> QED BY <1>1 DEF Request
<1>3. Filed \subseteq RequestIds /\ \A r \in Filed : req[r] \in Request
  BY DEF HTypeInv, HTypeOK, TypeOK, Filed
<1>4. TypeOK
  BY DEF HTypeInv, HTypeOK
<1>5. LiveTiers(h) \in Chain /\ DOMAIN LiveTiers(h) \in SUBSET TierOrders /\ DOMAIN LiveTiers(h) \in SUBSET Nat
  BY <1>2, <1>4, ActiveTiersType, BoundsAssumption DEF LiveTiers, RowOf, TierOrders
<1> DEFINE Same == UNCHANGED <<dbVars, standing>>
           J == job' \in [Handlers -> Job \cup {Null}] /\ JobsOk' /\ Filed \subseteq Filed'
\* A job that only moves on to another await, or that ends.
<1>6. ASSUME NEW at \in Awaits, Goto(h, at), Filed \subseteq Filed',
             j.op = "APPROVE" /\ at \in {"NEXT", "RECORD"} => j.row.tier \in TierOrders,
             j.op = "APPROVE_CANCEL" /\ at = "NEXT" => j.row.cTier # Null
      PROVE  J
  <2> DEFINE k == [j EXCEPT !.at = at]
  <2>1. job' = [job EXCEPT ![h] = k]
    BY <1>6 DEF Goto
  <2> HIDE DEF j
  <2>2. k \in Job /\ JobOk(k, Filed')
    BY <1>1, <1>6 DEF Job, JobOk
  <2> HIDE DEF k
  <2> QED BY <1>6, <2>1, <2>2, JobsWait
<1>7. ASSUME Return(h), Filed \subseteq Filed'
      PROVE  J
  BY <1>7, JobsWait DEF Return
\* The database when a step writes none of it.
<1>8. ASSUME Same
      PROVE  /\ Filed' = Filed
             /\ req' \in [RequestIds -> Request \cup {Null}]
             /\ approved' \in [RequestIds -> SUBSET TierOrders]
             /\ used' \in [Employees \X LeaveTypes \X Years -> Nat]
             /\ attendance' \in [Employees \X Days -> Rows]
             /\ standing' \in [RequestIds -> SUBSET TierOrders]
             /\ entitled' = entitled
  BY <1>4, <1>8 DEF dbVars, TypeOK, Filed
<1>9. ASSUME Fund(h) PROVE J /\ Same
  <2>1. Same /\ (Goto(h, "ROUTE") \/ Return(h)) /\ j.op = "CREATE"
    BY <1>9 DEF Fund, ReadsOnly, At
  <2> HIDE DEF j
  <2> QED BY <1>6, <1>7, <1>8, <2>1 DEF Awaits
<1>10. ASSUME Route(h) PROVE J /\ Same
  <2> DEFINE orders == IF RowOf(h).status = "PENDING" THEN DOMAIN LiveTiers(h) ELSE {}
             row == [j.row EXCEPT !.tier = FirstIn(orders)]
             k == [j EXCEPT !.at = "INSERT", !.there = orders, !.row = row]
  <2>1. Same /\ job' = [job EXCEPT ![h] = k] /\ j.op = "CREATE"
    BY <1>1, <1>10 DEF Route, ReadsOnly, At, Job, Request
  <2>2. orders \in SUBSET TierOrders /\ orders \in SUBSET Nat
    BY <1>5
  <2>3. FirstIn(orders) \in TierOrders \cup {Null}
    BY <2>2, FirstTier
  <2> HIDE DEF j, orders
  <2>4. row \in Request
    BY <1>1, <2>3 DEF Request
  <2> HIDE DEF row
  <2>5. k \in Job /\ JobOk(k, Filed)
    BY <1>1, <2>1, <2>2, <2>4 DEF Job, JobOk, Awaits
  <2> HIDE DEF k
  <2> QED BY <1>8, <2>1, <2>5, JobsWait
<1>11. ASSUME Authorise(h) PROVE J /\ Same
  <2>1. Same /\ j.op \in {"APPROVE", "REJECT"}
    BY <1>11 DEF Authorise, ReadsOnly, At
  <2>2. \/ Return(h)
        \/ Goto(h, "WRITE")
        \/ Goto(h, "NEXT") /\ j.row.tier \in TierOrders
        \/ job' = [job EXCEPT ![h].op = "SIMPLE", ![h].at = "WRITE"]
    BY <1>5, <1>11 DEF Authorise, RowOf
  <2>3. ASSUME job' = [job EXCEPT ![h].op = "SIMPLE", ![h].at = "WRITE"] PROVE J
    <3> DEFINE k == [j EXCEPT !.op = "SIMPLE", !.at = "WRITE"]
    <3>1. job' = [job EXCEPT ![h] = k]
      BY <1>1, <2>3 DEF Job
    <3> HIDE DEF j
    <3>2. k \in Job /\ JobOk(k, Filed)
      BY <1>1, <2>1 DEF Job, JobOk, Awaits, Ops
    <3> HIDE DEF k
    <3> QED BY <1>8, <2>1, <3>1, <3>2, JobsWait
  <2> HIDE DEF j
  <2> QED BY <1>6, <1>7, <1>8, <2>1, <2>2, <2>3 DEF Awaits
<1>12. ASSUME AuthoriseCancel(h) PROVE J /\ Same
  <2>1. Same /\ j.op \in {"APPROVE_CANCEL", "REJECT_CANCEL"}
    BY <1>12 DEF AuthoriseCancel, ReadsOnly, At
  <2>2. \/ Return(h)
        \/ Goto(h, "WRITE") \/ Goto(h, "BALANCE")
        \/ Goto(h, "NEXT") /\ j.row.cTier # Null
    BY <1>12 DEF AuthoriseCancel, RowOf, MayDecideCancellation
  <2> HIDE DEF j
  <2> QED BY <1>6, <1>7, <1>8, <2>1, <2>2 DEF Awaits
<1>13. ASSUME FindNext(h) PROVE J /\ Same
  <2> DEFINE orders == CancellationOrders(LiveTiers(h))
             next == CASE j.op = "APPROVE" -> NextIn(DOMAIN LiveTiers(h), j.row.tier)
                       [] j.op = "REQUEST" -> FirstIn(orders)
                       [] j.op = "APPROVE_CANCEL" -> NextIn(orders, j.row.cTier)
             at == CASE j.op = "APPROVE" -> "RECORD"
                     [] j.op = "REQUEST" -> "WRITE"
                     [] j.op = "APPROVE_CANCEL" -> IF next = Null THEN "BALANCE" ELSE "WRITE"
             k == [j EXCEPT !.next = next, !.at = at]
  <2>1. /\ Same /\ j.op \in {"APPROVE", "REQUEST", "APPROVE_CANCEL"} /\ j.at = "NEXT"
        /\ job' = [job EXCEPT ![h] = k]
    BY <1>1, <1>13 DEF FindNext, ReadsOnly, At, Job, RowOf
  <2>2. CASE j.op = "APPROVE"
    <3>1. j.row.tier \in TierOrders /\ j.row.tier \in Nat
      BY <1>1, <2>1, <2>2, BoundsAssumption DEF JobOk, TierOrders
    <3>2. next = NextIn(DOMAIN LiveTiers(h), j.row.tier)
      BY <2>2
    <3>4. at = "RECORD"
      BY <2>2
    <3> HIDE DEF next, at
    <3>6. next = Null \/ next \in DOMAIN LiveTiers(h)
      BY <1>5, <3>1, <3>2, NextTier
    <3>7. TierOrders \subseteq 1 .. MaxTier + 1
      BY BoundsAssumption DEF TierOrders
    <3>3. next \in TierOrders \cup {Null} /\ next \in (1 .. MaxTier + 1) \cup {Null}
      BY <1>5, <3>6, <3>7
    <3> HIDE DEF j
    <3>5. k \in Job /\ JobOk(k, Filed)
      BY <1>1, <2>2, <3>1, <3>3, <3>4 DEF Job, JobOk, Awaits
    <3> HIDE DEF k
    <3> QED BY <1>8, <2>1, <3>5, JobsWait
  <2>3. CASE j.op = "REQUEST"
    <3>1. next = FirstIn(orders) /\ at = "WRITE"
      BY <2>3
    <3>2. next \in (1 .. MaxTier + 1) \cup {Null}
      BY <1>5, <3>1, CancellationSteps
    <3> HIDE DEF j, next, at
    <3>5. k \in Job /\ JobOk(k, Filed)
      BY <1>1, <2>3, <3>1, <3>2 DEF Job, JobOk, Awaits
    <3> HIDE DEF k
    <3> QED BY <1>8, <2>1, <3>5, JobsWait
  <2>4. CASE j.op = "APPROVE_CANCEL"
    <3>1. next = NextIn(orders, j.row.cTier) /\ at \in {"BALANCE", "WRITE"}
      BY <2>4
    <3>2. j.row.cTier \in 1 .. MaxTier + 1
      BY <1>1, <1>2, <2>1, <2>4 DEF JobOk
    <3> HIDE DEF next
    <3>3. next \in (1 .. MaxTier + 1) \cup {Null}
      BY <1>5, <3>1, <3>2, CancellationSteps
    <3> HIDE DEF j, at
    <3>5. k \in Job /\ JobOk(k, Filed)
      BY <1>1, <2>4, <3>1, <3>3 DEF Job, JobOk, Awaits
    <3> HIDE DEF k
    <3> QED BY <1>8, <2>1, <3>5, JobsWait
  <2> QED BY <2>1, <2>2, <2>3, <2>4
<1>14. ASSUME ReadBalance(h) PROVE J /\ Same
  <2> DEFINE seen == used[BalanceOf(h)]
             k == [j EXCEPT !.seen = seen, !.at = "SETTLE"]
  <2>1. Same /\ job' = [job EXCEPT ![h] = k]
    BY <1>1, <1>14 DEF ReadBalance, ReadsOnly, Job
  <2>2. seen \in Nat
    BY <1>2, <1>4, TypesAssumption DEF BalanceOf, RowOf, TypeOK
  <2> HIDE DEF j, seen
  <2>3. k \in Job /\ JobOk(k, Filed)
    BY <1>1, <2>2 DEF Job, JobOk, Awaits
  <2> HIDE DEF k
  <2> QED BY <1>8, <2>1, <2>3, JobsWait
\* The steps that write.
<1>15. ASSUME NEW r \in RequestIds, Insert(h, r)
       PROVE  /\ J /\ UNCHANGED <<approved, used, entitled, attendance>>
              /\ req' \in [RequestIds -> Request \cup {Null}]
              /\ standing' \in [RequestIds -> SUBSET TierOrders]
  <2>1. /\ j.op = "CREATE" /\ req' = [req EXCEPT ![r] = j.row]
        /\ standing' = [standing EXCEPT ![r] = j.there \cap DOMAIN LiveTiers(h)]
        /\ UNCHANGED <<approved, used, entitled, attendance>>
    BY <1>15 DEF Insert, At, RowOf
  <2>2. /\ req' \in [RequestIds -> Request \cup {Null}]
        /\ standing' \in [RequestIds -> SUBSET TierOrders]
    <3> HIDE DEF j
    <3> QED BY <1>1, <1>4, <2>1 DEF TypeOK
  <2>3. Filed' = Filed \cup {r}
    <3> HIDE DEF j
    <3> QED BY <1>1, <1>4, <2>1, NullRowAssumption DEF TypeOK, Filed
  <2>4. \/ Return(h)
        \/ job' = [job EXCEPT ![h].at = "BALANCE", ![h].id = r]
    BY <1>15 DEF Insert
  <2>5. ASSUME job' = [job EXCEPT ![h].at = "BALANCE", ![h].id = r] PROVE J
    <3> DEFINE k == [j EXCEPT !.at = "BALANCE", !.id = r]
    <3>1. job' = [job EXCEPT ![h] = k]
      BY <1>1, <2>5 DEF Job
    <3> HIDE DEF j
    <3>2. k \in Job /\ JobOk(k, Filed')
      BY <1>1, <2>1, <2>3, NullJobAssumption DEF Job, JobOk, Awaits
    <3> HIDE DEF k
    <3> QED BY <2>3, <3>1, <3>2, JobsWait
  <2> HIDE DEF j
  <2> QED BY <1>7, <2>1, <2>2, <2>3, <2>4, <2>5
<1>16. ASSUME Record(h)
       PROVE  /\ J /\ UNCHANGED <<req, used, entitled, attendance, standing>>
              /\ approved' \in [RequestIds -> SUBSET TierOrders]
  <2>1. /\ j.op = "APPROVE" /\ j.at = "RECORD" /\ Goto(h, "WRITE")
        /\ approved' = [approved EXCEPT ![j.id] = @ \cup {j.row.tier}]
        /\ UNCHANGED <<req, used, entitled, attendance, standing>>
    BY <1>16 DEF Record, At, RowOf
  <2>2. Filed' = Filed
    BY <2>1 DEF Filed
  <2>3. J
    <3> HIDE DEF j
    <3> QED BY <1>6, <2>1, <2>2 DEF Awaits
  <2>4. approved' \in [RequestIds -> SUBSET TierOrders]
    <3>1. j.row.tier \in TierOrders
      BY <1>1, <2>1 DEF JobOk
    <3> HIDE DEF j
    <3> QED BY <1>4, <2>1, <3>1 DEF TypeOK
  <2> QED BY <2>1, <2>3, <2>4
\* The update of the request: which rows it may leave.
<1>17. ASSUME NEW row \in Request, j.op # "CREATE", req' = [req EXCEPT ![j.id] = row]
       PROVE  Filed' = Filed /\ req' \in [RequestIds -> Request \cup {Null}]
  <2>1. j.id \in Filed
    BY <1>1, <1>17 DEF JobOk
  <2> HIDE DEF j
  <2> QED BY <1>3, <1>4, <1>17, <2>1, NullRowAssumption DEF TypeOK, Filed
<1>18. ASSUME MoveOn(h)
       PROVE  /\ J /\ WritesRow /\ req' \in [RequestIds -> Request \cup {Null}]
  <2>1. /\ j.op \in {"APPROVE", "APPROVE_CANCEL", "REQUEST"} /\ j.next # Null
        /\ WritesRow /\ Return(h)
    BY <1>18 DEF MoveOn, At
  <2> DEFINE old == req[j.id]
             row == CASE j.op = "APPROVE" -> [old EXCEPT !.tier = j.next]
                      [] j.op = "APPROVE_CANCEL" -> [old EXCEPT !.cTier = j.next]
                      [] j.op = "REQUEST" -> [old EXCEPT !.cStatus = "PENDING", !.cTier = j.next]
  <2>2. j.id \in Filed /\ old \in Request
    BY <1>1, <1>3, <2>1 DEF JobOk
  <2>3. row \in Request
    <3>1. CASE j.op = "APPROVE"
      <4>1. j.next \in TierOrders
        BY <1>1, <2>1, <3>1 DEF JobOk
      <4>2. row = [old EXCEPT !.tier = j.next]
        BY <3>1
      <4> HIDE DEF j, old, row
      <4> QED BY <2>2, <4>1, <4>2 DEF Request
    <3>2. CASE j.op = "APPROVE_CANCEL"
      <4>1. row = [old EXCEPT !.cTier = j.next]
        BY <3>2
      <4> HIDE DEF j, old, row
      <4> QED BY <1>1, <2>2, <4>1 DEF Request
    <3>3. CASE j.op = "REQUEST"
      <4>1. row = [old EXCEPT !.cStatus = "PENDING", !.cTier = j.next]
        BY <3>3
      <4> HIDE DEF j, old, row
      <4> QED BY <1>1, <2>2, <4>1 DEF Request, CancelStatuses
    <3> QED BY <2>1, <3>1, <3>2, <3>3
  <2>4. req' = [req EXCEPT ![j.id] = row]
    BY <1>3, <1>4, <1>18, <2>1, <2>2 DEF MoveOn, TypeOK, Request
  <2>5. Filed' = Filed /\ req' \in [RequestIds -> Request \cup {Null}]
    BY <1>17, <2>1, <2>3, <2>4
  <2> QED BY <1>7, <2>1, <2>5
<1>19. ASSUME Grant(h)
       PROVE  /\ J /\ WritesRow /\ req' \in [RequestIds -> Request \cup {Null}]
  <2>1. j.op \in {"APPROVE", "SIMPLE"} /\ WritesRow /\ Goto(h, "BALANCE")
    BY <1>19 DEF Grant, At
  <2> DEFINE old == req[j.id]
             row == [old EXCEPT !.status = "APPROVED",
                                !.tier = IF j.op = "APPROVE" THEN Null ELSE @,
                                !.closedBy = j.user]
  <2>2. j.id \in Filed /\ old \in Request
    BY <1>1, <1>3, <2>1 DEF JobOk
  <2>3. row \in Request
    <3> HIDE DEF j, old
    <3> QED BY <1>1, <2>2 DEF Request, Statuses
  <2>4. req' = [req EXCEPT ![j.id] = row]
    BY <1>3, <1>4, <1>19, <2>2 DEF Grant, TypeOK, Request
  <2>5. Filed' = Filed /\ req' \in [RequestIds -> Request \cup {Null}]
    BY <1>17, <2>1, <2>3, <2>4
  <2> HIDE DEF j
  <2> QED BY <1>6, <2>1, <2>5 DEF Awaits
<1>20. ASSUME Refuse(h)
       PROVE  /\ J /\ WritesRow /\ req' \in [RequestIds -> Request \cup {Null}]
  <2>1. j.op \in {"REJECT", "REJECT_CANCEL"} /\ WritesRow /\ Return(h)
    BY <1>20 DEF Refuse, At
  <2> DEFINE old == req[j.id]
             row == IF j.op = "REJECT"
                    THEN [old EXCEPT !.status = "REJECTED", !.tier = Null, !.closedBy = j.user]
                    ELSE [old EXCEPT !.cStatus = "REJECTED", !.cTier = Null]
  <2>2. j.id \in Filed /\ old \in Request
    BY <1>1, <1>3, <2>1 DEF JobOk
  <2>3. row \in Request
    <3> HIDE DEF j, old
    <3> QED BY <1>1, <2>2 DEF Request, Statuses, CancelStatuses
  <2>4. req' = [req EXCEPT ![j.id] = row]
    BY <1>3, <1>4, <1>20, <2>2 DEF Refuse, TypeOK, Request
  <2>5. Filed' = Filed /\ req' \in [RequestIds -> Request \cup {Null}]
    BY <1>17, <2>1, <2>3, <2>4
  <2> QED BY <1>7, <2>1, <2>5
<1>21. ASSUME Withdraw(h)
       PROVE  /\ J /\ WritesRow /\ req' \in [RequestIds -> Request \cup {Null}]
  <2> DEFINE row == CancelledRow(req[j.id], IF j.op = "CANCEL" THEN "NONE" ELSE "APPROVED", j.user)
  <2>1. /\ j.op \in {"CANCEL", "APPROVE_CANCEL"} /\ WritesRow /\ Return(h)
        /\ req' = [req EXCEPT ![j.id] = row]
    BY <1>21 DEF Withdraw, At
  <2>2. j.id \in Filed /\ req[j.id] \in Request
    BY <1>1, <1>3, <2>1 DEF JobOk
  <2>3. row \in Request
    <3> HIDE DEF j
    <3> QED BY <1>1, <2>2, ZenonT(40) DEF CancelledRow, Request, Statuses, CancelStatuses
  <2> HIDE DEF row
  <2>5. Filed' = Filed /\ req' \in [RequestIds -> Request \cup {Null}]
    BY <1>17, <2>1, <2>3
  <2> QED BY <1>7, <2>1, <2>5
<1>22. ASSUME WriteBalance(h)
       PROVE  /\ J /\ UNCHANGED <<req, approved, entitled, attendance, standing>>
              /\ used' \in [Employees \X LeaveTypes \X Years -> Nat]
  <2> DEFINE charge == j.row.charge
             sum == IF Granting(j.op) THEN j.seen + charge
                    ELSE IF j.seen < charge THEN 0 ELSE j.seen - charge
  <2>1. /\ UNCHANGED <<req, approved, entitled, attendance, standing>>
        /\ Goto(h, "DAYS") \/ Goto(h, "ROWS")
        /\ used' = [used EXCEPT ![BalanceOf(h)] = sum]
    BY <1>22 DEF WriteBalance, RowOf
  <2>2. sum \in Nat
    <3> HIDE DEF j
    <3> QED BY <1>1, <1>2
  <2> HIDE DEF sum
  <2>3. used' \in [Employees \X LeaveTypes \X Years -> Nat]
    BY <1>4, <2>1, <2>2 DEF TypeOK
  <2>4. Filed' = Filed
    BY <2>1 DEF Filed
  <2> HIDE DEF j
  <2> QED BY <1>6, <2>1, <2>3, <2>4 DEF Awaits
<1>23. ASSUME MarkDay(h)
       PROVE  /\ J /\ UNCHANGED <<req, approved, used, entitled, standing>>
              /\ attendance' \in [Employees \X Days -> Rows]
  <2>1. /\ UNCHANGED <<req, approved, used, entitled, standing>>
        /\ attendance' \in [Employees \X Days -> Rows]
    BY <1>4, <1>23 DEF MarkDay, TypeOK, Rows
  <2>2. Filed' = Filed
    BY <2>1 DEF Filed
  <2>3. \/ Return(h)
        \/ j.day < j.row.last /\ job' = [job EXCEPT ![h].day = @ + 1]
    BY <1>23 DEF MarkDay, RowOf
  <2>4. ASSUME j.day < j.row.last, job' = [job EXCEPT ![h].day = @ + 1] PROVE J
    <3> DEFINE k == [j EXCEPT !.day = j.day + 1]
    <3>1. job' = [job EXCEPT ![h] = k]
      BY <1>1, <2>4 DEF Job
    <3>2. j.day + 1 \in Days
      <4> HIDE DEF j
      <4> QED BY <1>1, <1>2, <2>4, BoundsAssumption DEF Days
    <3> HIDE DEF j
    <3>3. k \in Job /\ JobOk(k, Filed')
      BY <1>1, <2>2, <3>2 DEF Job, JobOk
    <3> HIDE DEF k
    <3> QED BY <2>2, <3>1, <3>3, JobsWait
  <2> HIDE DEF j
  <2> QED BY <1>7, <2>1, <2>2, <2>3, <2>4
<1>24. ASSUME DropRows(h)
       PROVE  /\ J /\ UNCHANGED <<req, approved, used, entitled, standing>>
              /\ attendance' \in [Employees \X Days -> Rows]
  <2>1. /\ UNCHANGED <<req, approved, used, entitled, standing>> /\ Goto(h, "WRITE")
        /\ attendance' \in [Employees \X Days -> Rows]
    BY <1>4, <1>24 DEF DropRows, TypeOK, Rows
  <2>2. Filed' = Filed
    BY <2>1 DEF Filed
  <2> HIDE DEF j
  <2> QED BY <1>6, <2>1, <2>2 DEF Awaits
<1>25. TypeOK => /\ req \in [RequestIds -> Request \cup {Null}]
                 /\ approved \in [RequestIds -> SUBSET TierOrders]
                 /\ used \in [Employees \X LeaveTypes \X Years -> Nat]
                 /\ attendance \in [Employees \X Days -> Rows]
                 /\ standing \in [RequestIds -> SUBSET TierOrders]
  BY DEF TypeOK
<1>26. CASE Fund(h) \/ Route(h) \/ Authorise(h) \/ AuthoriseCancel(h) \/ FindNext(h) \/ ReadBalance(h)
  <2>1. J /\ Same
    BY <1>9, <1>10, <1>11, <1>12, <1>13, <1>14, <1>26
  <2> HIDE DEF Same
  <2> QED BY <1>8, <2>1
<1>27. CASE \E r \in RequestIds : Insert(h, r)
  BY <1>4, <1>15, <1>25, <1>27
<1>28. CASE Record(h)
  BY <1>4, <1>16, <1>25, <1>28
<1>29. CASE MoveOn(h) \/ Grant(h) \/ Refuse(h) \/ Withdraw(h)
  <2>1. J /\ WritesRow /\ req' \in [RequestIds -> Request \cup {Null}]
    BY <1>18, <1>19, <1>20, <1>21, <1>29
  <2> QED BY <1>4, <1>25, <2>1 DEF WritesRow
<1>30. CASE WriteBalance(h)
  BY <1>4, <1>22, <1>25, <1>30
<1>31. CASE MarkDay(h) \/ DropRows(h)
  BY <1>4, <1>23, <1>24, <1>25, <1>31
<1> QED BY <1>26, <1>27, <1>28, <1>29, <1>30, <1>31 DEF Step

\* The first state is well typed.
LEMMA HInitType == HInit => HTypeInv
BY InitType DEF HInit, HTypeInv, HTypeOK, JobsOk

\* Every step is well typed.
LEMMA HTypeStep == HTypeInv /\ [HNext]_allVars => HTypeInv'
<1> SUFFICES ASSUME HTypeInv, [HNext]_allVars PROVE HTypeInv'
  OBVIOUS
<1>1. TypeOK
  BY DEF HTypeInv, HTypeOK
<1>2. ASSUME UNCHANGED <<orgVars, today, edited>>, entitled' = entitled,
             req' \in [RequestIds -> Request \cup {Null}],
             approved' \in [RequestIds -> SUBSET TierOrders],
             used' \in [Employees \X LeaveTypes \X Years -> Nat],
             attendance' \in [Employees \X Days -> Rows],
             standing' \in [RequestIds -> SUBSET TierOrders],
             job' \in [Handlers -> Job \cup {Null}], JobsOk'
      PROVE  HTypeInv'
  BY <1>1, <1>2 DEF TypeOK, orgVars, HTypeInv, HTypeOK
<1>3. ASSUME NEW h \in Handlers, Start(h), UNCHANGED <<orgVars, today, edited>>
      PROVE  HTypeInv'
  BY <1>1, <1>2, <1>3, StartType DEF dbVars, TypeOK
<1>4. ASSUME NEW h \in Handlers, Step(h), UNCHANGED <<orgVars, today, edited>>
      PROVE  HTypeInv'
  BY <1>2, <1>4, StepType
<1>5. ASSUME Crash, UNCHANGED <<orgVars, today, edited>>
      PROVE  HTypeInv'
  BY <1>1, <1>2, <1>5 DEF Crash, ReadsOnly, dbVars, TypeOK, JobsOk
<1>6. ASSUME Surroundings, UNCHANGED job
      PROVE  HTypeInv'
  <2>1. TypeOK' /\ Filed' = Filed
    BY <1>1, <1>6, SurroundingsType, SurroundingsShape DEF Filed
  <2> QED BY <1>6, <2>1 DEF HTypeInv, HTypeOK, JobsOk
<1>7. CASE UNCHANGED allVars
  BY <1>7 DEF allVars, vars, HTypeInv, HTypeOK, TypeOK, JobsOk, Filed
<1> QED BY <1>3, <1>4, <1>5, <1>6, <1>7 DEF HNext

\* However many handlers overlap, wherever they are interrupted and wherever the
\* server dies, the database and the jobs are of their types.
THEOREM HandlersTypeCorrect == HSpec => []HTypeOK
<1>1. HTypeInv => HTypeOK
  BY DEF HTypeInv
<1> QED BY <1>1, HInitType, HTypeStep, PTL DEF HSpec

\* A punched day outlives whatever the handlers do to a leave, however they overlap.
THEOREM PunchesSurviveOverlap == HSpec => PunchesKept
<1>1. ASSUME HTypeInv, [HNext]_allVars,
             NEW k \in Employees \X Days, attendance[k] \in {"PUNCHED", "OVERTIME"}
      PROVE  attendance'[k] \in {"PUNCHED", "OVERTIME"}
  <2>1. TypeOK
    BY <1>1 DEF HTypeInv, HTypeOK
  <2>2. ASSUME NEW h \in Handlers, Start(h)
        PROVE  attendance' = attendance
    BY <1>1, <2>2, StartType DEF dbVars
  <2>3. ASSUME NEW h \in Handlers, Step(h)
        PROVE  attendance'[k] = attendance[k]
    <3>1. CASE MarkDay(h) \/ DropRows(h)
      BY <1>1, <2>1, <3>1 DEF MarkDay, DropRows, TypeOK
    <3>2. CASE attendance' = attendance
      BY <3>2
    <3> QED BY <2>3, <3>1, <3>2
            DEF Step, Fund, Route, Insert, Authorise, AuthoriseCancel, FindNext, Record, MoveOn,
                Grant, Refuse, Withdraw, ReadBalance, WriteBalance, ReadsOnly, WritesRow, dbVars
  <2>4. CASE Surroundings
    BY <1>1, <2>1, <2>4, SurroundingsPunches
  <2>5. CASE Crash \/ UNCHANGED allVars
    BY <1>1, <2>5 DEF Crash, ReadsOnly, dbVars, allVars, vars
  <2> QED BY <1>1, <2>2, <2>3, <2>4, <2>5 DEF HNext
<1>2. HTypeInv /\ [HNext]_allVars
          => [\A k \in Employees \X Days :
                attendance[k] \in {"PUNCHED", "OVERTIME"}
                    => attendance'[k] \in {"PUNCHED", "OVERTIME"}]_vars
  BY <1>1
<1> QED BY <1>2, HInitType, HTypeStep, PTL DEF HSpec, PunchesKept

(***************************************************************************)
(* What the update of a request leaves, and to which await its handler     *)
(* goes on.                                                                *)
(***************************************************************************)
\* The five columns a request is filed with are written by nothing after the insert.
LEMMA RowWrites ==
    ASSUME HTypeInv, NEW h \in Handlers, NEW r, r = job[h].id,
           MoveOn(h) \/ Grant(h) \/ Refuse(h) \/ Withdraw(h)
    PROVE  /\ r \in Filed /\ req[r] \in Request /\ req'[r] \in Request
           /\ \A s \in RequestIds : s # r => req'[s] = req[s]
           /\ Filed' = Filed /\ SameLeave(r) /\ WritesRow
           /\ job[h].at = "WRITE"
           /\ \/ /\ Return(h)
                 /\ req'[r].status = req[r].status
                 /\ \/ req'[r].tier = req[r].tier
                    \/ job[h].op = "APPROVE" /\ job[h].next # Null /\ req'[r].tier = job[h].next
              \/ /\ Goto(h, "BALANCE")
                 /\ job[h].op \in {"APPROVE", "SIMPLE"} /\ job[h].next = Null
                 /\ req'[r].status = "APPROVED" /\ req'[r].tier \in {Null, req[r].tier}
              \/ /\ Return(h)
                 /\ job[h].op = "REJECT"
                 /\ req'[r].status = "REJECTED" /\ req'[r].tier = Null
              \/ /\ Return(h)
                 /\ job[h].op \in {"CANCEL", "APPROVE_CANCEL"} /\ job[h].next = Null
                 /\ req'[r].status = "CANCELLED" /\ req'[r].tier = Null
<1> DEFINE j == job[h]
           old == req[r]
<1>1. j # Null /\ j.op # "CREATE" /\ j.at = "WRITE"
  BY DEF MoveOn, Grant, Refuse, Withdraw, At
<1>2. j \in Job /\ JobOk(j, Filed)
  BY <1>1 DEF HTypeInv, HTypeOK, JobsOk
<1>3. r \in Filed /\ r \in RequestIds /\ old \in Request
  BY <1>1, <1>2 DEF JobOk, HTypeInv, HTypeOK, TypeOK, Filed
<1>4. req' \in [RequestIds -> Request \cup {Null}] /\ Filed \subseteq Filed' /\ WritesRow
  <2>1. WritesRow
    BY DEF MoveOn, Grant, Refuse, Withdraw
  <2> QED BY <2>1, StepType DEF Step
<1>5. req'[r] \in Request
  BY <1>3, <1>4 DEF Filed
<1>6. /\ \A s \in RequestIds : s # r => req'[s] = req[s]
      /\ Filed' = Filed
  <2>1. \A s \in RequestIds : s # r => req'[s] = req[s]
    <3>1. req \in [RequestIds -> Request \cup {Null}]
      BY DEF HTypeInv, HTypeOK, TypeOK
    <3>2. CASE MoveOn(h)
      BY <1>3, <3>1, <3>2 DEF MoveOn, At
    <3>3. CASE Grant(h)
      BY <1>3, <3>1, <3>3 DEF Grant
    <3>4. CASE Refuse(h)
      BY <1>3, <3>1, <3>4 DEF Refuse
    <3>5. CASE Withdraw(h)
      BY <1>3, <3>1, <3>5 DEF Withdraw
    <3> QED BY <3>2, <3>3, <3>4, <3>5
  <2> QED BY <1>3, <1>4, <2>1 DEF Filed
<1> USE DEF HTypeInv, HTypeOK, TypeOK
<1>7. CASE MoveOn(h)
  <2>1. /\ Return(h) /\ j.next # Null /\ j.op \in {"APPROVE", "APPROVE_CANCEL", "REQUEST"}
        /\ \/ j.op = "APPROVE" /\ req'[r] = [old EXCEPT !.tier = j.next]
           \/ req'[r] = [old EXCEPT !.cTier = j.next]
           \/ req'[r] = [old EXCEPT !.cStatus = "PENDING", !.cTier = j.next]
    BY <1>3, <1>7 DEF MoveOn, At, Request
  <2> HIDE DEF j, old
  <2>2. /\ req'[r].employee = old.employee /\ req'[r].type = old.type
        /\ req'[r].first = old.first /\ req'[r].last = old.last /\ req'[r].charge = old.charge
        /\ req'[r].status = old.status
        /\ req'[r].tier = old.tier \/ (j.op = "APPROVE" /\ req'[r].tier = j.next)
    BY <1>3, <2>1 DEF Request
  <2> QED BY <1>1, <1>3, <1>4, <1>5, <1>6, <2>1, <2>2 DEF SameLeave, old, j
<1>8. CASE Grant(h)
  <2>1. /\ Goto(h, "BALANCE") /\ j.next = Null /\ j.op \in {"APPROVE", "SIMPLE"}
        /\ req'[r] = [old EXCEPT !.status = "APPROVED",
                                 !.tier = IF j.op = "APPROVE" THEN Null ELSE @,
                                 !.closedBy = j.user]
    BY <1>3, <1>8 DEF Grant, At, Request
  <2> HIDE DEF j, old
  <2>2. /\ req'[r].employee = old.employee /\ req'[r].type = old.type
        /\ req'[r].first = old.first /\ req'[r].last = old.last /\ req'[r].charge = old.charge
        /\ req'[r].status = "APPROVED" /\ req'[r].tier \in {Null, old.tier}
    BY <1>3, <2>1 DEF Request
  <2> QED BY <1>1, <1>3, <1>4, <1>5, <1>6, <2>1, <2>2 DEF SameLeave, old, j
<1>9. CASE Refuse(h)
  <2>1. /\ Return(h)
        /\ \/ /\ j.op = "REJECT"
              /\ req'[r] = [old EXCEPT !.status = "REJECTED", !.tier = Null, !.closedBy = j.user]
           \/ req'[r] = [old EXCEPT !.cStatus = "REJECTED", !.cTier = Null]
    BY <1>3, <1>9 DEF Refuse, At, Request
  <2> HIDE DEF j, old
  <2>2. /\ req'[r].employee = old.employee /\ req'[r].type = old.type
        /\ req'[r].first = old.first /\ req'[r].last = old.last /\ req'[r].charge = old.charge
        /\ \/ req'[r].status = old.status /\ req'[r].tier = old.tier
           \/ j.op = "REJECT" /\ req'[r].status = "REJECTED" /\ req'[r].tier = Null
    BY <1>3, <2>1 DEF Request
  <2> QED BY <1>1, <1>3, <1>4, <1>5, <1>6, <2>1, <2>2 DEF SameLeave, old, j
<1>10. CASE Withdraw(h)
  <2>1. /\ Return(h) /\ j.next = Null /\ j.op \in {"CANCEL", "APPROVE_CANCEL"}
        /\ req'[r] = CancelledRow(old, IF j.op = "CANCEL" THEN "NONE" ELSE "APPROVED", j.user)
    BY <1>3, <1>10 DEF Withdraw, At
  <2> HIDE DEF j, old
  <2>2. /\ req'[r].employee = old.employee /\ req'[r].type = old.type
        /\ req'[r].first = old.first /\ req'[r].last = old.last /\ req'[r].charge = old.charge
        /\ req'[r].status = "CANCELLED" /\ req'[r].tier = Null
    BY <1>3, <2>1 DEF Request, CancelledRow
  <2> QED BY <1>1, <1>3, <1>4, <1>5, <1>6, <2>1, <2>2 DEF SameLeave, old, j
<1> QED BY <1>7, <1>8, <1>9, <1>10

(***************************************************************************)
(* The tiers a request passes while the workflow is saved between the two  *)
(* times approve() reads it.  The tiers that have stood since the request  *)
(* was filed are in the chain whenever it is read, so the tier after the   *)
(* one it stood at skips none of them; a waiting handler loses nothing by  *)
(* what others do, which only records more approvals and keeps fewer       *)
(* tiers standing.                                                         *)
(***************************************************************************)
\* Every standing tier below this one has approved.
Passed(there, done, tier) == tier # Null => \A o \in there : o < tier => o \in done

ApproveChain(j, there, done) ==
    /\ j.at \in {"AUTHORISE", "NEXT", "RECORD"} => Passed(there, done, j.row.tier)
    /\ j.at = "RECORD" => \A o \in there : j.next = Null \/ o < j.next => o <= j.row.tier
    /\ j.at = "WRITE" /\ j.next # Null => Passed(there, done, j.next)
    /\ j.at = "WRITE" /\ j.next = Null => there \subseteq done
    /\ j.at \in {"BALANCE", "SETTLE", "DAYS"} => there \subseteq done
    /\ j.at # "ROWS"

JobChain(j, rows, there, done) ==
    /\ j.id # Null => j.row.employee = rows[j.id].employee
    /\ j.op = "CREATE" /\ j.at = "INSERT" => j.row.tier = FirstIn(j.there)
    /\ j.op = "APPROVE" => ApproveChain(j, there[j.id], done[j.id])

ChainInv ==
    /\ \A r \in Filed : /\ standing[r] \subseteq DOMAIN TiersOf(r)
                        /\ Passed(standing[r], approved[r], req[r].tier)
    /\ \A h \in Handlers : job[h] # Null => JobChain(job[h], req, standing, approved)

\* More approvals and fewer standing tiers hurt nobody who waits.
LEMMA ChainWaits ==
    ASSUME NEW j \in Job, NEW filed \in SUBSET RequestIds, JobOk(j, filed),
           NEW rows, NEW there, NEW done, NEW rows1, NEW there1, NEW done1,
           \A r \in filed : /\ rows1[r].employee = rows[r].employee
                            /\ there1[r] \subseteq there[r] /\ done[r] \subseteq done1[r],
           JobChain(j, rows, there, done)
    PROVE  JobChain(j, rows1, there1, done1)
<1>1. j.op = "APPROVE" => j.id \in filed
  BY DEF JobOk
<1>2. ASSUME j.op = "APPROVE" PROVE ApproveChain(j, there1[j.id], done1[j.id])
  BY <1>1, <1>2 DEF JobChain, ApproveChain, Passed
<1> QED BY <1>2 DEF JobChain, JobOk

\* A step of one handler keeps the invariant when it keeps the filed requests
\* and its own job in order.
LEMMA ChainKept ==
    ASSUME HTypeInv, ChainInv, NEW h \in Handlers, NEW k \in Job \cup {Null},
           job' = [job EXCEPT ![h] = k], UNCHANGED workflow, Filed \subseteq Filed',
           \A r \in Filed : /\ req'[r].employee = req[r].employee
                            /\ standing'[r] = standing[r] /\ approved[r] \subseteq approved'[r]
                            /\ Passed(standing[r], approved'[r], req'[r].tier),
           \A r \in Filed' \ Filed : /\ standing'[r] \subseteq DOMAIN TiersOf(r)'
                                     /\ Passed(standing'[r], approved'[r], req'[r].tier),
           k # Null => JobChain(k, req', standing', approved')
    PROVE  ChainInv'
<1>1. ASSUME NEW g \in Handlers, job'[g] # Null
      PROVE  JobChain(job'[g], req', standing', approved')
  <2>1. CASE g = h
    BY <1>1, <2>1 DEF HTypeInv, HTypeOK
  <2>2. CASE g # h
    <3>1. job'[g] = job[g] /\ job[g] \in Job /\ JobOk(job[g], Filed)
      BY <1>1, <2>2 DEF HTypeInv, HTypeOK, JobsOk
    <3>2. JobChain(job[g], req, standing, approved)
      BY <1>1, <3>1 DEF ChainInv
    <3>3. Filed \in SUBSET RequestIds
      BY DEF Filed
    <3>4. JobChain(job[g], req', standing', approved')
      BY <3>1, <3>2, <3>3, ChainWaits
    <3> QED BY <3>1, <3>4
  <2> QED BY <2>1, <2>2
<1>2. ASSUME NEW r \in Filed'
      PROVE  /\ standing'[r] \subseteq DOMAIN TiersOf(r)'
             /\ Passed(standing'[r], approved'[r], req'[r].tier)
  <2>1. CASE r \in Filed
    BY <2>1 DEF ChainInv, TiersOf, ActiveTiers
  <2> QED BY <1>2, <2>1
<1> QED BY <1>1, <1>2 DEF ChainInv

\* A handler that has read nothing yet holds what the database says.
LEMMA ChainStart ==
    ASSUME HTypeInv, ChainInv, NEW h \in Handlers, Start(h), UNCHANGED orgVars
    PROVE  ChainInv'
<1>1. UNCHANGED <<req, approved, standing, workflow>> /\ Filed' = Filed
  BY StartType DEF dbVars, orgVars, Filed
<1>2. ASSUME NEW op, NEW at, NEW u, NEW id, NEW row, Begin(h, op, at, u, id, row),
             \/ op = "CREATE" /\ id = Null /\ at # "INSERT"
             \/ id \in Filed /\ row = req[id] /\ op # "CREATE" /\ (op = "APPROVE" => at = "AUTHORISE")
      PROVE  ChainInv'
  <2> DEFINE k == [op |-> op, at |-> at, user |-> u, id |-> id, row |-> row,
                   next |-> Null, there |-> {}, seen |-> 0, day |-> row.first]
  <2>1. job' = [job EXCEPT ![h] = k]
    BY <1>2 DEF Begin
  <2>2. k \in Job \cup {Null}
    <3>1. job'[h] = k
      BY <2>1 DEF HTypeInv, HTypeOK
    <3>2. job' \in [Handlers -> Job \cup {Null}]
      BY StartType
    <3> QED BY <3>1, <3>2
  <2>3. id \in Filed => Passed(standing[id], approved[id], req[id].tier)
    BY DEF ChainInv
  <2>4. JobChain(k, req, standing, approved)
    BY <1>2, <2>3 DEF JobChain, ApproveChain
  <2>5. \A r \in Filed : Passed(standing[r], approved[r], req[r].tier)
    BY DEF ChainInv
  <2> HIDE DEF k
  <2> QED BY <1>1, <2>1, <2>2, <2>4, <2>5, ChainKept
<1>3. ASSUME NEW u \in Users, NEW e \in Employees, NEW t \in LeaveTypes, NEW first \in Days,
             NEW last \in Days, NEW session, NEW override,
             StartCreate(h, u, e, t, first, last, session, override)
      PROVE  ChainInv'
  <2> DEFINE at == IF override THEN "ROUTE" ELSE "FUND"
  <2>1. at # "INSERT" /\ \E row : Begin(h, "CREATE", at, u, Null, row)
    BY <1>3 DEF StartCreate
  <2> HIDE DEF at
  <2> QED BY <1>2, <2>1
<1>4. ASSUME NEW u \in Users, NEW r \in RequestIds, StartCancel(h, u, r) PROVE ChainInv'
  <2>1. r \in Filed /\ \E at : Begin(h, "CANCEL", at, u, r, req[r])
    BY <1>4 DEF StartCancel, Cancelling
  <2> QED BY <1>2, <2>1
<1>5. ASSUME NEW u \in Users, NEW r \in RequestIds, StartRequest(h, u, r) PROVE ChainInv'
  BY <1>2, <1>5 DEF StartRequest
<1>6. ASSUME NEW u \in Users, NEW r \in RequestIds, StartDecision(h, u, r) PROVE ChainInv'
  BY <1>2, <1>6 DEF StartDecision
<1>7. ASSUME NEW u \in Users, NEW r \in RequestIds, StartCancelDecision(h, u, r) PROVE ChainInv'
  BY <1>2, <1>7 DEF StartCancelDecision
<1> QED BY <1>3, <1>4, <1>5, <1>6, <1>7 DEF Start

\* A handler that goes on keeps what it holds of the chain true.
LEMMA ChainStep ==
    ASSUME HTypeInv, ChainInv, NEW h \in Handlers, Step(h), UNCHANGED orgVars
    PROVE  ChainInv'
<1> DEFINE j == job[h]
<1>1. j # Null
  BY DEF Step, Fund, Route, Insert, Authorise, AuthoriseCancel, FindNext, Record, MoveOn, Grant,
         Refuse, Withdraw, ReadBalance, WriteBalance, MarkDay, DropRows, At
<1>2. j \in Job /\ JobOk(j, Filed) /\ JobChain(j, req, standing, approved)
  BY <1>1 DEF HTypeInv, HTypeOK, JobsOk, ChainInv
<1>3. /\ j.op \in Ops /\ j.row \in Request /\ j.id \in RequestIds \cup {Null}
      /\ j.row.employee \in Employees /\ j.there \in SUBSET TierOrders
  <2> HIDE DEF j
  <2> QED BY <1>2 DEF Job, Request
<1>4. Filed \subseteq Filed' /\ workflow' = workflow /\ job' \in [Handlers -> Job \cup {Null}]
  BY StepType DEF orgVars
<1>5. \A r \in Filed : /\ standing[r] \subseteq DOMAIN TiersOf(r)
                       /\ Passed(standing[r], approved[r], req[r].tier)
  BY DEF ChainInv
\* The steps that write neither the request, nor a decision.
<1>6. ASSUME NEW k \in Job \cup {Null}, job' = [job EXCEPT ![h] = k],
             UNCHANGED <<req, approved, standing>>,
             k # Null => JobChain(k, req, standing, approved)
      PROVE  ChainInv'
  <2>1. Filed' = Filed
    BY <1>6 DEF Filed
  <2> QED BY <1>4, <1>5, <1>6, <2>1, ChainKept
<1>7. ASSUME NEW at \in Awaits, Goto(h, at), UNCHANGED <<req, approved, standing>>,
             JobChain([j EXCEPT !.at = at], req, standing, approved)
      PROVE  ChainInv'
  <2> DEFINE k == [j EXCEPT !.at = at]
  <2>1. job' = [job EXCEPT ![h] = k]
    BY <1>7 DEF Goto
  <2> HIDE DEF j
  <2>2. k \in Job
    BY <1>2, <1>7 DEF Job
  <2> HIDE DEF k
  <2>3. k # Null => JobChain(k, req, standing, approved)
    BY <1>7 DEF k
  <2> QED BY <1>6, <1>7, <2>1, <2>2, <2>3
<1>8. ASSUME Return(h), UNCHANGED <<req, approved, standing>>
      PROVE  ChainInv'
  BY <1>6, <1>8 DEF Return
<1>9. CASE Fund(h)
  <2>1. /\ UNCHANGED <<req, approved, standing>> /\ j.op = "CREATE"
        /\ Goto(h, "ROUTE") \/ Return(h)
    BY <1>9 DEF Fund, ReadsOnly, At, dbVars
  <2> HIDE DEF j
  <2>2. JobChain([j EXCEPT !.at = "ROUTE"], req, standing, approved)
    BY <1>2, <2>1 DEF JobChain, Job
  <2> QED BY <1>7, <1>8, <2>1, <2>2 DEF Awaits
<1>10. CASE Route(h)
  <2> DEFINE orders == IF RowOf(h).status = "PENDING" THEN DOMAIN LiveTiers(h) ELSE {}
             k == [j EXCEPT !.at = "INSERT", !.there = orders,
                            !.row = [j.row EXCEPT !.tier = FirstIn(orders)]]
  <2>1. /\ UNCHANGED <<req, approved, standing>> /\ j.op = "CREATE"
        /\ job' = [job EXCEPT ![h] = k]
    BY <1>2, <1>10 DEF Route, ReadsOnly, At, Job, Request, dbVars
  <2>2. k \in Job \cup {Null}
    <3>1. job'[h] = k
      BY <2>1 DEF HTypeInv, HTypeOK
    <3> QED BY <1>4, <3>1
  <2> HIDE DEF j, orders
  <2>3. JobChain(k, req, standing, approved)
    BY <1>2, <1>3, <2>1 DEF JobChain, Job, Request
  <2> HIDE DEF k
  <2> QED BY <1>6, <2>1, <2>2, <2>3
<1>11. ASSUME NEW r \in RequestIds, Insert(h, r) PROVE ChainInv'
  <2>1. /\ j.op = "CREATE" /\ j.at = "INSERT" /\ r \notin Filed /\ approved' = approved
        /\ req' = [req EXCEPT ![r] = j.row]
        /\ standing' = [standing EXCEPT ![r] = j.there \cap DOMAIN LiveTiers(h)]
    BY <1>11 DEF Insert, At, RowOf
  <2>2. /\ req'[r] = j.row /\ standing'[r] = j.there \cap DOMAIN LiveTiers(h)
        /\ \A s \in RequestIds : s # r => req'[s] = req[s] /\ standing'[s] = standing[s]
    BY <2>1 DEF HTypeInv, HTypeOK, TypeOK
  <2>3. Filed' = Filed \cup {r}
    <3> HIDE DEF j
    <3> QED BY <1>3, <2>2, NullRowAssumption DEF Filed
  <2>4. DOMAIN TiersOf(r)' = DOMAIN LiveTiers(h)
    BY <1>4, <2>2 DEF TiersOf, LiveTiers, ActiveTiers, RowOf
  <2>5. Passed(standing'[r], approved'[r], req'[r].tier)
    <3>1. j.there \in SUBSET Nat /\ j.row.tier = FirstIn(j.there)
      BY <1>2, <1>3, <2>1, BoundsAssumption DEF JobChain, TierOrders
    <3> HIDE DEF j
    <3>2. j.row.tier # Null => j.row.tier \in Nat /\ \A n \in j.there : n \in Nat /\ j.row.tier <= n
      BY <3>1, FirstTier
    <3> QED BY <2>2, <3>2 DEF Passed
  <2>6. \A s \in Filed : /\ req'[s].employee = req[s].employee /\ standing'[s] = standing[s]
                         /\ Passed(standing[s], approved'[s], req'[s].tier)
    BY <1>5, <2>1, <2>2 DEF Filed
  <2>7. \A s \in Filed' \ Filed : /\ standing'[s] \subseteq DOMAIN TiersOf(s)'
                                  /\ Passed(standing'[s], approved'[s], req'[s].tier)
    <3>1. \A s \in Filed' \ Filed : s = r
      BY <2>3
    <3> QED BY <2>2, <2>4, <2>5, <3>1
  <2> DEFINE k == IF RowOf(h).status = "APPROVED" THEN [j EXCEPT !.at = "BALANCE", !.id = r] ELSE Null
  <2>8. job' = [job EXCEPT ![h] = k]
    BY <1>2, <1>11 DEF Insert, Return, Job
  <2>9. k \in Job \cup {Null}
    <3>1. job'[h] = k
      BY <2>8 DEF HTypeInv, HTypeOK
    <3> QED BY <1>4, <3>1
  <2>10. k # Null => JobChain(k, req', standing', approved')
    <3> HIDE DEF j
    <3> QED BY <1>2, <2>1, <2>2 DEF JobChain, Job
  <2> HIDE DEF j, k
  <2> QED BY <1>4, <2>1, <2>6, <2>7, <2>8, <2>9, <2>10, ChainKept
<1>12. CASE Authorise(h)
  <2>1. /\ UNCHANGED <<req, approved, standing>> /\ j.at = "AUTHORISE"
    BY <1>12 DEF Authorise, ReadsOnly, At, dbVars
  <2>2. \/ Return(h)
        \/ j.op = "REJECT" /\ Goto(h, "WRITE")
        \/ j.op \in {"APPROVE", "REJECT"} /\ Goto(h, "NEXT")
        \/ job' = [job EXCEPT ![h].op = "SIMPLE", ![h].at = "WRITE"]
    BY <1>12 DEF Authorise, At
  <2>3. CASE job' = [job EXCEPT ![h].op = "SIMPLE", ![h].at = "WRITE"]
    <3> DEFINE k == [j EXCEPT !.op = "SIMPLE", !.at = "WRITE"]
    <3>1. job' = [job EXCEPT ![h] = k]
      BY <1>2, <2>3 DEF Job
    <3> HIDE DEF j
    <3>2. k \in Job
      BY <1>2 DEF Job, Awaits, Ops
    <3>3. JobChain(k, req, standing, approved)
      BY <1>2 DEF JobChain, Job
    <3> HIDE DEF k
    <3> QED BY <1>6, <2>1, <3>1, <3>2, <3>3
  <2> HIDE DEF j
  <2>4. j.op = "REJECT" => JobChain([j EXCEPT !.at = "WRITE"], req, standing, approved)
    BY <1>2 DEF JobChain, Job
  <2>5. j.op \in {"APPROVE", "REJECT"} => JobChain([j EXCEPT !.at = "NEXT"], req, standing, approved)
    BY <1>2, <2>1 DEF JobChain, ApproveChain, Job
  <2> QED BY <1>7, <1>8, <2>1, <2>2, <2>3, <2>4, <2>5 DEF Awaits
<1>13. CASE AuthoriseCancel(h)
  <2>1. /\ UNCHANGED <<req, approved, standing>> /\ j.op \in {"APPROVE_CANCEL", "REJECT_CANCEL"}
        /\ Return(h) \/ \E at \in Awaits : Goto(h, at)
    BY <1>13 DEF AuthoriseCancel, ReadsOnly, At, dbVars, Awaits
  <2> HIDE DEF j
  <2>2. \A at \in Awaits : JobChain([j EXCEPT !.at = at], req, standing, approved)
    BY <1>2, <2>1 DEF JobChain, Job
  <2> QED BY <1>7, <1>8, <2>1, <2>2
<1>14. CASE FindNext(h)
  <2> DEFINE next == CASE j.op = "APPROVE" -> NextIn(DOMAIN LiveTiers(h), j.row.tier)
                       [] j.op = "REQUEST" -> FirstIn(CancellationOrders(LiveTiers(h)))
                       [] j.op = "APPROVE_CANCEL" ->
                            NextIn(CancellationOrders(LiveTiers(h)), j.row.cTier)
             at == CASE j.op = "APPROVE" -> "RECORD"
                     [] j.op = "REQUEST" -> "WRITE"
                     [] j.op = "APPROVE_CANCEL" -> IF next = Null THEN "BALANCE" ELSE "WRITE"
             k == [j EXCEPT !.next = next, !.at = at]
  <2>1. /\ UNCHANGED <<req, approved, standing>> /\ j.at = "NEXT"
        /\ job' = [job EXCEPT ![h] = k]
    BY <1>2, <1>14 DEF FindNext, ReadsOnly, At, Job, RowOf, dbVars
  <2>2. k \in Job \cup {Null}
    <3>1. job'[h] = k
      BY <2>1 DEF HTypeInv, HTypeOK
    <3> QED BY <1>4, <3>1
  <2>3. j.op = "APPROVE" => at = "RECORD" /\ next = NextIn(DOMAIN LiveTiers(h), j.row.tier)
    OBVIOUS
  <2>4. j.op = "APPROVE" => /\ j.row.tier \in Nat /\ DOMAIN LiveTiers(h) \in SUBSET Nat
                           /\ standing[j.id] \subseteq DOMAIN LiveTiers(h)
    <3>1. j.op = "APPROVE" => j.id \in Filed /\ j.row.tier \in Nat
      BY <1>2, <2>1, BoundsAssumption DEF JobOk, TierOrders
    <3>2. DOMAIN LiveTiers(h) \in SUBSET TierOrders
      BY <1>3, ActiveTiersType DEF LiveTiers, RowOf, HTypeInv, HTypeOK
    <3>3. j.op = "APPROVE" => TiersOf(j.id) = LiveTiers(h)
      BY <1>2, <3>1, NullJobAssumption DEF JobChain, LiveTiers, TiersOf, RowOf, Filed
    <3> QED BY <1>5, <3>1, <3>2, <3>3, BoundsAssumption DEF TierOrders
  <2> HIDE DEF j, next, at
  <2>5. j.op = "APPROVE" => \A o \in standing[j.id] : next = Null \/ o < next => o <= j.row.tier
    <3>1. CASE next = Null
      BY <2>3, <2>4, <3>1, NextTier
    <3>2. CASE next # Null
      BY <2>3, <2>4, <3>2, NextTier
    <3> QED BY <3>1, <3>2
  <2>6. JobChain(k, req, standing, approved)
    <3>1. /\ k.op = j.op /\ k.id = j.id /\ k.row = j.row /\ k.there = j.there
          /\ k.next = next /\ k.at = at
      BY <1>2 DEF Job
    <3> HIDE DEF k
    <3>2. CASE j.op = "APPROVE"
      <4>1. ApproveChain(k, standing[j.id], approved[j.id])
        BY <1>2, <2>1, <2>3, <2>5, <3>1, <3>2 DEF JobChain, ApproveChain
      <4> QED BY <1>2, <3>1, <3>2, <4>1 DEF JobChain
    <3>3. CASE j.op # "APPROVE"
      <4>1. j.op = "CREATE" => FALSE
        BY <1>14 DEF FindNext, At, j
      <4> QED BY <1>2, <3>1, <3>3, <4>1 DEF JobChain
    <3> QED BY <3>2, <3>3
  <2> HIDE DEF k
  <2> QED BY <1>6, <2>1, <2>2, <2>6
<1>15. CASE Record(h)
  <2> DEFINE done == [approved EXCEPT ![j.id] = @ \cup {j.row.tier}]
             k == [j EXCEPT !.at = "WRITE"]
  <2>1. /\ UNCHANGED <<req, standing>> /\ j.op = "APPROVE" /\ j.at = "RECORD"
        /\ approved' = done /\ job' = [job EXCEPT ![h] = k]
    BY <1>15 DEF Record, At, RowOf, Goto
  <2>2. j.id \in Filed /\ j.row.tier \in TierOrders
    BY <1>2, <2>1 DEF JobOk
  <2>3. /\ done[j.id] = approved[j.id] \cup {j.row.tier}
        /\ \A r \in Filed : approved[r] \subseteq done[r]
    BY <2>2 DEF HTypeInv, HTypeOK, TypeOK, Filed
  <2>4. Filed' = Filed
    BY <2>1 DEF Filed
  <2>5. k \in Job \cup {Null}
    <3>1. job'[h] = k
      BY <2>1 DEF HTypeInv, HTypeOK
    <3> QED BY <1>4, <3>1
  <2>6. standing[j.id] \in SUBSET Int /\ j.row.tier \in Int /\ j.row.tier # Null
    BY <1>3, <2>2, BoundsAssumption, NullAssumption DEF HTypeInv, HTypeOK, TypeOK, TierOrders, Filed
  <2> HIDE DEF j, done
  <2>7. JobChain(k, req, standing, done)
    <3>1. /\ Passed(standing[j.id], approved[j.id], j.row.tier)
          /\ \A o \in standing[j.id] : j.next = Null \/ o < j.next => o <= j.row.tier
      BY <1>2, <2>1 DEF JobChain, ApproveChain
    <3>2. \A o \in standing[j.id] : o <= j.row.tier => o \in done[j.id]
      BY <2>3, <2>6, <3>1 DEF Passed
    <3>3. ApproveChain(k, standing[j.id], done[j.id])
      BY <1>2, <3>1, <3>2 DEF ApproveChain, Passed, Job
    <3> QED BY <1>2, <2>1, <3>3 DEF JobChain, Job
  <2>8. \A r \in Filed : Passed(standing[r], done[r], req[r].tier)
    BY <1>5, <2>3 DEF Passed
  <2> HIDE DEF k
  <2> QED BY <1>4, <2>1, <2>3, <2>4, <2>5, <2>7, <2>8, ChainKept
<1>16. CASE MoveOn(h) \/ Grant(h) \/ Refuse(h) \/ Withdraw(h)
  <2> DEFINE r == j.id
  <2>1. /\ r \in Filed /\ \A s \in RequestIds : s # r => req'[s] = req[s]
        /\ Filed' = Filed /\ SameLeave(r) /\ UNCHANGED <<approved, standing>> /\ j.at = "WRITE"
    BY <1>16, RowWrites DEF WritesRow
  <2>2. \/ Return(h)
        \/ Goto(h, "BALANCE") /\ j.next = Null
    BY <1>16, RowWrites
  <2>3. \/ req'[r].tier \in {Null, req[r].tier}
        \/ j.op = "APPROVE" /\ j.next # Null /\ req'[r].tier = j.next
    BY <1>16, RowWrites
  <2> HIDE DEF j
  <2>4. Passed(standing[r], approved[r], req'[r].tier)
    <3>1. CASE req'[r].tier \in {Null, req[r].tier}
      BY <1>5, <2>1, <3>1 DEF Passed
    <3>2. CASE j.op = "APPROVE" /\ j.next # Null /\ req'[r].tier = j.next
      BY <1>2, <2>1, <3>2 DEF JobChain, ApproveChain
    <3> QED BY <2>3, <3>1, <3>2
  <2>5. \A s \in Filed : /\ req'[s].employee = req[s].employee
                         /\ Passed(standing[s], approved'[s], req'[s].tier)
    BY <1>5, <2>1, <2>4 DEF Filed, SameLeave
  <2>6. ASSUME NEW k \in Job \cup {Null}, job' = [job EXCEPT ![h] = k],
               k # Null => JobChain(k, req', standing, approved)
        PROVE  ChainInv'
    BY <1>4, <2>1, <2>5, <2>6, ChainKept
  <2>7. CASE Return(h)
    BY <2>6, <2>7 DEF Return
  <2>8. CASE Goto(h, "BALANCE") /\ j.next = Null
    <3> DEFINE k == [j EXCEPT !.at = "BALANCE"]
    <3>1. job' = [job EXCEPT ![h] = k]
      BY <2>8 DEF Goto, j
    <3>2. k \in Job
      BY <1>2 DEF Job, Awaits
    <3>3. JobChain(k, req', standing, approved)
      BY <1>2, <2>1, <2>8 DEF JobChain, ApproveChain, Job, SameLeave
    <3> HIDE DEF k
    <3> QED BY <2>6, <3>1, <3>2, <3>3
  <2> QED BY <2>2, <2>7, <2>8
<1>17. CASE ReadBalance(h)
  <2> DEFINE k == [j EXCEPT !.seen = used[BalanceOf(h)], !.at = "SETTLE"]
  <2>1. UNCHANGED <<req, approved, standing>> /\ job' = [job EXCEPT ![h] = k] /\ j.at = "BALANCE"
    BY <1>2, <1>17 DEF ReadBalance, ReadsOnly, Job, dbVars, At
  <2>2. k \in Job \cup {Null}
    <3>1. job'[h] = k
      BY <2>1 DEF HTypeInv, HTypeOK
    <3> QED BY <1>4, <3>1
  <2> HIDE DEF j
  <2>3. JobChain(k, req, standing, approved)
    BY <1>2, <2>1 DEF JobChain, ApproveChain, Job
  <2> HIDE DEF k
  <2> QED BY <1>6, <2>1, <2>2, <2>3
<1>18. CASE WriteBalance(h)
  <2>1. /\ UNCHANGED <<req, approved, standing>> /\ j.at = "SETTLE"
        /\ \/ Goto(h, "DAYS")
           \/ Goto(h, "ROWS") /\ j.op # "APPROVE"
    BY <1>18 DEF WriteBalance, At, Granting
  <2> HIDE DEF j
  <2>2. /\ JobChain([j EXCEPT !.at = "DAYS"], req, standing, approved)
        /\ j.op # "APPROVE" => JobChain([j EXCEPT !.at = "ROWS"], req, standing, approved)
    BY <1>2, <2>1 DEF JobChain, ApproveChain, Job
  <2> QED BY <1>7, <2>1, <2>2 DEF Awaits
<1>19. CASE MarkDay(h)
  <2>1. /\ UNCHANGED <<req, approved, standing>>
        /\ Return(h) \/ job' = [job EXCEPT ![h].day = @ + 1]
    BY <1>19 DEF MarkDay
  <2>2. CASE job' = [job EXCEPT ![h].day = @ + 1]
    <3> DEFINE k == [j EXCEPT !.day = j.day + 1]
    <3>1. job' = [job EXCEPT ![h] = k]
      BY <1>2, <2>2 DEF Job
    <3>2. k \in Job \cup {Null}
      <4>1. job'[h] = k
        BY <3>1 DEF HTypeInv, HTypeOK
      <4> QED BY <1>4, <4>1
    <3> HIDE DEF j
    <3>3. JobChain(k, req, standing, approved)
      BY <1>2 DEF JobChain, ApproveChain, Job
    <3> HIDE DEF k
    <3> QED BY <1>6, <2>1, <3>1, <3>2, <3>3
  <2> QED BY <1>8, <2>1, <2>2
<1>20. CASE DropRows(h)
  <2>1. UNCHANGED <<req, approved, standing>> /\ j.at = "ROWS" /\ Goto(h, "WRITE")
    BY <1>20 DEF DropRows, At
  <2> HIDE DEF j
  <2>2. JobChain([j EXCEPT !.at = "WRITE"], req, standing, approved)
    BY <1>2, <2>1 DEF JobChain, ApproveChain, Job
  <2> QED BY <1>7, <2>1, <2>2 DEF Awaits
<1> QED BY <1>9, <1>10, <1>11, <1>12, <1>13, <1>14, <1>15, <1>16, <1>17, <1>18, <1>19, <1>20 DEF Step

\* The chain of an approval holds along every step: a save of the workflow
\* under a handler that waits keeps only standing tiers that are still there.
LEMMA ChainNext == HTypeInv /\ ChainInv /\ [HNext]_allVars => ChainInv'
<1> SUFFICES ASSUME HTypeInv, ChainInv, [HNext]_allVars PROVE ChainInv'
  OBVIOUS
<1>1. ASSUME NEW h \in Handlers, Start(h) \/ Step(h), UNCHANGED orgVars
      PROVE  ChainInv'
  BY <1>1, ChainStart, ChainStep
<1>2. ASSUME Crash, UNCHANGED orgVars
      PROVE  ChainInv'
  BY <1>2 DEF Crash, ReadsOnly, dbVars, orgVars, ChainInv, Filed, TiersOf, ActiveTiers
<1>3. ASSUME Surroundings, UNCHANGED job
      PROVE  ChainInv'
  <2>1. TypeOK /\ UNCHANGED <<req, approved>> /\ Filed' = Filed
    BY <1>3, SurroundingsShape DEF HTypeInv, HTypeOK, Filed
  <2>2. \A r \in Filed : /\ standing'[r] \subseteq standing[r]
                         /\ standing'[r] \subseteq DOMAIN TiersOf(r)'
    BY <1>3, <2>1, SurroundingsTiers DEF ChainInv, Filed
  <2>3. ASSUME NEW h \in Handlers, job[h] # Null
        PROVE  JobChain(job[h], req, standing', approved)
    <3>1. job[h] \in Job /\ JobOk(job[h], Filed) /\ JobChain(job[h], req, standing, approved)
      BY <2>3 DEF HTypeInv, HTypeOK, JobsOk, ChainInv
    <3>2. Filed \in SUBSET RequestIds
      BY DEF Filed
    <3> QED BY <2>2, <3>1, <3>2, ChainWaits
  <2>4. \A r \in Filed : Passed(standing'[r], approved[r], req[r].tier)
    BY <2>2 DEF ChainInv, Passed
  <2> QED BY <1>3, <2>1, <2>2, <2>3, <2>4 DEF ChainInv
<1>4. CASE UNCHANGED allVars
  BY <1>4 DEF allVars, vars, ChainInv, Filed, TiersOf, ActiveTiers
<1> QED BY <1>1, <1>2, <1>3, <1>4 DEF HNext

\* An approval that grants has passed every tier that stood in the chain since
\* the request was filed, with any number of handlers, crashes and workflow saves.
THEOREM GrantsPassEveryTier == HSpec => []GrantedTierByTier
<1>1. HInit => ChainInv
  BY DEF HInit, Init, ChainInv, Filed
<1>2. ChainInv => GrantedTierByTier
  <2> SUFFICES ASSUME ChainInv, NEW h \in Handlers, At(h, {"APPROVE"}, "BALANCE")
               PROVE  standing[job[h].id] \subseteq approved[job[h].id]
    BY DEF GrantedTierByTier
  <2> QED BY DEF ChainInv, JobChain, ApproveChain, At
<1> QED BY <1>1, <1>2, HInitType, HTypeStep, ChainNext, PTL DEF HSpec

(***************************************************************************)
(* One handler at a time, which still meets crashes and the writes of      *)
(* other services: what a request says, what its balance was charged and   *)
(* which rows it keeps differ only between the writes of one handler, by   *)
(* what its job says it has still to write.                                *)
(***************************************************************************)
\* The handlers that take the side effects of a decision back.
Withdrawing(op) == op \in {"CANCEL", "APPROVE_CANCEL"}

\* The columns nothing writes after the insert.
SameLeaveAs(a, b) ==
    /\ a.employee = b.employee /\ a.type = b.type
    /\ a.first = b.first /\ a.last = b.last /\ a.charge = b.charge

\* What the granted leaves of each balance were charged.
Due == [b \in Employees \X LeaveTypes \X Years |-> SumFunctionOnSet(Charges, GrantedOn(b))]

\* Where a job is, and what its request says.
JobPlace(j, rows) ==
    /\ j.row.first <= j.day /\ j.day <= j.row.last
    /\ j.id # Null => SameLeaveAs(j.row, rows[j.id])
    /\ j.at \notin {"RECORD", "WRITE"} => j.next = Null
    /\ j.at \in {"BALANCE", "SETTLE"} => Granting(j.op) \/ Withdrawing(j.op)
    /\ j.at = "ROWS" => Withdrawing(j.op)
    /\ j.at = "DAYS" => Granting(j.op)
    /\ Granting(j.op) /\ j.at \in {"BALANCE", "SETTLE", "DAYS"} =>
          j.id # Null /\ rows[j.id].status = "APPROVED"
    /\ j.op \in {"APPROVE", "SIMPLE", "REJECT"} /\ j.at \in {"AUTHORISE", "NEXT", "RECORD", "WRITE"} =>
          rows[j.id].status # "APPROVED"

\* The charge of the job's leave is granted and not, or no longer, in the balance.
Slack(j, spent, due) ==
    LET b == <<j.row.employee, j.row.type, YearOf[j.row.first]>>
    IN  spent[b] + j.row.charge <= due[b]

\* Between a grant and its charge, and between a refund and its withdrawal, the
\* balance shows less than was granted.
JobBalance(j, rows, spent, due) ==
    /\ Granting(j.op) /\ j.at \in {"BALANCE", "SETTLE"} => Slack(j, spent, due)
    /\ j.at = "SETTLE" => j.seen = spent[<<j.row.employee, j.row.type, YearOf[j.row.first]>>]
    /\ Withdrawing(j.op) /\ j.at \in {"ROWS", "WRITE"} /\ j.next = Null /\ rows[j.id].status = "APPROVED"
          => Slack(j, spent, due)

\* The rows a withdrawal leaves were corrected by hand.
JobRows(j, rows, marks, byHand) ==
    Withdrawing(j.op) /\ j.at = "WRITE" /\ j.next = Null /\ rows[j.id].status = "APPROVED" =>
        \A d \in Days : j.row.first <= d /\ d <= j.row.last /\ marks[<<j.row.employee, d>>] = "ON_LEAVE"
                            => <<j.row.employee, d>> \in byHand

\* All that holds of the job of the one handler.
JobAlone(j, rows, spent, due, marks, byHand) ==
    /\ JobPlace(j, rows)
    /\ JobBalance(j, rows, spent, due)
    /\ JobRows(j, rows, marks, byHand)

\* The inductive invariant of one handler.
AloneInv ==
    /\ IsFiniteSet(Filed)
    /\ \A r \in Filed : req[r].first <= req[r].last
    /\ NeverOvercharged /\ NoOrphanPlaceholder
    /\ \A h \in Handlers : job[h] # Null => JobAlone(job[h], req, used, Due, attendance, edited)

\* The sums are numbers, and the charge of a granted leave is part of its balance's.
LEMMA DueCovers ==
    ASSUME TypeOK, IsFiniteSet(Filed)
    PROVE  /\ \A b \in Employees \X LeaveTypes \X Years : Due[b] \in Nat
           /\ \A r \in RequestIds : Granted(r) =>
                 /\ Balance(r) \in Employees \X LeaveTypes \X Years
                 /\ req[r].charge \in Nat /\ req[r].charge <= Due[Balance(r)]
<1>1. ASSUME NEW b \in Employees \X LeaveTypes \X Years
      PROVE  Due[b] = SumFunctionOnSet(Charges, GrantedOn(b)) /\ Due[b] \in Nat
  <2>1. Due[b] = SumFunctionOnSet(Charges, GrantedOn(b))
    BY DEF Due
  <2> DEFINE S == GrantedOn(b)
  <2>2. IsFiniteSet(S) /\ \A r \in S : Charges[r] \in Nat
    BY GrantedFinite
  <2> HIDE DEF S
  <2>3. SumFunctionOnSet(Charges, S) \in Nat
    BY <2>2, SumType
  <2> QED BY <2>1, <2>3 DEF S
<1>2. ASSUME NEW r \in RequestIds, Granted(r)
      PROVE  /\ Balance(r) \in Employees \X LeaveTypes \X Years
             /\ req[r].charge \in Nat /\ req[r].charge <= Due[Balance(r)]
  <2>1. req[r] \in Request
    BY <1>2 DEF TypeOK, Granted, Filed
  <2>2. Balance(r) \in Employees \X LeaveTypes \X Years /\ req[r].charge \in Nat
    BY <2>1, TypesAssumption DEF Balance, Request, Days
  <2> DEFINE S == GrantedOn(Balance(r))
  <2>3. IsFiniteSet(S) /\ r \in S /\ Charges[r] = req[r].charge /\ \A s \in S : Charges[s] \in Nat
    BY <1>2, GrantedFinite DEF GrantedOn
  <2> HIDE DEF S
  <2>4. SumFunctionOnSet(Charges, S) = Charges[r] + SumFunctionOnSet(Charges, S \ {r})
    BY <2>3, SumTakeOut
  <2>5. SumFunctionOnSet(Charges, S \ {r}) \in Nat
    BY <2>3, SumType, FS_Subset
  <2>6. Due[Balance(r)] = SumFunctionOnSet(Charges, S)
    BY <1>1, <2>2 DEF S
  <2> QED BY <2>2, <2>3, <2>4, <2>5, <2>6
<1> QED BY <1>1, <1>2

\* In the form that may be primed.
LEMMA DueType ==
    TypeOK /\ IsFiniteSet(Filed) => \A b \in Employees \X LeaveTypes \X Years : Due[b] \in Nat
BY DueCovers

\* A request that becomes granted adds its charge to the sum of its balance.
LEMMA DueGains ==
    ASSUME TypeOK, TypeOK', IsFiniteSet(Filed), NEW r \in RequestIds, ~Granted(r), Granted(r)',
           \A s \in RequestIds : s # r => req'[s] = req[s],
           NEW b \in Employees \X LeaveTypes \X Years
    PROVE  Due'[b] = IF b = Balance(r)' THEN Due[b] + req'[r].charge ELSE Due[b]
<1> DEFINE S == GrantedOn(b)
<1>1. /\ IsFiniteSet(S) /\ r \notin S
      /\ \A x \in S : Charges[x] \in Nat
  BY GrantedFinite DEF GrantedOn
<1>2. GrantedOn(b)' \ {r} = S /\ \A x \in S : Charges'[x] = Charges[x]
  BY <1>1, GrantedOnOthers
<1>3. Charges'[r] = req'[r].charge /\ Charges'[r] \in Nat
  BY DEF Granted, TypeOK, Charges, Request, Filed
<1>4. Due[b] = SumFunctionOnSet(Charges, S) /\ Due'[b] = SumFunctionOnSet(Charges', GrantedOn(b)')
  BY DEF Due
<1>5. CASE b = Balance(r)'
  <2>1. GrantedOn(b)' = S \cup {r}
    BY <1>2, <1>5 DEF GrantedOn
  <2> HIDE DEF S
  <2> DEFINE T == GrantedOn(b)'
             charges == Charges'
  <2>2. /\ T = S \cup {r} /\ charges[r] \in Nat
        /\ \A x \in S : Charges[x] = charges[x]
    BY <1>2, <1>3, <2>1
  <2> HIDE DEF T, charges
  <2>4. SumFunctionOnSet(charges, T) = SumFunctionOnSet(Charges, S) + charges[r]
    BY <1>1, <2>2, SumWithOneMore
  <2>3. Due'[b] = Due[b] + req'[r].charge
    BY <1>3, <1>4, <2>4 DEF T, charges
  <2> QED BY <1>5, <2>3
<1>6. CASE b # Balance(r)'
  <2>1. GrantedOn(b)' = S
    BY <1>2, <1>6 DEF GrantedOn
  <2> HIDE DEF S
  <2>2. SumFunctionOnSet(Charges', S) = SumFunctionOnSet(Charges, S)
    BY <1>1, <1>2, SumSame
  <2> QED BY <1>4, <1>6, <2>1, <2>2
<1> QED BY <1>5, <1>6

\* One that is no longer granted takes its charge out of it.
LEMMA DueLoses ==
    ASSUME TypeOK, TypeOK', IsFiniteSet(Filed), NEW r \in RequestIds, Granted(r), ~Granted(r)',
           \A s \in RequestIds : s # r => req'[s] = req[s],
           NEW b \in Employees \X LeaveTypes \X Years
    PROVE  Due[b] = IF b = Balance(r) THEN Due'[b] + req[r].charge ELSE Due'[b]
<1> DEFINE S == GrantedOn(b)'
<1>1. r \notin S /\ GrantedOn(b) \ {r} = S /\ \A x \in S : Charges'[x] = Charges[x]
  <2>1. r \notin S
    BY DEF GrantedOn
  <2> QED BY <2>1, GrantedOnOthers
<1>2. IsFiniteSet(S) /\ \A x \in S : Charges[x] \in Nat /\ Charges'[x] \in Nat
  BY <1>1, GrantedFinite, FS_Subset
<1>3. Charges[r] = req[r].charge /\ Charges[r] \in Nat
  BY DEF Granted, TypeOK, Charges, Request, Filed
<1>4. Due[b] = SumFunctionOnSet(Charges, GrantedOn(b)) /\ Due'[b] = SumFunctionOnSet(Charges', S)
  BY DEF Due
<1>5. CASE b = Balance(r)
  <2>1. GrantedOn(b) = S \cup {r}
    BY <1>1, <1>5 DEF GrantedOn
  <2> HIDE DEF S
  <2> DEFINE T == GrantedOn(b)
             charges == Charges
             later == Charges'
  <2>2. /\ T = S \cup {r} /\ r \notin S /\ charges[r] \in Nat
        /\ \A x \in S : later[x] = charges[x] /\ later[x] \in Nat
    BY <1>1, <1>2, <1>3, <2>1
  <2> HIDE DEF T, charges, later
  <2>3. SumFunctionOnSet(charges, T) = SumFunctionOnSet(later, S) + charges[r]
    BY <1>2, <2>2, SumWithOneMore
  <2>4. Due[b] = Due'[b] + req[r].charge
    BY <1>3, <1>4, <2>3 DEF T, charges, later
  <2> QED BY <1>5, <2>4
<1>6. CASE b # Balance(r)
  <2>1. GrantedOn(b) = S
    BY <1>1, <1>6 DEF GrantedOn
  <2> HIDE DEF S
  <2>2. SumFunctionOnSet(Charges', S) = SumFunctionOnSet(Charges, S)
    BY <1>1, <1>2, SumSame
  <2> QED BY <1>4, <1>6, <2>1, <2>2
<1> QED BY <1>5, <1>6

\* Any other write leaves the sums alone.
LEMMA DueStays ==
    ASSUME TypeOK, IsFiniteSet(Filed),
           \A r \in RequestIds : Granted(r)' <=> Granted(r),
           \A r \in RequestIds : Granted(r) =>
                 Balance(r)' = Balance(r) /\ req'[r].charge = req[r].charge
    PROVE  Due' = Due
<1> SUFFICES ASSUME NEW b \in Employees \X LeaveTypes \X Years
             PROVE  SumFunctionOnSet(Charges', GrantedOn(b)') = SumFunctionOnSet(Charges, GrantedOn(b))
  BY DEF Due
<1> DEFINE S == GrantedOn(b)
<1>1. GrantedOn(b)' = S
  BY DEF GrantedOn
<1>2. IsFiniteSet(S) /\ \A r \in S : Charges'[r] = Charges[r]
  BY GrantedFinite DEF GrantedOn, Granted, Charges
<1> HIDE DEF S
<1>3. SumFunctionOnSet(Charges', S) = SumFunctionOnSet(Charges, S)
  BY <1>2, SumSame
<1> QED BY <1>1, <1>3 DEF S

\* A step that writes nothing the invariant speaks of only has its own job to answer for.
LEMMA AloneReads ==
    ASSUME \A f, g \in Handlers : f = g, HTypeInv, AloneInv, NEW h \in Handlers,
           NEW k \in Job \cup {Null}, job' = [job EXCEPT ![h] = k],
           UNCHANGED <<req, used, attendance, edited>>,
           k # Null => JobAlone(k, req, used, Due, attendance, edited)
    PROVE  AloneInv'
<1>1. \A g \in Handlers : job'[g] = k
  BY DEF HTypeInv, HTypeOK
<1>2. /\ Filed' = Filed /\ Due' = Due /\ Charges' = Charges
      /\ \A r \in RequestIds : Granted(r)' <=> Granted(r)
  BY DEF Filed, Charges, Due, GrantedOn, Granted, Balance
<1>3. NeverOvercharged' /\ NoOrphanPlaceholder'
  BY <1>2 DEF AloneInv, NeverOvercharged, NoOrphanPlaceholder, GrantedOn, Covers, Granted, Balance, Filed
<1> QED BY <1>1, <1>2, <1>3 DEF AloneInv

\* A handler that starts holds what the database says.
LEMMA AloneStart ==
    ASSUME \A f, g \in Handlers : f = g, HTypeInv, AloneInv, NEW h \in Handlers, Start(h),
           edited' = edited
    PROVE  AloneInv'
<1>1. UNCHANGED <<req, used, attendance, edited>>
  BY StartType DEF dbVars
<1>2. ASSUME NEW op, NEW at, NEW u, NEW id, NEW row, Begin(h, op, at, u, id, row),
             row.first <= row.last, row.first \in Days,
             id = Null \/ (id \in Filed /\ row = req[id]),
             at \notin {"SETTLE", "DAYS", "ROWS", "RECORD"},
             at = "BALANCE" => op = "CANCEL",
             at = "WRITE" => op = "CANCEL" /\ row.status # "APPROVED" /\ id # Null,
             op \in {"APPROVE", "SIMPLE", "REJECT"} => row.status # "APPROVED" /\ id # Null
      PROVE  AloneInv'
  <2> DEFINE k == [op |-> op, at |-> at, user |-> u, id |-> id, row |-> row,
                   next |-> Null, there |-> {}, seen |-> 0, day |-> row.first]
  <2>1. job' = [job EXCEPT ![h] = k]
    BY <1>2 DEF Begin
  <2>2. k \in Job \cup {Null}
    <3>1. job'[h] = k
      BY <2>1 DEF HTypeInv, HTypeOK
    <3> QED BY <3>1, StartType
  <2>3. /\ k.op = op /\ k.at = at /\ k.id = id /\ k.row = row /\ k.next = Null /\ k.day = row.first
    OBVIOUS
  <2> HIDE DEF k
  <2>4. k.row.first <= k.day
    BY <1>2, <2>3, BoundsAssumption DEF Days
  <2>5. JobAlone(k, req, used, Due, attendance, edited)
    BY <1>2, <2>3, <2>4 DEF JobAlone, JobPlace, JobBalance, JobRows, Granting, Withdrawing, SameLeaveAs
  <2> QED BY <1>1, <2>1, <2>2, <2>5, AloneReads
<1>3. \A r \in Filed : req[r].first <= req[r].last /\ req[r].first \in Days /\ r # Null
  BY NullJobAssumption DEF AloneInv, HTypeInv, HTypeOK, TypeOK, Request, Filed
<1>4. ASSUME NEW u \in Users, NEW e \in Employees, NEW t \in LeaveTypes, NEW first \in Days,
             NEW last \in Days, NEW session, NEW override,
             StartCreate(h, u, e, t, first, last, session, override)
      PROVE  AloneInv'
  <2> DEFINE at == IF override THEN "ROUTE" ELSE "FUND"
             row == NewRequest(e, t, first, last, session, Null,
                               IF NeedsApproval[t] THEN "PENDING" ELSE "APPROVED",
                               IF NeedsApproval[t] THEN Null ELSE u)
  <2>1. at \in {"ROUTE", "FUND"} /\ row.first = first /\ row.last = last
    BY DEF NewRequest
  <2>2. Begin(h, "CREATE", at, u, Null, row) /\ first <= last
    BY <1>4 DEF StartCreate, ValidSpan
  <2> HIDE DEF at, row
  <2> QED BY <1>2, <2>1, <2>2
<1>5. ASSUME NEW u \in Users, NEW r \in RequestIds, StartCancel(h, u, r) PROVE AloneInv'
  <2> DEFINE at == IF req[r].status = "APPROVED" THEN "BALANCE" ELSE "WRITE"
  <2>1. r \in Filed /\ Begin(h, "CANCEL", at, u, r, req[r])
    BY <1>5 DEF StartCancel, Cancelling
  <2>2. at \in {"BALANCE", "WRITE"} /\ (at = "WRITE" => req[r].status # "APPROVED")
    OBVIOUS
  <2> HIDE DEF at
  <2> QED BY <1>2, <1>3, <2>1, <2>2
<1>6. ASSUME NEW u \in Users, NEW r \in RequestIds, StartRequest(h, u, r) PROVE AloneInv'
  <2>1. r \in Filed /\ Begin(h, "REQUEST", "NEXT", u, r, req[r])
    BY <1>6 DEF StartRequest
  <2> QED BY <1>2, <1>3, <2>1
<1>7. ASSUME NEW u \in Users, NEW r \in RequestIds, StartDecision(h, u, r) PROVE AloneInv'
  <2>1. /\ r \in Filed /\ req[r].status # "APPROVED"
        /\ \E op \in {"APPROVE", "REJECT"} : Begin(h, op, "AUTHORISE", u, r, req[r])
    BY <1>7 DEF StartDecision
  <2> QED BY <1>2, <1>3, <2>1
<1>8. ASSUME NEW u \in Users, NEW r \in RequestIds, StartCancelDecision(h, u, r) PROVE AloneInv'
  <2>1. /\ r \in Filed
        /\ \E op \in {"APPROVE_CANCEL", "REJECT_CANCEL"} :
              Begin(h, op, "AUTHORISE", u, r, req[r])
    BY <1>8 DEF StartCancelDecision
  <2> QED BY <1>2, <1>3, <2>1
<1> QED BY <1>4, <1>5, <1>6, <1>7, <1>8 DEF Start

\* The statements that only read, and the row of a decision, change no more than the job.
LEMMA AloneRead ==
    ASSUME \A f, g \in Handlers : f = g, HTypeInv, AloneInv, NEW h \in Handlers,
           Fund(h) \/ Route(h) \/ Authorise(h) \/ AuthoriseCancel(h) \/ FindNext(h)
               \/ Record(h) \/ ReadBalance(h),
           edited' = edited
    PROVE  AloneInv'
<1> DEFINE j == job[h]
<1>1. /\ UNCHANGED <<req, used, attendance, edited>> /\ j # Null
  BY DEF Fund, Route, Authorise, AuthoriseCancel, FindNext, Record, ReadBalance, ReadsOnly, dbVars, At
<1>2. /\ j \in Job /\ JobOk(j, Filed) /\ JobAlone(j, req, used, Due, attendance, edited)
      /\ job' \in [Handlers -> Job \cup {Null}] /\ j.row \in Request
  <2>1. j \in Job /\ JobOk(j, Filed) /\ JobAlone(j, req, used, Due, attendance, edited)
    BY <1>1 DEF HTypeInv, HTypeOK, JobsOk, AloneInv
  <2>2. j.row \in Request
    <3> HIDE DEF j
    <3> QED BY <2>1 DEF Job
  <2> QED BY <2>1, <2>2, StepType DEF Step
<1>3. ASSUME NEW k, job' = [job EXCEPT ![h] = k],
             k # Null => JobAlone(k, req, used, Due, attendance, edited)
      PROVE  AloneInv'
  <2>1. job'[h] = k
    BY <1>3 DEF HTypeInv, HTypeOK
  <2>2. k \in Job \cup {Null}
    BY <1>2, <2>1
  <2> QED BY <1>1, <1>3, <2>2, AloneReads
<1>4. ASSUME Return(h) PROVE AloneInv'
  BY <1>3, <1>4 DEF Return
<1>5. ASSUME NEW at \in Awaits, Goto(h, at),
             JobAlone([j EXCEPT !.at = at], req, used, Due, attendance, edited)
      PROVE  AloneInv'
  <2>1. job' = [job EXCEPT ![h] = [j EXCEPT !.at = at]]
    BY <1>5 DEF Goto
  <2> HIDE DEF j
  <2> QED BY <1>3, <1>5, <2>1
\* What a job that differs in its await alone says.
<1>6. ASSUME NEW at \in Awaits, NEW k, k.op = j.op, k.at = at, k.id = j.id, k.day = j.day,
             k.next = j.next, SameLeaveAs(k.row, j.row),
             j.at \notin {"RECORD", "WRITE"} \/ at \in {"RECORD", "WRITE"},
             at \in {"FUND", "ROUTE", "INSERT", "AUTHORISE", "NEXT", "RECORD"}
               \/ (at = "WRITE" /\ ~Withdrawing(j.op)) \/ (at = "BALANCE" /\ Withdrawing(j.op)),
             j.op \in {"APPROVE", "SIMPLE", "REJECT"} => j.at \in {"AUTHORISE", "NEXT", "RECORD", "WRITE"}
      PROVE  JobAlone(k, req, used, Due, attendance, edited)
  <2> HIDE DEF j
  <2> QED BY <1>2, <1>6 DEF JobAlone, JobPlace, JobBalance, JobRows, Granting, Withdrawing, SameLeaveAs
<1>7. ASSUME NEW at \in Awaits, Goto(h, at),
             j.at \notin {"RECORD", "WRITE"} \/ at \in {"RECORD", "WRITE"},
             at \in {"ROUTE", "NEXT", "RECORD"} \/ (at = "WRITE" /\ ~Withdrawing(j.op))
               \/ (at = "BALANCE" /\ Withdrawing(j.op)),
             j.op \in {"APPROVE", "SIMPLE", "REJECT"} => j.at \in {"AUTHORISE", "NEXT", "RECORD", "WRITE"}
      PROVE  AloneInv'
  <2> DEFINE k == [j EXCEPT !.at = at]
  <2>1. /\ k.op = j.op /\ k.at = at /\ k.id = j.id /\ k.day = j.day
        /\ k.next = j.next /\ SameLeaveAs(k.row, j.row)
    <3> HIDE DEF j
    <3> QED BY <1>2 DEF Job, SameLeaveAs
  <2> HIDE DEF k
  <2>2. JobAlone(k, req, used, Due, attendance, edited)
    BY <1>6, <1>7, <2>1
  <2> QED BY <1>5, <1>7, <2>2 DEF k
<1>8. CASE Fund(h)
  <2>1. j.op = "CREATE" /\ j.at = "FUND" /\ (Goto(h, "ROUTE") \/ Return(h))
    BY <1>8 DEF Fund, At
  <2> HIDE DEF j
  <2> QED BY <1>4, <1>7, <2>1 DEF Awaits
<1>9. CASE Route(h)
  <2> DEFINE orders == IF RowOf(h).status = "PENDING" THEN DOMAIN LiveTiers(h) ELSE {}
             k == [j EXCEPT !.at = "INSERT", !.there = orders,
                            !.row = [j.row EXCEPT !.tier = FirstIn(orders)]]
  <2>1. job' = [job EXCEPT ![h] = k] /\ j.op = "CREATE" /\ j.at = "ROUTE"
    BY <1>2, <1>9 DEF Route, At, Job, Request
  <2> HIDE DEF j, orders
  <2>2. /\ k.op = j.op /\ k.at = "INSERT" /\ k.id = j.id /\ k.day = j.day
        /\ k.next = j.next /\ SameLeaveAs(k.row, j.row)
    BY <1>2 DEF Job, SameLeaveAs, Request
  <2> HIDE DEF k
  <2> QED BY <1>3, <1>6, <2>1, <2>2 DEF Awaits
<1>10. CASE Authorise(h)
  <2>1. j.op \in {"APPROVE", "REJECT"} /\ j.at = "AUTHORISE"
    BY <1>10 DEF Authorise, At
  <2>2. \/ Return(h) \/ Goto(h, "WRITE") \/ Goto(h, "NEXT")
        \/ job' = [job EXCEPT ![h].op = "SIMPLE", ![h].at = "WRITE"]
    BY <1>10 DEF Authorise
  <2>3. CASE job' = [job EXCEPT ![h].op = "SIMPLE", ![h].at = "WRITE"]
    <3> DEFINE k == [j EXCEPT !.op = "SIMPLE", !.at = "WRITE"]
    <3>1. job' = [job EXCEPT ![h] = k]
      BY <1>2, <2>3 DEF Job
    <3> HIDE DEF j
    <3>2. /\ k.op = "SIMPLE" /\ k.at = "WRITE" /\ k.id = j.id /\ k.day = j.day
          /\ k.next = j.next /\ k.row = j.row
      BY <1>2 DEF Job
    <3> HIDE DEF k
    <3>3. JobAlone(k, req, used, Due, attendance, edited)
      BY <1>2, <2>1, <3>2 DEF JobAlone, JobPlace, JobBalance, JobRows, Granting, Withdrawing
    <3> QED BY <1>3, <3>1, <3>3
  <2> HIDE DEF j
  <2> QED BY <1>4, <1>7, <2>1, <2>2, <2>3 DEF Awaits, Withdrawing
<1>11. CASE AuthoriseCancel(h)
  <2>1. /\ j.op \in {"APPROVE_CANCEL", "REJECT_CANCEL"} /\ j.at = "AUTHORISE"
        /\ \/ Return(h) \/ Goto(h, "NEXT")
           \/ j.op = "REJECT_CANCEL" /\ Goto(h, "WRITE")
           \/ j.op = "APPROVE_CANCEL" /\ Goto(h, "BALANCE")
    BY <1>11 DEF AuthoriseCancel, At
  <2> HIDE DEF j
  <2> QED BY <1>4, <1>7, <2>1 DEF Awaits, Withdrawing
<1>12. CASE FindNext(h)
  <2> DEFINE next == CASE j.op = "APPROVE" -> NextIn(DOMAIN LiveTiers(h), j.row.tier)
                       [] j.op = "REQUEST" -> FirstIn(CancellationOrders(LiveTiers(h)))
                       [] j.op = "APPROVE_CANCEL" ->
                            NextIn(CancellationOrders(LiveTiers(h)), j.row.cTier)
             at == CASE j.op = "APPROVE" -> "RECORD"
                     [] j.op = "REQUEST" -> "WRITE"
                     [] j.op = "APPROVE_CANCEL" -> IF next = Null THEN "BALANCE" ELSE "WRITE"
             k == [j EXCEPT !.next = next, !.at = at]
  <2>1. /\ j.op \in {"APPROVE", "REQUEST", "APPROVE_CANCEL"} /\ j.at = "NEXT"
        /\ job' = [job EXCEPT ![h] = k]
    BY <1>2, <1>12 DEF FindNext, At, Job, RowOf
  <2>2. \/ j.op = "APPROVE" /\ at = "RECORD"
        \/ j.op = "REQUEST" /\ at = "WRITE"
        \/ j.op = "APPROVE_CANCEL" /\ next = Null /\ at = "BALANCE"
        \/ j.op = "APPROVE_CANCEL" /\ next # Null /\ at = "WRITE"
    BY <2>1
  <2> HIDE DEF j, next, at
  <2>3. /\ k.op = j.op /\ k.at = at /\ k.id = j.id /\ k.day = j.day
        /\ k.next = next /\ k.row = j.row
    BY <1>2 DEF Job
  <2> HIDE DEF k
  <2>4. JobAlone(k, req, used, Due, attendance, edited)
    BY <1>2, <2>1, <2>2, <2>3 DEF JobAlone, JobPlace, JobBalance, JobRows, Granting, Withdrawing
  <2> QED BY <1>3, <2>1, <2>4
<1>13. CASE Record(h)
  <2>1. j.op = "APPROVE" /\ j.at = "RECORD" /\ Goto(h, "WRITE")
    BY <1>13 DEF Record, At
  <2> HIDE DEF j
  <2> QED BY <1>7, <2>1 DEF Awaits, Withdrawing
<1>14. CASE ReadBalance(h)
  <2> DEFINE k == [j EXCEPT !.seen = used[BalanceOf(h)], !.at = "SETTLE"]
  <2>1. job' = [job EXCEPT ![h] = k] /\ j.at = "BALANCE"
    BY <1>2, <1>14 DEF ReadBalance, Job, At
  <2>2. BalanceOf(h) = <<j.row.employee, j.row.type, YearOf[j.row.first]>>
    BY DEF BalanceOf, RowOf
  <2> HIDE DEF j
  <2>3. /\ k.op = j.op /\ k.at = "SETTLE" /\ k.id = j.id /\ k.day = j.day
        /\ k.next = j.next /\ k.row = j.row /\ k.seen = used[BalanceOf(h)]
    BY <1>2 DEF Job
  <2> HIDE DEF k
  <2>4. JobAlone(k, req, used, Due, attendance, edited)
    BY <1>2, <2>1, <2>2, <2>3
       DEF JobAlone, JobPlace, JobBalance, JobRows, Granting, Withdrawing, Slack
  <2> QED BY <1>3, <2>1, <2>4
<1> QED BY <1>8, <1>9, <1>10, <1>11, <1>12, <1>13, <1>14

\* A step that writes answers for what it wrote and for its own job.
LEMMA AloneWrites ==
    ASSUME \A f, g \in Handlers : f = g, HTypeInv, NEW h \in Handlers,
           NEW k, job' = [job EXCEPT ![h] = k],
           IsFiniteSet(Filed'), \A r \in Filed' : req'[r].first <= req'[r].last,
           NeverOvercharged', NoOrphanPlaceholder',
           k # Null => JobAlone(k, req', used', Due', attendance', edited')
    PROVE  AloneInv'
<1>1. \A g \in Handlers : job'[g] = k
  BY DEF HTypeInv, HTypeOK
<1> QED BY <1>1 DEF AloneInv

\* What a balance shows against what its granted leaves were charged.
LEMMA Charged ==
    ASSUME TypeOK
    PROVE  /\ NeverOvercharged <=> \A b \in Employees \X LeaveTypes \X Years : used[b] <= Due[b]
           /\ \A b \in Employees \X LeaveTypes \X Years : used[b] \in Nat
<1>1. DOMAIN used = Employees \X LeaveTypes \X Years
  BY DEF TypeOK
<1>2. \A b \in Employees \X LeaveTypes \X Years : Due[b] = SumFunctionOnSet(Charges, GrantedOn(b))
  BY DEF Due
<1> QED BY <1>1, <1>2 DEF NeverOvercharged, TypeOK

\* The write of a balance: a grant makes up what was missing, a withdrawal
\* leaves the charge out before the request says so.
LEMMA AloneSettle ==
    ASSUME \A f, g \in Handlers : f = g, HTypeInv, AloneInv, NEW h \in Handlers, WriteBalance(h),
           edited' = edited
    PROVE  AloneInv'
<1> DEFINE j == job[h]
           B == <<j.row.employee, j.row.type, YearOf[j.row.first]>>
           charge == j.row.charge
<1>1. /\ j # Null /\ j.at = "SETTLE" /\ UNCHANGED <<req, attendance, edited>>
      /\ used' = [used EXCEPT ![B] = IF Granting(j.op) THEN j.seen + charge
                                     ELSE IF j.seen < charge THEN 0 ELSE j.seen - charge]
      /\ job' = [job EXCEPT ![h] = [j EXCEPT !.at = IF Granting(j.op) THEN "DAYS" ELSE "ROWS"]]
  BY DEF WriteBalance, At, BalanceOf, RowOf, Goto
<1>2. /\ TypeOK /\ j \in Job /\ JobOk(j, Filed) /\ JobAlone(j, req, used, Due, attendance, edited)
      /\ used' \in [Employees \X LeaveTypes \X Years -> Nat]
  <2>1. used' \in [Employees \X LeaveTypes \X Years -> Nat]
    BY StepType DEF Step
  <2> QED BY <1>1, <2>1 DEF HTypeInv, HTypeOK, JobsOk, AloneInv
<1>3. B \in Employees \X LeaveTypes \X Years /\ charge \in Nat
  <2>1. j.row \in Request
    <3> HIDE DEF j
    <3> QED BY <1>2 DEF Job
  <2> HIDE DEF j
  <2> QED BY <2>1, TypesAssumption DEF Request
<1>4. /\ Filed' = Filed /\ Due' = Due /\ Charges' = Charges
      /\ \A r \in RequestIds : Granted(r)' <=> Granted(r)
  BY <1>1 DEF Filed, Charges, Due, GrantedOn, Granted, Balance
<1>5. NoOrphanPlaceholder'
  BY <1>1, <1>4 DEF AloneInv, NoOrphanPlaceholder, Covers
<1>6. /\ j.seen = used[B] /\ used[B] \in Nat /\ Due[B] \in Nat /\ used[B] <= Due[B]
      /\ Granting(j.op) => used[B] + charge <= Due[B]
  <2>1. Due[B] \in Nat /\ used[B] <= Due[B] /\ used[B] \in Nat
    BY <1>2, <1>3, Charged, DueCovers DEF AloneInv
  <2> QED BY <1>1, <1>2, <2>1 DEF JobAlone, JobBalance, Slack
<1>7. ~Granting(j.op) =>
         Withdrawing(j.op) /\ (req[j.id].status = "APPROVED" => charge <= Due[B])
  <2>1. ~Granting(j.op) => Withdrawing(j.op) /\ j.id \in Filed /\ SameLeaveAs(j.row, req[j.id])
    BY <1>1, <1>2 DEF JobAlone, JobPlace, JobOk, Withdrawing
  <2>2. ASSUME ~Granting(j.op), req[j.id].status = "APPROVED" PROVE charge <= Due[B]
    <3>1. j.id \in RequestIds /\ Granted(j.id)
      BY <2>1, <2>2 DEF Filed, Granted
    <3>2. Balance(j.id) = B /\ req[j.id].charge = charge
      BY <2>1, <2>2 DEF Balance, SameLeaveAs
    <3> QED BY <1>2, <3>1, <3>2, DueCovers DEF AloneInv
  <2> QED BY <2>1, <2>2
<1> DEFINE sum == IF Granting(j.op) THEN j.seen + charge
                  ELSE IF j.seen < charge THEN 0 ELSE j.seen - charge
<1>8. sum <= Due[B] /\ (~Granting(j.op) /\ charge <= Due[B] => sum + charge <= Due[B])
  <2> DEFINE due == Due[B]
             spent == used[B]
  <2> HIDE DEF j, B, charge, due, spent
  <2>1. /\ spent \in Nat /\ due \in Nat /\ charge \in Nat /\ spent <= due /\ j.seen = spent
        /\ Granting(j.op) => spent + charge <= due
    BY <1>3, <1>6 DEF due, spent
  <2>2. CASE Granting(j.op)
    BY <2>1, <2>2 DEF due
  <2>3. CASE ~Granting(j.op) /\ spent < charge
    BY <2>1, <2>3 DEF due
  <2>4. CASE ~Granting(j.op) /\ ~(spent < charge)
    BY <2>1, <2>4 DEF due
  <2> QED BY <2>2, <2>3, <2>4
<1>9. used'[B] = sum /\ \A b \in Employees \X LeaveTypes \X Years : b # B => used'[b] = used[b]
  BY <1>1, <1>2, <1>3 DEF TypeOK
<1> HIDE DEF sum
<1>10. NeverOvercharged'
  <2>1. \A b \in Employees \X LeaveTypes \X Years : used[b] <= Due[b]
    BY <1>2, Charged DEF AloneInv
  <2>2. \A b \in Employees \X LeaveTypes \X Years : used'[b] <= Due'[b]
    BY <1>4, <1>8, <1>9, <2>1
  <2>3. DOMAIN used' = Employees \X LeaveTypes \X Years
    BY <1>2
  <2> QED BY <2>2, <2>3 DEF NeverOvercharged, Due
<1> DEFINE k == [j EXCEPT !.at = IF Granting(j.op) THEN "DAYS" ELSE "ROWS"]
<1>11. JobAlone(k, req, used', Due, attendance, edited)
  <2>1. /\ k.op = j.op /\ k.at = (IF Granting(j.op) THEN "DAYS" ELSE "ROWS") /\ k.id = j.id
        /\ k.day = j.day /\ k.next = j.next /\ k.row = j.row
    <3> HIDE DEF j
    <3> QED BY <1>2 DEF Job
  <2> HIDE DEF k
  <2>2. JobPlace(k, req)
    <3> HIDE DEF j
    <3> QED BY <1>1, <1>2, <1>7, <2>1 DEF JobAlone, JobPlace, Granting, Withdrawing
  <2>3. JobBalance(k, req, used', Due)
    <3>1. k.at = "ROWS" /\ Withdrawing(k.op) /\ req[k.id].status = "APPROVED" => Slack(k, used', Due)
      BY <1>7, <1>8, <1>9, <2>1 DEF Slack
    <3> HIDE DEF j
    <3> QED BY <2>1, <3>1 DEF JobBalance, Withdrawing, Granting
  <2>4. JobRows(k, req, attendance, edited)
    <3> HIDE DEF j
    <3> QED BY <2>1 DEF JobRows
  <2> QED BY <2>2, <2>3, <2>4 DEF JobAlone
<1>12. job' = [job EXCEPT ![h] = k]
  BY <1>1
<1>13. IsFiniteSet(Filed') /\ \A r \in Filed' : req'[r].first <= req'[r].last
  BY <1>1, <1>4 DEF AloneInv
<1>14. req' = req /\ attendance' = attendance /\ edited' = edited
  BY <1>1
<1> HIDE DEF k, j
<1>15. JobAlone(k, req', used', Due', attendance', edited')
  BY <1>4, <1>11, <1>14
<1> QED BY <1>5, <1>10, <1>12, <1>13, <1>15, AloneWrites

\* The rows of a leave: marking a day of a leave that is granted gives no row
\* without one, and the deletion leaves none that no hand has corrected.
LEMMA AloneMarks ==
    ASSUME \A f, g \in Handlers : f = g, HTypeInv, AloneInv, NEW h \in Handlers,
           MarkDay(h) \/ DropRows(h), edited' = edited
    PROVE  AloneInv'
<1> DEFINE j == job[h]
<1>1. j # Null /\ UNCHANGED <<req, used, edited>>
  BY DEF MarkDay, DropRows, At
<1>2. /\ TypeOK /\ j \in Job /\ JobOk(j, Filed) /\ JobAlone(j, req, used, Due, attendance, edited)
  BY <1>1 DEF HTypeInv, HTypeOK, JobsOk, AloneInv
<1>3. j.row \in Request /\ j.row.first \in Days /\ j.row.last \in Days /\ j.day \in Days
  <2>1. j.row \in Request /\ j.day \in Days
    <3> HIDE DEF j
    <3> QED BY <1>2 DEF Job
  <2> HIDE DEF j
  <2> QED BY <2>1 DEF Request
<1>4. /\ Filed' = Filed /\ Due' = Due /\ Charges' = Charges
      /\ \A r \in RequestIds : Granted(r)' <=> Granted(r)
      /\ NeverOvercharged'
  <2>1. /\ Filed' = Filed /\ Due' = Due /\ Charges' = Charges
        /\ \A r \in RequestIds : Granted(r)' <=> Granted(r)
    BY <1>1 DEF Filed, Charges, Due, GrantedOn, Granted, Balance
  <2>2. NeverOvercharged'
    BY <1>1, <2>1 DEF AloneInv, NeverOvercharged, GrantedOn, Balance
  <2> QED BY <2>1, <2>2
<1>5. ASSUME NEW k, job' = [job EXCEPT ![h] = k], NoOrphanPlaceholder',
             k # Null => JobAlone(k, req, used, Due, attendance', edited)
      PROVE  AloneInv'
  BY <1>1, <1>4, <1>5, AloneWrites DEF AloneInv
<1>6. CASE MarkDay(h)
  <2>1. /\ j.at = "DAYS" /\ Granting(j.op) /\ j.id \in Filed /\ req[j.id].status = "APPROVED"
        /\ SameLeaveAs(j.row, req[j.id]) /\ j.row.first <= j.day /\ j.day <= j.row.last
    BY <1>2, <1>6 DEF MarkDay, At, JobAlone, JobPlace, JobOk
  <2>2. attendance' = [attendance EXCEPT ![<<j.row.employee, j.day>>] =
                         IF @ = "NONE" THEN "ON_LEAVE" ELSE @]
    BY <1>6 DEF MarkDay, RowOf
  <2>3. NoOrphanPlaceholder'
    <3> SUFFICES ASSUME NEW e \in Employees, NEW d \in Days,
                        attendance'[<<e, d>>] = "ON_LEAVE", <<e, d>> \notin edited
                 PROVE  \E r \in RequestIds : Granted(r) /\ Covers(r, e, d)
      BY <1>1, <1>4 DEF NoOrphanPlaceholder, Covers
    <3>1. CASE attendance[<<e, d>>] = "ON_LEAVE"
      BY <3>1 DEF AloneInv, NoOrphanPlaceholder
    <3>2. CASE attendance[<<e, d>>] # "ON_LEAVE"
      <4>1. e = j.row.employee /\ d = j.day
        BY <1>2, <2>2, <3>2 DEF TypeOK
      <4>2. j.id \in RequestIds /\ Granted(j.id) /\ Covers(j.id, e, d)
        BY <2>1, <4>1 DEF Granted, Covers, Filed, SameLeaveAs
      <4> QED BY <4>2
    <3> QED BY <3>1, <3>2
  <2>4. CASE j.day < j.row.last
    <3> DEFINE k == [j EXCEPT !.day = j.day + 1]
    <3>1. job' = [job EXCEPT ![h] = k]
      BY <1>2, <1>6, <2>4 DEF MarkDay, RowOf, Job
    <3>2. /\ k.op = j.op /\ k.at = "DAYS" /\ k.id = j.id /\ k.day = j.day + 1
          /\ k.next = j.next /\ k.row = j.row
      <4> HIDE DEF j
      <4> QED BY <1>2, <2>1 DEF Job
    <3> HIDE DEF k, j
    <3>3. k.row.first <= k.day /\ k.day <= k.row.last
      BY <1>3, <2>1, <2>4, <3>2, BoundsAssumption DEF Days
    <3>4. JobAlone(k, req, used, Due, attendance', edited)
      BY <1>2, <2>1, <3>2, <3>3 DEF JobAlone, JobPlace, JobBalance, JobRows
    <3> QED BY <1>5, <2>3, <3>1, <3>4
  <2>5. CASE ~(j.day < j.row.last)
    <3>1. job' = [job EXCEPT ![h] = Null]
      BY <1>6, <2>5 DEF MarkDay, RowOf, Return
    <3> QED BY <1>5, <2>3, <3>1
  <2> QED BY <2>4, <2>5
<1>7. CASE DropRows(h)
  <2>1. /\ j.at = "ROWS" /\ job' = [job EXCEPT ![h] = [j EXCEPT !.at = "WRITE"]]
        /\ attendance' = [k \in Employees \X Days |->
                            IF /\ k[1] = j.row.employee /\ k[2] \in j.row.first .. j.row.last
                               /\ attendance[k] = "ON_LEAVE"
                            THEN "NONE" ELSE attendance[k]]
    BY <1>7 DEF DropRows, At, RowOf, Goto
  <2>2. NoOrphanPlaceholder'
    BY <1>1, <1>4, <2>1 DEF AloneInv, NoOrphanPlaceholder, Covers
  <2>3. \A d \in Days : j.row.first <= d /\ d <= j.row.last
                            => attendance'[<<j.row.employee, d>>] # "ON_LEAVE"
    <3>1. j.row.employee \in Employees
      BY <1>3 DEF Request
    <3> HIDE DEF j
    <3>2. \A d \in Days : j.row.first <= d /\ d <= j.row.last => d \in j.row.first .. j.row.last
      BY <1>3, BoundsAssumption DEF Days
    <3> QED BY <2>1, <3>1, <3>2
  <2> DEFINE k == [j EXCEPT !.at = "WRITE"]
  <2>4. /\ k.op = j.op /\ k.at = "WRITE" /\ k.id = j.id /\ k.day = j.day
        /\ k.next = j.next /\ k.row = j.row
    <3> HIDE DEF j
    <3> QED BY <1>2 DEF Job
  <2>5. job' = [job EXCEPT ![h] = k]
    BY <2>1
  <2> HIDE DEF k, j
  <2>6. JobAlone(k, req, used, Due, attendance', edited)
    BY <1>2, <2>1, <2>3, <2>4
       DEF JobAlone, JobPlace, JobBalance, JobRows, Granting, Withdrawing, Slack
  <2> QED BY <1>5, <2>2, <2>5, <2>6
<1> QED BY <1>6, <1>7

\* The update of a request: a grant opens a gap its handler still has to charge,
\* a withdrawal closes the one its handler has made.
LEMMA AloneUpdates ==
    ASSUME \A f, g \in Handlers : f = g, HTypeInv, HTypeInv', AloneInv, NEW h \in Handlers,
           NEW r, r = job[h].id,
           MoveOn(h) \/ Grant(h) \/ Refuse(h) \/ Withdraw(h), edited' = edited
    PROVE  AloneInv'
<1> DEFINE j == job[h]
           B == <<j.row.employee, j.row.type, YearOf[j.row.first]>>
           Balances == Employees \X LeaveTypes \X Years
<1>1. /\ r \in Filed /\ req[r] \in Request /\ req'[r] \in Request
      /\ \A s \in RequestIds : s # r => req'[s] = req[s]
      /\ Filed' = Filed /\ SameLeave(r) /\ j.at = "WRITE"
      /\ used' = used /\ attendance' = attendance
  BY RowWrites DEF WritesRow
<1>2. j # Null
  BY DEF MoveOn, Grant, Refuse, Withdraw, At
<1>3. /\ TypeOK /\ TypeOK' /\ j \in Job /\ JobOk(j, Filed) /\ r \in RequestIds
      /\ JobAlone(j, req, used, Due, attendance, edited)
  BY <1>1, <1>2 DEF HTypeInv, HTypeOK, JobsOk, AloneInv, Filed
<1>4. /\ SameLeaveAs(j.row, req[r]) /\ SameLeaveAs(j.row, req'[r])
      /\ Balance(r) = B /\ Balance(r)' = B
      /\ req[r].charge = j.row.charge /\ req'[r].charge = j.row.charge
  <2>1. r # Null => SameLeaveAs(j.row, req[r])
    BY <1>3 DEF JobAlone, JobPlace
  <2> HIDE DEF j
  <2> QED BY <1>1, <1>3, <2>1, NullJobAssumption DEF SameLeaveAs, SameLeave, Balance
<1>5. B \in Balances /\ j.row.charge \in Nat
  <2> HIDE DEF j
  <2> QED BY <1>1, <1>4, TypesAssumption DEF Request, Balance
<1>6. /\ IsFiniteSet(Filed') /\ \A s \in Filed' : req'[s].first <= req'[s].last
  BY <1>1 DEF AloneInv, SameLeave, Filed
<1>7. \A b \in Balances : used[b] \in Nat /\ Due[b] \in Nat /\ used[b] <= Due[b]
  BY <1>3, Charged, DueCovers DEF AloneInv
<1>8. ASSUME NEW k, job' = [job EXCEPT ![h] = k], NoOrphanPlaceholder',
             \A b \in Balances : used[b] <= Due'[b],
             k # Null => JobAlone(k, req', used, Due', attendance, edited)
      PROVE  AloneInv'
  <2>1. NeverOvercharged'
    <3>1. \A b \in Balances : Due'[b] = SumFunctionOnSet(Charges', GrantedOn(b)')
      BY DEF Due
    <3>2. DOMAIN used' = Balances
      BY <1>3 DEF TypeOK
    <3> QED BY <1>1, <1>8, <3>1, <3>2 DEF NeverOvercharged
  <2> HIDE DEF j
  <2> QED BY <1>1, <1>6, <1>8, <2>1, AloneWrites
\* A placeholder row loses its leave only when its own leave is withdrawn.
<1>9. ASSUME \A e \in Employees, d \in Days :
                attendance[<<e, d>>] = "ON_LEAVE" /\ <<e, d>> \notin edited
                    => ~(Granted(r) /\ ~Granted(r)' /\ Covers(r, e, d))
      PROVE  NoOrphanPlaceholder'
  <2> SUFFICES ASSUME NEW e \in Employees, NEW d \in Days,
                      attendance[<<e, d>>] = "ON_LEAVE", <<e, d>> \notin edited
               PROVE  \E s \in RequestIds : Granted(s)' /\ Covers(s, e, d)'
    BY <1>1 DEF NoOrphanPlaceholder
  <2>1. PICK s \in RequestIds : Granted(s) /\ Covers(s, e, d)
    BY DEF AloneInv, NoOrphanPlaceholder
  <2>2. Covers(s, e, d)'
    BY <1>1, <2>1 DEF Covers, SameLeave
  <2>3. Granted(s)'
    BY <1>1, <1>9, <2>1 DEF Granted, Filed
  <2> QED BY <2>2, <2>3
<1>10. Granted(r) <=> req[r].status = "APPROVED"
  BY <1>1 DEF Granted
<1>11. Granted(r)' <=> req'[r].status = "APPROVED"
  BY <1>1 DEF Granted
\* The sums when the request is as granted as it was.
<1>12. ASSUME Granted(r)' <=> Granted(r), Return(h)
       PROVE  AloneInv'
  <2>1. \A s \in RequestIds : Granted(s)' <=> Granted(s)
    BY <1>1, <1>12 DEF Granted, Filed
  <2>2. \A s \in RequestIds : Balance(s)' = Balance(s) /\ req'[s].charge = req[s].charge
    BY <1>1, <1>4 DEF Balance
  <2>3. Due' = Due
    BY <1>3, <2>1, <2>2, DueStays DEF AloneInv
  <2>4. NoOrphanPlaceholder' /\ job' = [job EXCEPT ![h] = Null]
    BY <1>9, <1>12 DEF Return
  <2> HIDE DEF j
  <2> QED BY <1>7, <1>8, <2>3, <2>4
<1>13. CASE Return(h) /\ req'[r].status = req[r].status
  BY <1>10, <1>11, <1>12, <1>13
<1>14. CASE Return(h) /\ j.op = "REJECT" /\ req'[r].status = "REJECTED"
  <2>1. req[r].status # "APPROVED"
    BY <1>1, <1>3, <1>14 DEF JobAlone, JobPlace
  <2> QED BY <1>10, <1>11, <1>12, <1>14, <2>1
<1>15. CASE /\ Goto(h, "BALANCE") /\ j.op \in {"APPROVE", "SIMPLE"} /\ j.next = Null
            /\ req'[r].status = "APPROVED"
  <2>1. ~Granted(r) /\ Granted(r)'
    <3>1. req[r].status # "APPROVED"
      BY <1>1, <1>3, <1>15 DEF JobAlone, JobPlace
    <3> QED BY <1>10, <1>11, <1>15, <3>1
  <2>2. \A b \in Balances : Due'[b] = IF b = B THEN Due[b] + j.row.charge ELSE Due[b]
    <3> HIDE DEF j, B
    <3> QED BY <1>1, <1>3, <1>4, <2>1, DueGains DEF AloneInv
  <2>3. \A b \in Balances : used[b] <= Due'[b]
    BY <1>5, <1>7, <2>2
  <2> DEFINE k == [j EXCEPT !.at = "BALANCE"]
  <2>4. /\ k.op = j.op /\ k.at = "BALANCE" /\ k.id = j.id /\ k.day = j.day
        /\ k.next = j.next /\ k.row = j.row
    <3> HIDE DEF j
    <3> QED BY <1>3 DEF Job
  <2>5. job' = [job EXCEPT ![h] = k]
    BY <1>15 DEF Goto
  <2>6. NoOrphanPlaceholder'
    BY <1>9, <2>1
  <2>7. Slack(k, used, Due')
    BY <1>4, <1>5, <1>7, <2>2, <2>4 DEF Slack
  <2>8. r # Null /\ r = j.id
    BY <1>3, NullJobAssumption
  <2> HIDE DEF k, j, B
  <2>9. JobAlone(k, req', used, Due', attendance, edited)
    BY <1>3, <1>4, <1>15, <2>4, <2>7, <2>8
       DEF JobAlone, JobPlace, JobBalance, JobRows, Granting, Withdrawing
  <2> QED BY <1>8, <2>3, <2>5, <2>6, <2>9
<1>16. CASE /\ Return(h) /\ j.op \in {"CANCEL", "APPROVE_CANCEL"} /\ j.next = Null
            /\ req'[r].status = "CANCELLED"
  <2>1. CASE ~Granted(r)
    BY <1>11, <1>12, <1>16, <2>1
  <2>2. CASE Granted(r)
    <3>1. ~Granted(r)'
      BY <1>11, <1>16
    <3>2. \A b \in Balances : Due[b] = IF b = B THEN Due'[b] + j.row.charge ELSE Due'[b]
      <4> HIDE DEF j, B
      <4> QED BY <1>1, <1>3, <1>4, <2>2, <3>1, DueLoses DEF AloneInv
    <3>3. Slack(j, used, Due) /\
          \A d \in Days : j.row.first <= d /\ d <= j.row.last
                              /\ attendance[<<j.row.employee, d>>] = "ON_LEAVE"
                            => <<j.row.employee, d>> \in edited
      BY <1>1, <1>3, <1>10, <1>16, <2>2 DEF JobAlone, JobBalance, JobRows, Withdrawing
    <3>4. \A b \in Balances : Due'[b] \in Nat
      <4>1. IsFiniteSet(Filed)' /\ TypeOK'
        BY <1>3, <1>6
      <4>2. (TypeOK /\ IsFiniteSet(Filed) =>
                \A b \in Employees \X LeaveTypes \X Years : Due[b] \in Nat)'
        BY DueType, PTL
      <4> QED BY <4>1, <4>2
    <3>5. \A b \in Balances : used[b] <= Due'[b]
      <4>1. used[B] + j.row.charge <= Due[B]
        BY <1>4, <3>3 DEF Slack
      <4> HIDE DEF j, B
      <4> QED BY <1>5, <1>7, <3>2, <3>4, <4>1
    <3>6. NoOrphanPlaceholder'
      <4>1. ASSUME NEW e \in Employees, NEW d \in Days, attendance[<<e, d>>] = "ON_LEAVE",
                   Covers(r, e, d)
            PROVE  <<e, d>> \in edited
        BY <1>4, <3>3, <4>1 DEF Covers, SameLeaveAs
      <4> QED BY <1>9, <4>1
    <3> HIDE DEF j
    <3> QED BY <1>8, <1>16, <3>5, <3>6 DEF Return
  <2> QED BY <2>1, <2>2
<1> QED BY <1>13, <1>14, <1>15, <1>16, RowWrites

\* The insert of a request: one that needs no approval is granted as it is filed.
LEMMA AloneInsert ==
    ASSUME \A f, g \in Handlers : f = g, HTypeInv, HTypeInv', AloneInv, NEW h \in Handlers,
           NEW r \in RequestIds, Insert(h, r), edited' = edited
    PROVE  AloneInv'
<1> DEFINE j == job[h]
           B == <<j.row.employee, j.row.type, YearOf[j.row.first]>>
           Balances == Employees \X LeaveTypes \X Years
<1>1. /\ j # Null /\ j.op = "CREATE" /\ j.at = "INSERT" /\ r \notin Filed
      /\ req' = [req EXCEPT ![r] = j.row] /\ UNCHANGED <<used, attendance, edited>>
  BY DEF Insert, At, RowOf
<1>2. /\ TypeOK /\ TypeOK' /\ j \in Job /\ JobAlone(j, req, used, Due, attendance, edited)
      /\ j.row \in Request
  <2>1. TypeOK /\ TypeOK' /\ j \in Job /\ JobAlone(j, req, used, Due, attendance, edited)
    BY <1>1 DEF HTypeInv, HTypeOK, AloneInv
  <2>2. j.row \in Request
    <3> HIDE DEF j
    <3> QED BY <2>1 DEF Job
  <2> QED BY <2>1, <2>2
<1>3. /\ req'[r] = j.row /\ \A s \in RequestIds : s # r => req'[s] = req[s]
  <2> HIDE DEF j
  <2> QED BY <1>1, <1>2 DEF TypeOK
<1>4. Filed' = Filed \cup {r} /\ j.row # Null
  <2> HIDE DEF j
  <2> QED BY <1>2, <1>3, NullRowAssumption DEF Filed
<1>5. /\ j.row.first <= j.row.last /\ j.row.first <= j.day /\ j.day <= j.row.last /\ j.next = Null
      /\ B \in Balances /\ j.row.charge \in Nat
  <2>1. j.row.first \in Int /\ j.row.last \in Int /\ j.day \in Int
    <3> HIDE DEF j
    <3> QED BY <1>2, BoundsAssumption DEF Job, Request, Days
  <2>2. B \in Balances /\ j.row.charge \in Nat
    <3> HIDE DEF j
    <3> QED BY <1>2, TypesAssumption DEF Request
  <2> QED BY <1>1, <1>2, <2>1, <2>2 DEF JobAlone, JobPlace
<1>6. IsFiniteSet(Filed') /\ \A s \in Filed' : req'[s].first <= req'[s].last
  <2>1. \A s \in Filed : s \in RequestIds /\ s # r
    BY <1>1 DEF Filed
  <2> HIDE DEF j
  <2> QED BY <1>3, <1>4, <1>5, <2>1, FS_AddElement DEF AloneInv
<1>7. \A b \in Balances : used[b] \in Nat /\ Due[b] \in Nat /\ used[b] <= Due[b]
  BY <1>2, Charged, DueCovers DEF AloneInv
<1>8. ~Granted(r) /\ (Granted(r)' <=> j.row.status = "APPROVED") /\ Balance(r)' = B
  BY <1>1, <1>3, <1>4 DEF Granted, Balance
<1>9. NoOrphanPlaceholder'
  <2>1. \A s \in RequestIds : Granted(s) => Granted(s)' /\ req'[s] = req[s]
    BY <1>3, <1>8 DEF Granted, Filed
  <2> QED BY <1>1, <2>1 DEF AloneInv, NoOrphanPlaceholder, Covers
<1>10. ASSUME NEW k, job' = [job EXCEPT ![h] = k], \A b \in Balances : used[b] <= Due'[b],
              k # Null => JobAlone(k, req', used, Due', attendance, edited)
       PROVE  AloneInv'
  <2>1. NeverOvercharged'
    <3>1. \A b \in Balances : Due'[b] = SumFunctionOnSet(Charges', GrantedOn(b)')
      BY DEF Due
    <3>2. DOMAIN used' = Balances
      BY <1>2 DEF TypeOK
    <3> QED BY <1>1, <1>10, <3>1, <3>2 DEF NeverOvercharged
  <2> HIDE DEF j
  <2> QED BY <1>1, <1>6, <1>9, <1>10, <2>1, AloneWrites
<1>11. CASE j.row.status = "APPROVED"
  <2>1. \A b \in Balances : Due'[b] = IF b = B THEN Due[b] + j.row.charge ELSE Due[b]
    <3>1. ~Granted(r) /\ Granted(r)' /\ Balance(r)' = B /\ req'[r].charge = j.row.charge
      BY <1>3, <1>8, <1>11
    <3> HIDE DEF j, B
    <3> QED BY <1>2, <1>3, <3>1, DueGains DEF AloneInv
  <2>2. \A b \in Balances : used[b] <= Due'[b]
    BY <1>5, <1>7, <2>1
  <2> DEFINE k == [j EXCEPT !.at = "BALANCE", !.id = r]
  <2>3. job' = [job EXCEPT ![h] = k]
    BY <1>2, <1>11 DEF Insert, RowOf, Job
  <2>4. /\ k.op = j.op /\ k.at = "BALANCE" /\ k.id = r /\ k.day = j.day
        /\ k.next = j.next /\ k.row = j.row
    <3> HIDE DEF j
    <3> QED BY <1>2 DEF Job
  <2>5. Slack(k, used, Due')
    BY <1>5, <1>7, <2>1, <2>4 DEF Slack
  <2>6. r # Null
    BY NullJobAssumption
  <2> HIDE DEF k, j
  <2>7. JobAlone(k, req', used, Due', attendance, edited)
    BY <1>1, <1>3, <1>5, <1>11, <2>4, <2>5, <2>6
       DEF JobAlone, JobPlace, JobBalance, JobRows, Granting, Withdrawing, SameLeaveAs
  <2> QED BY <1>10, <2>2, <2>3, <2>7
<1>12. CASE j.row.status # "APPROVED"
  <2>1. \A s \in RequestIds : Granted(s)' <=> Granted(s)
    BY <1>3, <1>8, <1>12 DEF Granted, Filed
  <2>2. \A s \in RequestIds : Granted(s) => Balance(s)' = Balance(s) /\ req'[s].charge = req[s].charge
    BY <1>3, <1>8 DEF Balance
  <2>3. Due' = Due
    BY <1>2, <2>1, <2>2, DueStays DEF AloneInv
  <2>4. job' = [job EXCEPT ![h] = Null]
    BY <1>12 DEF Insert, RowOf, Return
  <2> HIDE DEF j
  <2> QED BY <1>7, <1>10, <2>3, <2>4
<1> QED BY <1>11, <1>12

\* Every step of the one handler keeps the invariant; a crash leaves the database
\* of a statement in between, and the other services only add rows.
LEMMA AloneNext ==
    ASSUME \A f, g \in Handlers : f = g, HTypeInv, HTypeInv', AloneInv, [HNext]_allVars
    PROVE  AloneInv'
<1>1. ASSUME NEW h \in Handlers, Start(h), edited' = edited PROVE AloneInv'
  BY <1>1, AloneStart
<1>2. ASSUME NEW h \in Handlers, Step(h), edited' = edited PROVE AloneInv'
  <2>1. CASE \E r \in RequestIds : Insert(h, r)
    BY <1>2, <2>1, AloneInsert
  <2>2. CASE MoveOn(h) \/ Grant(h) \/ Refuse(h) \/ Withdraw(h)
    BY <1>2, <2>2, AloneUpdates
  <2>3. CASE WriteBalance(h)
    BY <1>2, <2>3, AloneSettle
  <2>4. CASE MarkDay(h) \/ DropRows(h)
    BY <1>2, <2>4, AloneMarks
  <2>5. CASE Fund(h) \/ Route(h) \/ Authorise(h) \/ AuthoriseCancel(h) \/ FindNext(h)
               \/ Record(h) \/ ReadBalance(h)
    BY <1>2, <2>5, AloneRead
  <2> QED BY <1>2, <2>1, <2>2, <2>3, <2>4, <2>5 DEF Step
\* The database as it is when only a row changes.
<1>3. ASSUME UNCHANGED <<req, used>>
      PROVE  /\ Filed' = Filed /\ Due' = Due
             /\ \A r \in RequestIds : Granted(r)' <=> Granted(r)
             /\ NeverOvercharged'
  <2>1. /\ Filed' = Filed /\ Due' = Due /\ Charges' = Charges
        /\ \A r \in RequestIds : Granted(r)' <=> Granted(r)
    BY <1>3 DEF Filed, Charges, Due, GrantedOn, Granted, Balance
  <2>2. NeverOvercharged'
    BY <1>3, <2>1 DEF AloneInv, NeverOvercharged, GrantedOn, Balance
  <2> QED BY <2>1, <2>2
<1>4. ASSUME Crash, edited' = edited PROVE AloneInv'
  <2>1. UNCHANGED <<req, used, attendance, edited>> /\ \A g \in Handlers : job'[g] = Null
    BY <1>4 DEF Crash, ReadsOnly, dbVars
  <2>2. NoOrphanPlaceholder'
    BY <1>3, <2>1 DEF AloneInv, NoOrphanPlaceholder, Covers
  <2> QED BY <1>3, <2>1, <2>2 DEF AloneInv
<1>5. ASSUME Surroundings, job' = job PROVE AloneInv'
  <2>1. /\ TypeOK /\ UNCHANGED <<req, used>> /\ edited \subseteq edited'
        /\ \A k \in Employees \X Days :
              attendance'[k] = "ON_LEAVE" => attendance[k] = "ON_LEAVE" \/ k \in edited'
    <3>1. TypeOK
      BY DEF HTypeInv, HTypeOK
    <3> QED BY <1>5, <3>1, SurroundingsShape, SurroundingsAttendance
  <2>2. NoOrphanPlaceholder'
    <3> SUFFICES ASSUME NEW e \in Employees, NEW d \in Days,
                        attendance'[<<e, d>>] = "ON_LEAVE", <<e, d>> \notin edited'
                 PROVE  \E r \in RequestIds : Granted(r) /\ Covers(r, e, d)
      BY <1>3, <2>1 DEF NoOrphanPlaceholder, Covers
    <3> QED BY <2>1 DEF AloneInv, NoOrphanPlaceholder
  <2>3. ASSUME NEW h \in Handlers, job[h] # Null
        PROVE  JobAlone(job[h], req, used, Due, attendance', edited')
    <3> DEFINE j == job[h]
    <3>1. j \in Job /\ JobAlone(j, req, used, Due, attendance, edited)
      BY <2>3 DEF AloneInv, HTypeInv, HTypeOK
    <3> HIDE DEF j
    <3>2. j.row.employee \in Employees
      BY <3>1 DEF Job, Request
    <3>3. JobRows(j, req, attendance', edited')
      BY <2>1, <3>1, <3>2 DEF JobAlone, JobRows
    <3> QED BY <3>1, <3>3 DEF JobAlone, j
  <2> QED BY <1>3, <1>5, <2>1, <2>2, <2>3 DEF AloneInv
<1>6. CASE UNCHANGED allVars
  <2>1. UNCHANGED <<req, used, attendance, edited, job>>
    BY <1>6 DEF allVars, vars
  <2>2. NoOrphanPlaceholder'
    BY <1>3, <2>1 DEF AloneInv, NoOrphanPlaceholder, Covers
  <2> QED BY <1>3, <2>1, <2>2 DEF AloneInv
<1> QED BY <1>1, <1>2, <1>4, <1>5, <1>6 DEF HNext

\* The first state.
LEMMA AloneInit == HInit => AloneInv
<1> SUFFICES ASSUME HInit PROVE AloneInv
  OBVIOUS
<1>1. Filed = {} /\ \A h \in Handlers : job[h] = Null
  BY DEF HInit, Init, Filed
<1>2. \A b : GrantedOn(b) = {}
  BY <1>1 DEF GrantedOn, Granted
<1>3. \A b \in DOMAIN used : used[b] = 0
  BY DEF HInit, Init
<1>4. NeverOvercharged
  BY <1>2, <1>3, SumEmpty DEF NeverOvercharged
<1>5. NoOrphanPlaceholder
  BY DEF HInit, Init, NoOrphanPlaceholder
<1> QED BY <1>1, <1>4, <1>5, FS_EmptySet DEF AloneInv

\* While handlers do not overlap, no crash charges an employee for a leave that
\* is not granted, whatever the handler was doing and other services wrote.
THEOREM NeverOverchargedAlone ==
    ASSUME \A f, g \in Handlers : f = g
    PROVE  HSpec => []NeverOvercharged
<1>1. HTypeInv /\ AloneInv /\ [HNext]_allVars => HTypeInv' /\ AloneInv'
  BY HTypeStep, AloneNext
<1>2. AloneInv => NeverOvercharged
  BY DEF AloneInv
<1> QED BY <1>1, <1>2, HInitType, AloneInit, PTL DEF HSpec

\* Nor does it leave a placeholder row that no granted leave and no hand put there.
THEOREM PlaceholdersHaveLeavesAlone ==
    ASSUME \A f, g \in Handlers : f = g
    PROVE  HSpec => []NoOrphanPlaceholder
<1>1. HTypeInv /\ AloneInv /\ [HNext]_allVars => HTypeInv' /\ AloneInv'
  BY HTypeStep, AloneNext
<1>2. AloneInv => NoOrphanPlaceholder
  BY DEF AloneInv
<1> QED BY <1>1, <1>2, HInitType, AloneInit, PTL DEF HSpec

(***************************************************************************)
(* The lifecycle of a request while the server may die between any two     *)
(* statements.  Only the insert and the update of the request show in the  *)
(* lifecycle, and each of them makes one step of it: with one handler what *)
(* the guards read at the start still holds at the write.                  *)
(***************************************************************************)
\* What the first read found and the write still counts on.
InLife(j, rows) ==
    /\ j.op = "CREATE" /\ j.at \in {"FUND", "ROUTE", "INSERT"} =>
          /\ j.row.status \in {"PENDING", "APPROVED"} /\ j.row.cStatus = "NONE"
          /\ j.row.first <= j.row.last
          /\ \A s \in RequestIds :
                rows[s] # Null /\ rows[s].status \in {"PENDING", "APPROVED"}
                    /\ rows[s].employee = j.row.employee => ~Overlap(rows[s], j.row)
    /\ j.op \in {"APPROVE", "SIMPLE", "REJECT"} /\ j.at \in {"AUTHORISE", "NEXT", "RECORD", "WRITE"} =>
          rows[j.id].status = "PENDING"
    /\ j.op = "REQUEST" => rows[j.id].status = "APPROVED"
    /\ Withdrawing(j.op) => rows[j.id].status # "CANCELLED"

LifeInv ==
    /\ \A r \in Filed : req[r].cStatus = "PENDING" => req[r].status = "APPROVED"
    /\ \A h \in Handlers : job[h] # Null => InLife(job[h], req)

\* A step that leaves the requests alone answers for its own job.
LEMMA LifeReads ==
    ASSUME \A f, g \in Handlers : f = g, HTypeInv, LifeInv, NEW h \in Handlers,
           NEW k, job' = [job EXCEPT ![h] = k], req' = req, k # Null => InLife(k, req)
    PROVE  LifeInv'
<1>1. \A g \in Handlers : job'[g] = k
  BY DEF HTypeInv, HTypeOK
<1> QED BY <1>1 DEF LifeInv, Filed

\* A handler that starts has looked at what its write counts on.
LEMMA LifeStart ==
    ASSUME \A f, g \in Handlers : f = g, HTypeInv, LifeInv, NEW h \in Handlers, Start(h)
    PROVE  LifeInv'
<1>1. req' = req
  BY StartType DEF dbVars
<1>2. ASSUME NEW op, NEW at, NEW u, NEW id, NEW row, Begin(h, op, at, u, id, row),
             op = "CREATE" =>
                /\ row.status \in {"PENDING", "APPROVED"} /\ row.cStatus = "NONE"
                /\ row.first <= row.last
                /\ \A s \in RequestIds :
                      req[s] # Null /\ req[s].status \in {"PENDING", "APPROVED"}
                          /\ req[s].employee = row.employee => ~Overlap(req[s], row),
             op \in {"APPROVE", "SIMPLE", "REJECT"} => req[id].status = "PENDING",
             op = "REQUEST" => req[id].status = "APPROVED",
             Withdrawing(op) => req[id].status # "CANCELLED"
      PROVE  LifeInv'
  <2> DEFINE k == [op |-> op, at |-> at, user |-> u, id |-> id, row |-> row,
                   next |-> Null, there |-> {}, seen |-> 0, day |-> row.first]
  <2>1. job' = [job EXCEPT ![h] = k]
    BY <1>2 DEF Begin
  <2>2. k.op = op /\ k.id = id /\ k.row = row
    OBVIOUS
  <2> HIDE DEF k
  <2>3. InLife(k, req)
    BY <1>2, <2>2 DEF InLife
  <2> QED BY <1>1, <2>1, <2>3, LifeReads
<1>3. ASSUME NEW u \in Users, NEW e \in Employees, NEW t \in LeaveTypes, NEW first \in Days,
             NEW last \in Days, NEW session, NEW override,
             StartCreate(h, u, e, t, first, last, session, override)
      PROVE  LifeInv'
  <2> DEFINE at == IF override THEN "ROUTE" ELSE "FUND"
             row == NewRequest(e, t, first, last, session, Null,
                               IF NeedsApproval[t] THEN "PENDING" ELSE "APPROVED",
                               IF NeedsApproval[t] THEN Null ELSE u)
  <2>1. /\ row.first = first /\ row.last = last /\ row.employee = e /\ row.cStatus = "NONE"
        /\ row.status \in {"PENDING", "APPROVED"}
    BY DEF NewRequest
  <2>2. Begin(h, "CREATE", at, u, Null, row) /\ first <= last /\ DaysFree(e, first, last)
    BY <1>3 DEF StartCreate, ValidSpan
  <2> HIDE DEF at, row
  <2>3. ASSUME NEW s \in RequestIds, req[s] # Null, req[s].status \in {"PENDING", "APPROVED"},
               req[s].employee = row.employee
        PROVE  ~Overlap(req[s], row)
    <3>1. Live(s) /\ req[s].employee = e
      BY <2>1, <2>3 DEF Live, Filed
    <3> QED BY <2>1, <2>2, <3>1 DEF DaysFree, Overlap
  <2> QED BY <1>2, <2>1, <2>2, <2>3 DEF Withdrawing
<1>4. ASSUME NEW u \in Users, NEW r \in RequestIds, StartDecision(h, u, r) PROVE LifeInv'
  <2>1. /\ req[r].status = "PENDING"
        /\ \E op \in {"APPROVE", "REJECT"} : Begin(h, op, "AUTHORISE", u, r, req[r])
    BY <1>4 DEF StartDecision
  <2> QED BY <1>2, <2>1 DEF Withdrawing
<1>5. ASSUME NEW u \in Users, NEW r \in RequestIds, StartCancel(h, u, r) PROVE LifeInv'
  <2> DEFINE at == IF req[r].status = "APPROVED" THEN "BALANCE" ELSE "WRITE"
  <2>1. req[r].status # "CANCELLED" /\ Begin(h, "CANCEL", at, u, r, req[r])
    BY <1>5 DEF StartCancel
  <2> HIDE DEF at
  <2> QED BY <1>2, <2>1
<1>6. ASSUME NEW u \in Users, NEW r \in RequestIds, StartRequest(h, u, r) PROVE LifeInv'
  <2>1. req[r].status = "APPROVED" /\ Begin(h, "REQUEST", "NEXT", u, r, req[r])
    BY <1>6 DEF StartRequest
  <2> QED BY <1>2, <2>1 DEF Withdrawing
\* A cancellation is decided only where it waits, on a granted request.
<1>7. ASSUME NEW u \in Users, NEW r \in RequestIds, StartCancelDecision(h, u, r) PROVE LifeInv'
  <2>1. /\ r \in Filed /\ req[r].cStatus = "PENDING"
        /\ \E op \in {"APPROVE_CANCEL", "REJECT_CANCEL"} :
              Begin(h, op, "AUTHORISE", u, r, req[r])
    BY <1>7 DEF StartCancelDecision
  <2>2. req[r].status # "CANCELLED"
    BY <2>1 DEF LifeInv
  <2> QED BY <1>2, <2>1, <2>2
<1> QED BY <1>3, <1>4, <1>5, <1>6, <1>7 DEF Start

\* A statement that does not write the request goes on counting on the same.
LEMMA LifeGoesOn ==
    ASSUME \A f, g \in Handlers : f = g, HTypeInv, AloneInv, LifeInv, NEW h \in Handlers,
           \/ Fund(h) \/ Route(h) \/ Authorise(h) \/ AuthoriseCancel(h) \/ FindNext(h)
           \/ Record(h) \/ ReadBalance(h) \/ WriteBalance(h) \/ MarkDay(h) \/ DropRows(h)
    PROVE  LifeInv' /\ req' = req
<1> DEFINE j == job[h]
<1>1. req' = req /\ j # Null
  BY DEF Fund, Route, Authorise, AuthoriseCancel, FindNext, Record, ReadBalance, WriteBalance,
         MarkDay, DropRows, ReadsOnly, dbVars, At
<1>2. j \in Job /\ InLife(j, req) /\ (j.at = "ROWS" => Withdrawing(j.op))
  BY <1>1 DEF HTypeInv, HTypeOK, LifeInv, AloneInv, JobAlone, JobPlace
<1>3. j.row \in Request
  <2> HIDE DEF j
  <2> QED BY <1>2 DEF Job
<1>4. CASE Return(h)
  BY <1>1, <1>4, LifeReads DEF Return
<1>5. ASSUME NEW k, job' = [job EXCEPT ![h] = k], k.id = j.id,
             k.op = j.op \/ (j.op = "APPROVE" /\ k.op = "SIMPLE"),
             k.row.employee = j.row.employee, k.row.first = j.row.first, k.row.last = j.row.last,
             k.row.status = j.row.status, k.row.cStatus = j.row.cStatus,
             k.at \in {"FUND", "ROUTE", "INSERT"} => j.at \in {"FUND", "ROUTE", "INSERT"},
             k.at \in {"AUTHORISE", "NEXT", "RECORD", "WRITE"} =>
                 j.at \in {"AUTHORISE", "NEXT", "RECORD", "WRITE"} \/ Withdrawing(j.op)
      PROVE  LifeInv'
  <2> HIDE DEF j
  <2>1. InLife(k, req)
    BY <1>2, <1>5 DEF InLife, Overlap, Withdrawing
  <2> QED BY <1>1, <1>5, <2>1, LifeReads
<1>6. ASSUME NEW at, Goto(h, at),
             at \in {"FUND", "ROUTE", "INSERT"} => j.at \in {"FUND", "ROUTE", "INSERT"},
             at \in {"AUTHORISE", "NEXT", "RECORD", "WRITE"} =>
                 j.at \in {"AUTHORISE", "NEXT", "RECORD", "WRITE"} \/ Withdrawing(j.op)
      PROVE  LifeInv'
  <2> DEFINE k == [j EXCEPT !.at = at]
  <2>1. job' = [job EXCEPT ![h] = k]
    BY <1>6 DEF Goto
  <2>2. k.op = j.op /\ k.at = at /\ k.id = j.id /\ k.row = j.row
    <3> HIDE DEF j
    <3> QED BY <1>2 DEF Job
  <2> HIDE DEF k, j
  <2> QED BY <1>5, <1>6, <2>1, <2>2
<1>7. CASE Fund(h)
  <2>1. j.at = "FUND" /\ (Goto(h, "ROUTE") \/ Return(h))
    BY <1>7 DEF Fund, At
  <2> HIDE DEF j
  <2> QED BY <1>1, <1>4, <1>6, <2>1
<1>8. CASE Route(h)
  <2> DEFINE orders == IF RowOf(h).status = "PENDING" THEN DOMAIN LiveTiers(h) ELSE {}
             k == [j EXCEPT !.at = "INSERT", !.there = orders,
                            !.row = [j.row EXCEPT !.tier = FirstIn(orders)]]
  <2>1. job' = [job EXCEPT ![h] = k] /\ j.at = "ROUTE"
    BY <1>2, <1>3, <1>8 DEF Route, At, Job, Request
  <2> HIDE DEF j, orders
  <2>2. /\ k.op = j.op /\ k.at = "INSERT" /\ k.id = j.id
        /\ k.row.employee = j.row.employee /\ k.row.first = j.row.first /\ k.row.last = j.row.last
        /\ k.row.status = j.row.status /\ k.row.cStatus = j.row.cStatus
    BY <1>2, <1>3 DEF Job, Request
  <2> HIDE DEF k
  <2> QED BY <1>1, <1>5, <2>1, <2>2
<1>9. CASE Authorise(h)
  <2>1. /\ j.op \in {"APPROVE", "REJECT"} /\ j.at = "AUTHORISE"
        /\ \/ Return(h) \/ Goto(h, "WRITE") \/ Goto(h, "NEXT")
           \/ j.op = "APPROVE" /\ job' = [job EXCEPT ![h].op = "SIMPLE", ![h].at = "WRITE"]
    BY <1>9 DEF Authorise, At
  <2>2. CASE j.op = "APPROVE" /\ job' = [job EXCEPT ![h].op = "SIMPLE", ![h].at = "WRITE"]
    <3> DEFINE k == [j EXCEPT !.op = "SIMPLE", !.at = "WRITE"]
    <3>1. job' = [job EXCEPT ![h] = k]
      BY <1>2, <2>2 DEF Job
    <3> HIDE DEF j
    <3>2. k.op = "SIMPLE" /\ k.at = "WRITE" /\ k.id = j.id /\ k.row = j.row
      BY <1>2 DEF Job
    <3> HIDE DEF k
    <3> QED BY <1>1, <1>5, <2>1, <2>2, <3>1, <3>2
  <2> HIDE DEF j
  <2> QED BY <1>1, <1>4, <1>6, <2>1, <2>2
<1>10. CASE AuthoriseCancel(h)
  <2>1. /\ j.at = "AUTHORISE"
        /\ Return(h) \/ Goto(h, "NEXT") \/ Goto(h, "WRITE") \/ Goto(h, "BALANCE")
    BY <1>10 DEF AuthoriseCancel, At
  <2> HIDE DEF j
  <2> QED BY <1>1, <1>4, <1>6, <2>1
<1>11. CASE FindNext(h)
  <2> DEFINE next == CASE j.op = "APPROVE" -> NextIn(DOMAIN LiveTiers(h), j.row.tier)
                       [] j.op = "REQUEST" -> FirstIn(CancellationOrders(LiveTiers(h)))
                       [] j.op = "APPROVE_CANCEL" ->
                            NextIn(CancellationOrders(LiveTiers(h)), j.row.cTier)
             at == CASE j.op = "APPROVE" -> "RECORD"
                     [] j.op = "REQUEST" -> "WRITE"
                     [] j.op = "APPROVE_CANCEL" -> IF next = Null THEN "BALANCE" ELSE "WRITE"
             k == [j EXCEPT !.next = next, !.at = at]
  <2>1. /\ j.op \in {"APPROVE", "REQUEST", "APPROVE_CANCEL"} /\ j.at = "NEXT"
        /\ job' = [job EXCEPT ![h] = k]
    BY <1>2, <1>11 DEF FindNext, At, Job, RowOf
  <2>2. at \in {"RECORD", "WRITE", "BALANCE"}
    BY <2>1
  <2> HIDE DEF j, next, at
  <2>3. k.op = j.op /\ k.at = at /\ k.id = j.id /\ k.row = j.row
    BY <1>2 DEF Job
  <2> HIDE DEF k
  <2> QED BY <1>1, <1>5, <2>1, <2>2, <2>3
<1>12. CASE Record(h)
  <2>1. j.at = "RECORD" /\ Goto(h, "WRITE")
    BY <1>12 DEF Record, At
  <2> HIDE DEF j
  <2> QED BY <1>1, <1>6, <2>1
<1>13. CASE ReadBalance(h)
  <2> DEFINE k == [j EXCEPT !.seen = used[BalanceOf(h)], !.at = "SETTLE"]
  <2>1. job' = [job EXCEPT ![h] = k]
    BY <1>2, <1>13 DEF ReadBalance, Job
  <2> HIDE DEF j
  <2>2. k.op = j.op /\ k.at = "SETTLE" /\ k.id = j.id /\ k.row = j.row
    BY <1>2 DEF Job
  <2> HIDE DEF k
  <2> QED BY <1>1, <1>5, <2>1, <2>2
<1>14. CASE WriteBalance(h)
  <2>1. Goto(h, "DAYS") \/ Goto(h, "ROWS")
    BY <1>14 DEF WriteBalance
  <2> HIDE DEF j
  <2> QED BY <1>1, <1>6, <2>1
<1>15. CASE MarkDay(h)
  <2> DEFINE k == [j EXCEPT !.day = @ + 1]
  <2>1. j.at = "DAYS" /\ (Return(h) \/ job' = [job EXCEPT ![h] = k])
    BY <1>2, <1>15 DEF MarkDay, At, Job
  <2> HIDE DEF j
  <2>2. k.op = j.op /\ k.at = j.at /\ k.id = j.id /\ k.row = j.row
    BY <1>2 DEF Job
  <2> HIDE DEF k
  <2> QED BY <1>1, <1>4, <1>5, <2>1, <2>2
<1>16. CASE DropRows(h)
  <2>1. j.at = "ROWS" /\ Goto(h, "WRITE")
    BY <1>16 DEF DropRows, At
  <2> HIDE DEF j
  <2> QED BY <1>1, <1>2, <1>6, <2>1
<1> QED BY <1>1, <1>7, <1>8, <1>9, <1>10, <1>11, <1>12, <1>13, <1>14, <1>15, <1>16

\* The insert files a request for days that are free, and its handler's rows are inserted.
LEMMA LifeInsert ==
    ASSUME \A f, g \in Handlers : f = g, HTypeInv, HTypeInv', LifeInv, NEW h \in Handlers,
           NEW r \in RequestIds, Insert(h, r)
    PROVE  LifeInv' /\ Lifecycle!Next
<1> DEFINE j == job[h]
<1>1. /\ j # Null /\ j.op = "CREATE" /\ j.at = "INSERT" /\ r \notin Filed
      /\ req' = [req EXCEPT ![r] = j.row]
  BY DEF Insert, At, RowOf
<1>2. TypeOK /\ j \in Job /\ InLife(j, req)
  BY <1>1 DEF HTypeInv, HTypeOK, LifeInv
<1>3. /\ j.row \in Request /\ j.row.status \in {"PENDING", "APPROVED"} /\ j.row.cStatus = "NONE"
      /\ j.row.first <= j.row.last
      /\ \A s \in RequestIds :
            req[s] # Null /\ req[s].status \in {"PENDING", "APPROVED"}
                /\ req[s].employee = j.row.employee => ~Overlap(req[s], j.row)
  <2> HIDE DEF j
  <2> QED BY <1>1, <1>2 DEF Job, InLife
<1>4. req'[r] = j.row /\ \A s \in RequestIds : s # r => req'[s] = req[s]
  <2> HIDE DEF j
  <2> QED BY <1>1, <1>2 DEF TypeOK
<1>5. Lifecycle!Next
  <2>1. \A s \in RequestIds :
           Live(s) /\ req[s].employee = req'[r].employee => ~Overlap(req[s], req'[r])
    BY <1>3, <1>4 DEF Live, Filed
  <2> HIDE DEF j
  <2> QED BY <1>1, <1>2, <1>3, <1>4, <2>1, FilingFiles
<1>6. \A s \in Filed' : req'[s].cStatus = "PENDING" => req'[s].status = "APPROVED"
  <2> HIDE DEF j
  <2> QED BY <1>3, <1>4 DEF Filed, LifeInv
<1>7. ASSUME NEW g \in Handlers, job'[g] # Null PROVE InLife(job'[g], req')
  <2>1. g = h /\ job'[h].op = "CREATE" /\ job'[h].at = "BALANCE"
    BY <1>1, <1>2, <1>7 DEF Insert, Return, HTypeInv, HTypeOK, Job
  <2> QED BY <2>1 DEF InLife, Withdrawing
<1> QED BY <1>5, <1>6, <1>7 DEF LifeInv

\* An update grants, refuses or withdraws what is still open to it, or moves a tier.
LEMMA LifeUpdates ==
    ASSUME \A f, g \in Handlers : f = g, HTypeInv, HTypeInv', LifeInv, NEW h \in Handlers,
           NEW r, r = job[h].id, MoveOn(h) \/ Grant(h) \/ Refuse(h) \/ Withdraw(h)
    PROVE  LifeInv' /\ [Lifecycle!Next]_Lifecycle!vars
<1> DEFINE j == job[h]
<1>1. /\ r \in Filed /\ req[r] \in Request /\ req'[r] \in Request
      /\ \A s \in RequestIds : s # r => req'[s] = req[s]
      /\ Filed' = Filed /\ SameLeave(r) /\ j.at = "WRITE"
      /\ Return(h) \/ (Goto(h, "BALANCE") /\ j.op \in {"APPROVE", "SIMPLE"})
  BY RowWrites
<1>2. j # Null
  BY DEF MoveOn, Grant, Refuse, Withdraw, At
<1>3. j \in Job /\ InLife(j, req) /\ r \in RequestIds /\ req \in [RequestIds -> Request \cup {Null}]
  <2>1. j \in Job /\ InLife(j, req)
    BY <1>2 DEF LifeInv, HTypeInv, HTypeOK
  <2>2. r \in RequestIds /\ req \in [RequestIds -> Request \cup {Null}]
    BY <1>1 DEF HTypeInv, HTypeOK, TypeOK, Filed
  <2> QED BY <2>1, <2>2
\* What the update says of the request and of its cancellation.
<1>4. \/ /\ req'[r].status = req[r].status
         /\ req'[r].cStatus \in {req[r].cStatus, "REJECTED"}
      \/ req'[r].status = "APPROVED" /\ req[r].status = "APPROVED"
      \/ /\ req[r].status = "PENDING" /\ req'[r].status \in {"APPROVED", "REJECTED"}
         /\ req'[r].cStatus = req[r].cStatus
      \/ /\ req[r].status # "CANCELLED" /\ req'[r].status = "CANCELLED"
         /\ req'[r].cStatus # "PENDING"
  <2>1. CASE MoveOn(h)
    <3>1. CASE j.op \in {"APPROVE", "APPROVE_CANCEL"}
      <4>1. \/ req'[r] = [req[r] EXCEPT !.tier = j.next]
            \/ req'[r] = [req[r] EXCEPT !.cTier = j.next]
        BY <1>3, <2>1, <3>1 DEF MoveOn
      <4> HIDE DEF j
      <4>2. req'[r].status = req[r].status /\ req'[r].cStatus = req[r].cStatus
        BY <1>1, <4>1 DEF Request
      <4> QED BY <4>2
    <3>2. CASE j.op = "REQUEST"
      <4>1. req'[r] = [req[r] EXCEPT !.cStatus = "PENDING", !.cTier = j.next]
        BY <1>1, <1>3, <2>1, <3>2 DEF MoveOn, Request
      <4>2. req[r].status = "APPROVED"
        BY <1>3, <3>2 DEF InLife
      <4> HIDE DEF j
      <4> QED BY <1>1, <4>1, <4>2 DEF Request
    <3> QED BY <2>1, <3>1, <3>2 DEF MoveOn, At
  <2>2. CASE Grant(h)
    <3>1. req'[r] = [req[r] EXCEPT !.status = "APPROVED",
                                   !.tier = IF j.op = "APPROVE" THEN Null ELSE @,
                                   !.closedBy = j.user]
      BY <1>1, <1>3, <2>2 DEF Grant, Request
    <3>2. req[r].status = "PENDING"
      BY <1>1, <1>3, <2>2 DEF InLife, Grant, At
    <3> HIDE DEF j
    <3> QED BY <1>1, <3>1, <3>2 DEF Request
  <2>3. CASE Refuse(h)
    <3>1. CASE j.op = "REJECT"
      <4>1. req'[r] = [req[r] EXCEPT !.status = "REJECTED", !.tier = Null, !.closedBy = j.user]
        BY <1>1, <1>3, <2>3, <3>1 DEF Refuse, Request
      <4>2. req[r].status = "PENDING"
        BY <1>1, <1>3, <3>1 DEF InLife
      <4> HIDE DEF j
      <4> QED BY <1>1, <4>1, <4>2 DEF Request
    <3>2. CASE j.op # "REJECT"
      <4>1. req'[r] = [req[r] EXCEPT !.cStatus = "REJECTED", !.cTier = Null]
        BY <1>1, <1>3, <2>3, <3>2 DEF Refuse, Request
      <4> HIDE DEF j
      <4>2. req'[r].status = req[r].status /\ req'[r].cStatus = "REJECTED"
        BY <1>1, <4>1 DEF Request
      <4> QED BY <4>2
    <3> QED BY <3>1, <3>2
  <2>4. CASE Withdraw(h)
    <3>1. req'[r] = CancelledRow(req[r], IF j.op = "CANCEL" THEN "NONE" ELSE "APPROVED", j.user)
      BY <1>3, <2>4 DEF Withdraw
    <3>2. req[r].status # "CANCELLED"
      BY <1>3, <2>4 DEF InLife, Withdraw, At, Withdrawing
    <3> HIDE DEF j
    <3> QED BY <1>1, <3>1, <3>2 DEF Request, CancelledRow
  <2> QED BY <2>1, <2>2, <2>3, <2>4
<1>5. [Lifecycle!Next]_Lifecycle!vars
  <2>1. \/ req[r].status = "PENDING" /\ req'[r].status \in {"APPROVED", "REJECTED"}
        \/ req[r].status # "CANCELLED" /\ req'[r].status = "CANCELLED"
        \/ req'[r].status = req[r].status
    BY <1>4
  <2>2. r \in RequestIds
    BY <1>3
  <2> HIDE DEF j
  <2> QED BY <1>1, <2>1, <2>2, RewritingMoves
<1>6. \A s \in Filed' : req'[s].cStatus = "PENDING" => req'[s].status = "APPROVED"
  BY <1>1, <1>4 DEF LifeInv, Filed
<1>7. ASSUME NEW g \in Handlers, job'[g] # Null PROVE InLife(job'[g], req')
  <2>1. job'[g].op \in {"APPROVE", "SIMPLE"} /\ job'[g].at = "BALANCE"
    BY <1>1, <1>3, <1>7 DEF Return, Goto, HTypeInv, HTypeOK, Job
  <2> QED BY <2>1 DEF InLife, Withdrawing
<1> QED BY <1>5, <1>6, <1>7 DEF LifeInv

\* Every step keeps what the handler counts on, and is a step of the lifecycle or none.
LEMMA LifeNext ==
    ASSUME \A f, g \in Handlers : f = g, HTypeInv, HTypeInv', AloneInv, LifeInv, [HNext]_allVars
    PROVE  LifeInv' /\ [Lifecycle!Next]_Lifecycle!vars
<1>1. req' = req => UNCHANGED Lifecycle!vars
  BY DEF Lifecycle!vars
<1>2. CASE \E h \in Handlers : Start(h)
  BY <1>1, <1>2, LifeStart, StartType DEF dbVars
<1>3. CASE \E h \in Handlers : Step(h)
  <2>1. PICK h \in Handlers : Step(h)
    BY <1>3
  <2>2. CASE \E r \in RequestIds : Insert(h, r)
    BY <2>2, LifeInsert
  <2>3. CASE MoveOn(h) \/ Grant(h) \/ Refuse(h) \/ Withdraw(h)
    BY <2>3, LifeUpdates
  <2>4. CASE \/ Fund(h) \/ Route(h) \/ Authorise(h) \/ AuthoriseCancel(h) \/ FindNext(h)
             \/ Record(h) \/ ReadBalance(h) \/ WriteBalance(h) \/ MarkDay(h) \/ DropRows(h)
    BY <1>1, <2>4, LifeGoesOn
  <2> QED BY <2>1, <2>2, <2>3, <2>4 DEF Step
<1>4. CASE Crash
  BY <1>1, <1>4 DEF Crash, ReadsOnly, dbVars, LifeInv, Filed
<1>5. CASE Surroundings /\ UNCHANGED job
  <2>1. req' = req
    BY <1>5, SurroundingsShape DEF HTypeInv, HTypeOK
  <2> QED BY <1>1, <1>5, <2>1 DEF LifeInv, Filed
<1>6. CASE UNCHANGED allVars
  BY <1>1, <1>6 DEF allVars, vars, LifeInv, Filed
<1> QED BY <1>2, <1>3, <1>4, <1>5, <1>6 DEF HNext

\* Wherever the server dies, a request whose handlers do not overlap goes through
\* the lifecycle: no day held twice, no decision taken back but by withdrawal.
THEOREM LifecycleSurvivesCrashes ==
    ASSUME \A f, g \in Handlers : f = g
    PROVE  HSpec => ImplementsLifecycle
<1>1. HTypeInv /\ AloneInv /\ LifeInv /\ [HNext]_allVars
         => HTypeInv' /\ AloneInv' /\ LifeInv' /\ [Lifecycle!Next]_Lifecycle!vars
  BY HTypeStep, AloneNext, LifeNext
<1>2. HInit => HTypeInv /\ AloneInv /\ LifeInv /\ Lifecycle!Init
  <2>1. HInit => LifeInv
    BY DEF HInit, Init, LifeInv, Filed
  <2>2. HInit => Lifecycle!Init
    BY DEF HInit, Init, Lifecycle!Init, PhaseOf, HolderOf, SpanOf
  <2> QED BY <2>1, <2>2, HInitType, AloneInit
<1> QED BY <1>1, <1>2, PTL DEF HSpec, ImplementsLifecycle, Lifecycle!Spec

(***************************************************************************)
(* One handler at a time, in quiet surroundings, is LeaveRequests.         *)
(***************************************************************************)
\* Everything a handler does is written to the database that no handler runs on
\* when it returns.  Until then `rested` is what the database was when it began,
\* and what a handler at each await has done to it follows from its job.
BalanceFor(row) == <<row.employee, row.type, YearOf[row.first]>>

Refunds(j) ==
    \/ j.op = "CANCEL" /\ j.row.status = "APPROVED"
    \/ j.op = "APPROVE_CANCEL" /\ j.next = Null

\* The row a granting handler leaves.
GrantedRow(j) ==
    CASE j.op = "CREATE" -> j.row
      [] j.op = "APPROVE" -> [j.row EXCEPT !.status = "APPROVED", !.tier = Null, !.closedBy = j.user]
      [] j.op = "SIMPLE" -> [j.row EXCEPT !.status = "APPROVED", !.closedBy = j.user]

ReqSoFar(j) ==
    IF Granting(j.op) /\ j.at \in {"BALANCE", "SETTLE", "DAYS"}
    THEN [rested.req EXCEPT ![j.id] = GrantedRow(j)] ELSE rested.req

ApprovedSoFar(j) ==
    IF j.op = "APPROVE" /\ j.at \in {"WRITE", "BALANCE", "SETTLE", "DAYS"}
    THEN [rested.approved EXCEPT ![j.id] = @ \cup {j.row.tier}] ELSE rested.approved

Refunded(balance, charge) == IF balance < charge THEN 0 ELSE balance - charge

UsedSoFar(j) ==
    IF j.at = "DAYS" THEN [rested.used EXCEPT ![BalanceFor(j.row)] = @ + j.row.charge]
    ELSE IF j.at \in {"ROWS", "WRITE"} /\ Refunds(j)
    THEN [rested.used EXCEPT ![BalanceFor(j.row)] = Refunded(@, j.row.charge)]
    ELSE rested.used

Marked(rows, e, days) ==
    [k \in Employees \X Days |->
        IF k[1] = e /\ k[2] \in days /\ rows[k] = "NONE" THEN "ON_LEAVE" ELSE rows[k]]
Dropped(rows, e, days) ==
    [k \in Employees \X Days |->
        IF k[1] = e /\ k[2] \in days /\ rows[k] = "ON_LEAVE" THEN "NONE" ELSE rows[k]]

AttendanceSoFar(j) ==
    IF j.at = "DAYS"
    THEN Marked(rested.attendance, j.row.employee, j.row.first .. j.day - 1)
    ELSE IF j.at = "WRITE" /\ Refunds(j)
    THEN Dropped(rested.attendance, j.row.employee, j.row.first .. j.row.last)
    ELSE rested.attendance

SoFar(j) ==
    [req |-> ReqSoFar(j), approved |-> ApprovedSoFar(j), used |-> UsedSoFar(j),
     attendance |-> AttendanceSoFar(j), standing |-> rested.standing]

\* What its guards have established by then.
FiledBy(j) ==
    LET e == j.row.employee
        t == j.row.type
    IN  /\ j.at \in {"FUND", "ROUTE", "INSERT", "BALANCE", "SETTLE", "DAYS"}
        /\ \E session \in {"FULL_DAY", "HALF_DAY"}, override \in BOOLEAN :
              /\ MayFile(j.user, e, override)
              /\ ValidSpan(j.row.first, j.row.last, session)
              /\ Serial!DaysFree(e, j.row.first, j.row.last)
              /\ j.at # "FUND" => override \/ Serial!Funded(e, t, j.row.first, j.row.charge)
              /\ j.row = NewRequest(e, t, j.row.first, j.row.last, session, j.row.tier,
                                    IF NeedsApproval[t] THEN "PENDING" ELSE "APPROVED",
                                    IF NeedsApproval[t] THEN Null ELSE j.user)
        /\ j.there = IF NeedsApproval[t] /\ j.at \notin {"FUND", "ROUTE"}
                     THEN DOMAIN ActiveTiers(e, workflow) ELSE {}
        /\ j.row.tier = FirstIn(j.there)
        /\ j.at \in {"BALANCE", "SETTLE", "DAYS"} =>
              ~NeedsApproval[t] /\ j.id \in RequestIds \ Serial!Filed

Decides(j) ==
    LET tiers == ActiveTiers(j.row.employee, workflow)
        writes == {"WRITE", "BALANCE", "SETTLE", "DAYS"}
    IN  /\ SignedIn(j.user)
        /\ j.row.status = "PENDING"
        /\ j.at # "AUTHORISE" =>
              MayDecide(j.user, j.row.employee, j.row.tier, tiers, headLogin)
        /\ j.op = "APPROVE" =>
              /\ j.at \in {"AUTHORISE", "NEXT", "RECORD"} \cup writes
              /\ j.at # "AUTHORISE" => j.row.tier \in DOMAIN tiers
              /\ j.at \notin {"AUTHORISE", "NEXT"} => j.next = NextIn(DOMAIN tiers, j.row.tier)
        /\ j.op = "SIMPLE" => j.at \in writes /\ j.row.tier \notin DOMAIN tiers
        /\ j.op = "REJECT" => j.at \in {"AUTHORISE", "WRITE"}

Cancels(j) ==
    /\ j.at \in {"BALANCE", "SETTLE", "ROWS", "WRITE"}
    /\ Serial!Cancelling(j.user, j.id)
    /\ j.row.status # "CANCELLED"
    /\ (j.at # "WRITE" => j.row.status = "APPROVED") /\ j.next = Null

Requests(j) ==
    /\ j.at \in {"NEXT", "WRITE"}
    /\ SignedIn(j.user)
    /\ EmployeeOf[j.user] = j.row.employee
    /\ j.row.status = "APPROVED" /\ j.row.cStatus # "PENDING"
    /\ today < j.row.first
    /\ j.at = "WRITE" =>
          j.next = FirstIn(CancellationOrders(ActiveTiers(j.row.employee, workflow)))

DecidesCancellation(j) ==
    LET tiers == ActiveTiers(j.row.employee, workflow)
    IN  /\ SignedIn(j.user)
        /\ j.row.cStatus = "PENDING"
        /\ j.at # "AUTHORISE" =>
              MayDecideCancellation(j.user, j.row.employee, j.row.cTier, tiers, headLogin)
        /\ j.op = "REJECT_CANCEL" => j.at \in {"AUTHORISE", "WRITE"}
        /\ j.op = "APPROVE_CANCEL" =>
              /\ j.at \in {"AUTHORISE", "NEXT", "BALANCE", "SETTLE", "ROWS", "WRITE"}
              /\ j.at = "NEXT" => j.row.cTier \in CancellationOrders(tiers)
              /\ j.at \notin {"AUTHORISE", "NEXT"} => j.next = Serial!NextCancellationTier(j.id)

Permitted(j) ==
    /\ j.op # "CREATE" => j.id \in Serial!Filed /\ rested.req[j.id] = j.row
    /\ j.at # "DAYS" => j.day = j.row.first
    /\ j.op = "CREATE" => FiledBy(j)
    /\ j.op \in {"APPROVE", "SIMPLE", "REJECT"} => Decides(j)
    /\ j.op = "CANCEL" => Cancels(j)
    /\ j.op = "REQUEST" => Requests(j)
    /\ j.op \in {"APPROVE_CANCEL", "REJECT_CANCEL"} => DecidesCancellation(j)

SerialInv ==
    /\ Serial!TypeOK
    /\ \A r \in RequestIds \ Serial!Filed : rested.standing[r] = {}
    /\ Idle => rested = AtRest
    /\ \A h \in Handlers : job[h] # Null => AtRest = SoFar(job[h]) /\ Permitted(job[h])

\* The rules of the serial service are the rules its handlers follow.
LEMMA SameRules ==
    /\ Serial!Days = Days /\ Serial!TierOrders = TierOrders /\ Serial!Chain = Chain
    /\ Serial!Rows = Rows /\ Serial!Request = Request /\ Serial!NoTiers = NoTiers
    /\ \A e, w : Serial!ActiveTiers(e, w) = ActiveTiers(e, w)
    /\ \A u, e, w, heads : Serial!MayFileFor(u, e, w, heads) <=> MayFileFor(u, e, w, heads)
    /\ \A role : Serial!IsRescuer(role) <=> IsRescuer(role)
    /\ \A a, b, s : Serial!ValidSpan(a, b, s) <=> ValidSpan(a, b, s)
    /\ \A e, t, a, b, s, tier, status, by :
          Serial!NewRequest(e, t, a, b, s, tier, status, by)
             = NewRequest(e, t, a, b, s, tier, status, by)
    /\ \A u, e, tier, tiers, heads :
          Serial!MayDecide(u, e, tier, tiers, heads) <=> MayDecide(u, e, tier, tiers, heads)
    /\ \A u, e, tier, tiers, heads :
          Serial!MayDecideCancellation(u, e, tier, tiers, heads)
             <=> MayDecideCancellation(u, e, tier, tiers, heads)
    /\ \A orders, tier : Serial!NextIn(orders, tier) = NextIn(orders, tier)
    /\ \A orders : Serial!FirstIn(orders) = FirstIn(orders)
    /\ \A tiers : Serial!CancellationOrders(tiers) = CancellationOrders(tiers)
<1>1. /\ Serial!Days = Days /\ Serial!TierOrders = TierOrders /\ Serial!Rows = Rows
      /\ Serial!NoTiers = NoTiers
  BY DEF Serial!Days, Days, Serial!TierOrders, TierOrders, Serial!Rows, Rows, Serial!NoTiers, NoTiers
<1>2. Serial!Chain = Chain
  BY <1>1 DEF Serial!Chain, Chain, Serial!REPORTING_SUPERIOR, REPORTING_SUPERIOR
<1>3. Serial!Request = Request
  BY <1>1 DEF Serial!Request, Request, Serial!Statuses, Statuses, Serial!CancelStatuses, CancelStatuses
<1>4. \A e, w : Serial!ActiveTiers(e, w) = ActiveTiers(e, w)
  BY <1>1 DEF Serial!ActiveTiers, ActiveTiers
<1>5. \A role : Serial!IsRescuer(role) <=> IsRescuer(role)
  BY DEF Serial!IsRescuer, IsRescuer
<1>6. \A u, e, w, heads : Serial!MayFileFor(u, e, w, heads) <=> MayFileFor(u, e, w, heads)
  BY <1>5 DEF Serial!MayFileFor, MayFileFor, Serial!Leads, Leads
<1>7. \A a, b, s : Serial!ValidSpan(a, b, s) <=> ValidSpan(a, b, s)
  BY DEF Serial!ValidSpan, ValidSpan
<1>8. \A e, a, b, s : Serial!LeaveCharge(e, a, b, s) = LeaveCharge(e, a, b, s)
  <2>1. \A S : Serial!Cardinality(S) = Cardinality(S)
    BY DEF Serial!Cardinality, Cardinality
  <2> QED BY <2>1 DEF Serial!LeaveCharge, LeaveCharge
<1>9. \A e, t, a, b, s, tier, status, by :
          Serial!NewRequest(e, t, a, b, s, tier, status, by)
             = NewRequest(e, t, a, b, s, tier, status, by)
  BY <1>8 DEF Serial!NewRequest, NewRequest
<1>10. \A u, approver, e, heads :
          Serial!MayActOnTier(u, approver, e, heads) <=> MayActOnTier(u, approver, e, heads)
  BY <1>5 DEF Serial!MayActOnTier, MayActOnTier, Serial!ResolveTierApprover, ResolveTierApprover,
              Serial!REPORTING_SUPERIOR, REPORTING_SUPERIOR
<1>11. \A u, e, tier, tiers, heads :
          Serial!MayDecide(u, e, tier, tiers, heads) <=> MayDecide(u, e, tier, tiers, heads)
  BY <1>5, <1>10 DEF Serial!MayDecide, MayDecide
<1>12. \A u, e, tier, tiers, heads :
          Serial!MayDecideCancellation(u, e, tier, tiers, heads)
             <=> MayDecideCancellation(u, e, tier, tiers, heads)
  BY <1>5, <1>10 DEF Serial!MayDecideCancellation, MayDecideCancellation
<1>13. \A S : Serial!Min(S) = Min(S)
  BY DEF Serial!Min, Min
<1>14. \A S : Serial!Max(S) = Max(S)
  BY DEF Serial!Max, Max
<1>15. \A orders, tier : Serial!NextIn(orders, tier) = NextIn(orders, tier)
  BY <1>13 DEF Serial!NextIn, NextIn
<1>16. \A orders : Serial!FirstIn(orders) = FirstIn(orders)
  BY <1>13 DEF Serial!FirstIn, FirstIn
<1>17. \A tiers : Serial!CancellationOrders(tiers) = CancellationOrders(tiers)
  BY <1>14 DEF Serial!CancellationOrders, CancellationOrders, Serial!HrAdminOrder, HrAdminOrder
<1> QED BY <1>1, <1>2, <1>3, <1>4, <1>5, <1>6, <1>7, <1>9, <1>11, <1>12, <1>15, <1>16, <1>17

\* A serial state between two handlers: nothing of it moves while one runs.
LEMMA RunsOn ==
    ASSUME \A f, g \in Handlers : f = g, ~Interrupted, HTypeInv, HTypeInv', SerialInv,
           NEW h \in Handlers, NEW j, j # Null, job' = [job EXCEPT ![h] = j],
           UNCHANGED <<orgVars, today, edited, entitled>>, KeepRested,
           AtRest' = SoFar(j), Permitted(j)
    PROVE  SerialInv' /\ UNCHANGED Serial!vars
<1>1. job'[h] = j /\ \A g \in Handlers : g = h
  BY DEF HTypeInv, HTypeOK
<1>2. ~Idle'
  BY <1>1 DEF Idle
<1>3. rested' = rested
  BY <1>2 DEF KeepRested
<1>4. UNCHANGED <<workflow, headLogin, login, today, edited, entitled>>
  BY DEF orgVars
<1>5. Serial!TypeOK'
  BY <1>3, <1>4 DEF SerialInv, Serial!TypeOK
<1>6. Serial!Filed' = Serial!Filed
  BY <1>3 DEF Serial!Filed
<1>7. \A r \in RequestIds \ Serial!Filed' : rested'.standing[r] = {}
  BY <1>3, <1>6 DEF SerialInv
<1>8. SoFar(j)' = SoFar(j)
  BY <1>3 DEF SoFar, ReqSoFar, ApprovedSoFar, UsedSoFar, AttendanceSoFar
<1>9. Permitted(j)'
  <2>1. FiledBy(j) <=> FiledBy(j)'
    <3>1. ASSUME NEW u, NEW e, NEW o PROVE MayFile(u, e, o) <=> MayFile(u, e, o)'
      BY <1>4 DEF MayFile, SignedIn
    <3>2. ASSUME NEW e, NEW a, NEW b PROVE Serial!DaysFree(e, a, b) <=> Serial!DaysFree(e, a, b)'
      BY <1>3, <1>6 DEF Serial!DaysFree, Serial!Live
    <3>3. ASSUME NEW e, NEW t, NEW a, NEW c
          PROVE  Serial!Funded(e, t, a, c) <=> Serial!Funded(e, t, a, c)'
      BY <1>3, <1>4 DEF Serial!Funded
    <3>4. j.id \in RequestIds \ Serial!Filed <=> (j.id \in RequestIds \ Serial!Filed)'
      BY <1>6
    <3> QED BY <1>4, <3>1, <3>2, <3>3, <3>4 DEF FiledBy
  <2>2. Decides(j) <=> Decides(j)'
    BY <1>4 DEF Decides, SignedIn
  <2>3. Cancels(j) <=> Cancels(j)'
    BY <1>3, <1>4, <1>6 DEF Cancels, Serial!Cancelling, Serial!SignedIn
  <2>4. Requests(j) <=> Requests(j)'
    BY <1>4 DEF Requests, SignedIn
  <2>5. DecidesCancellation(j) <=> DecidesCancellation(j)'
    BY <1>3, <1>4 DEF DecidesCancellation, SignedIn, Serial!NextCancellationTier, Serial!TiersOf
  <2> QED BY <1>3, <1>6, <2>1, <2>2, <2>3, <2>4, <2>5 DEF Permitted
<1>10. (\A g \in Handlers : job[g] # Null => AtRest = SoFar(job[g]) /\ Permitted(job[g]))'
  BY <1>1, <1>8, <1>9
<1>11. UNCHANGED Serial!vars
  BY <1>3, <1>4 DEF Serial!vars
<1> QED BY <1>2, <1>5, <1>7, <1>10, <1>11 DEF SerialInv

\* A handler that returns leaves what it wrote.
LEMMA ComesToRest ==
    ASSUME \A f, g \in Handlers : f = g, ~Interrupted, HTypeInv, HTypeInv',
           NEW h \in Handlers, Return(h), KeepRested,
           \A r \in RequestIds : req'[r] = Null => standing'[r] = {}
    PROVE  SerialInv' /\ rested' = AtRest'
<1>1. job'[h] = Null /\ \A g \in Handlers : g = h
  BY DEF HTypeInv, HTypeOK, Return
<1>2. Idle'
  BY <1>1 DEF Idle
<1>3. rested' = AtRest'
  BY <1>2 DEF KeepRested
<1>4. /\ rested'.req = req' /\ rested'.approved = approved' /\ rested'.used = used'
      /\ rested'.attendance = attendance' /\ rested'.standing = standing'
  BY <1>3 DEF AtRest
<1>5. Serial!TypeOK'
  BY <1>4, SameRules DEF HTypeInv, HTypeOK, TypeOK, Serial!TypeOK
<1>6. \A r \in RequestIds \ Serial!Filed' : rested'.standing[r] = {}
  BY <1>4 DEF Serial!Filed
<1> QED BY <1>1, <1>2, <1>3, <1>5, <1>6 DEF SerialInv

\* Between two handlers the serial state is the database.
LEMMA RestedIsNow ==
    ASSUME rested = AtRest
    PROVE  /\ rested.req = req /\ rested.approved = approved /\ rested.used = used
           /\ rested.attendance = attendance /\ rested.standing = standing
           /\ Serial!Filed = Filed
           /\ \A e, a, b : Serial!DaysFree(e, a, b) <=> DaysFree(e, a, b)
           /\ \A u, r : Serial!Cancelling(u, r) <=> Cancelling(u, r)
<1>1. /\ rested.req = req /\ rested.approved = approved /\ rested.used = used
      /\ rested.attendance = attendance /\ rested.standing = standing
  BY DEF AtRest
<1>2. Serial!Filed = Filed
  BY <1>1 DEF Serial!Filed, Filed
<1>3. \A e, a, b : Serial!DaysFree(e, a, b) <=> DaysFree(e, a, b)
  BY <1>1, <1>2 DEF Serial!DaysFree, DaysFree, Serial!Live, Live, Serial!Overlap, Overlap
<1>4. \A u, r : Serial!Cancelling(u, r) <=> Cancelling(u, r)
  BY <1>1, <1>2 DEF Serial!Cancelling, Cancelling, Serial!SignedIn, SignedIn
<1> QED BY <1>1, <1>2, <1>3, <1>4

\* What create() checks of the balance, on the rows as the handler found them.
LEMMA SameFunds ==
    ASSUME rested.used = used, rested.attendance = attendance, NEW e, NEW t, NEW first, NEW charge
    PROVE  Serial!Funded(e, t, first, charge) <=> Funded(e, t, first, charge)
BY SameRules DEF Serial!Funded, Funded

\* The job of a handler that begins.
Begun(op, at, u, id, row) ==
    [op |-> op, at |-> at, user |-> u, id |-> id, row |-> row,
     next |-> Null, there |-> {}, seen |-> 0, day |-> row.first]

LEMMA BegunFields ==
    \A op, at, u, id, row :
        LET j == Begun(op, at, u, id, row)
        IN  /\ j.op = op /\ j.at = at /\ j.user = u /\ j.id = id /\ j.row = row
            /\ j.next = Null /\ j.there = {} /\ j.day = row.first
BY DEF Begun

\* A handler starts from the database the one before it left.
LEMMA SerialStart ==
    ASSUME \A f, g \in Handlers : f = g, ~Interrupted, HTypeInv, HTypeInv', SerialInv,
           NEW h \in Handlers, Start(h), UNCHANGED <<orgVars, today, edited>>, KeepRested
    PROVE  SerialInv' /\ UNCHANGED Serial!vars
<1>1. UNCHANGED <<dbVars, standing>> /\ job[h] = Null
  BY DEF Start, StartCreate, StartDecision, StartCancel, StartRequest, StartCancelDecision,
         ReadsOnly, Begin
<1>2. Idle
  BY <1>1 DEF Idle
<1>3. rested = AtRest
  BY <1>2 DEF SerialInv
<1>4. AtRest' = AtRest /\ entitled' = entitled
  BY <1>1 DEF AtRest, dbVars
<1>5. \A r \in Filed : req[r] \in Request /\ r \in RequestIds /\ r # Null
  BY NullJobAssumption DEF HTypeInv, HTypeOK, TypeOK, Filed
\* A first step that writes nothing leaves the handler at an await it may be at.
<1>6. ASSUME NEW op \in Ops, NEW at \in Awaits, NEW u \in Users,
             NEW id \in RequestIds \cup {Null}, NEW row \in Request,
             op # "CREATE" => id # Null, id # Null => id \in Filed,
             op \in {"APPROVE", "APPROVE_CANCEL"} => at = "AUTHORISE",
             Begin(h, op, at, u, id, row),
             at \in {"FUND", "ROUTE", "AUTHORISE", "NEXT", "BALANCE", "WRITE"},
             at = "WRITE" => (op = "CANCEL" /\ row.status # "APPROVED"),
             at = "BALANCE" => op = "CANCEL",
             Permitted(Begun(op, at, u, id, row))
      PROVE  SerialInv' /\ UNCHANGED Serial!vars
  <2> DEFINE j == Begun(op, at, u, id, row)
  <2>1. j \in Job
    BY <1>6, BegunJob DEF Begun
  <2>2. job' = [job EXCEPT ![h] = j] /\ j # Null
    BY <1>6, <2>1, NullJobAssumption DEF Begin, Begun
  <2>3. Permitted(j)
    BY <1>6
  <2>4. /\ j.op = op /\ j.at = at /\ j.row = row /\ j.next = Null
    BY BegunFields
  <2> HIDE DEF j
  <2>5. SoFar(j) = rested
    <3>1. /\ ReqSoFar(j) = rested.req /\ ApprovedSoFar(j) = rested.approved
          /\ UsedSoFar(j) = rested.used /\ AttendanceSoFar(j) = rested.attendance
      BY <1>6, <2>4
         DEF ReqSoFar, ApprovedSoFar, UsedSoFar, AttendanceSoFar, Granting, Refunds
    <3> QED BY <1>3, <3>1 DEF SoFar, AtRest
  <2> QED BY <1>3, <1>4, <2>2, <2>3, <2>5, RunsOn
<1>7. ASSUME NEW u \in Users, NEW e \in Employees, NEW t \in LeaveTypes, NEW first \in Days,
             NEW last \in Days, NEW session \in {"FULL_DAY", "HALF_DAY"}, NEW override \in BOOLEAN,
             StartCreate(h, u, e, t, first, last, session, override)
      PROVE  SerialInv' /\ UNCHANGED Serial!vars
  <2> DEFINE status == IF NeedsApproval[t] THEN "PENDING" ELSE "APPROVED"
             by == IF NeedsApproval[t] THEN Null ELSE u
             row == NewRequest(e, t, first, last, session, Null, status, by)
             at == IF override THEN "ROUTE" ELSE "FUND"
  <2>1. /\ MayFile(u, e, override) /\ ValidSpan(first, last, session) /\ DaysFree(e, first, last)
        /\ Begin(h, "CREATE", at, u, Null, row)
    BY <1>7 DEF StartCreate
  <2>2. row \in Request
    BY NewRequestType DEF Statuses
  <2>3. /\ row.employee = e /\ row.type = t /\ row.first = first /\ row.last = last /\ row.tier = Null
    BY DEF NewRequest
  <2>4. at \in {"ROUTE", "FUND"} /\ (at # "FUND" => override)
    OBVIOUS
  <2> DEFINE j == Begun("CREATE", at, u, Null, row)
  <2>5. /\ j.op = "CREATE" /\ j.at = at /\ j.user = u /\ j.id = Null /\ j.row = row
        /\ j.next = Null /\ j.there = {} /\ j.day = row.first
    BY BegunFields
  <2>6. row = NewRequest(e, t, first, last, session, Null, status, by)
    OBVIOUS
  <2>7. "CREATE" \in Ops /\ at \in Awaits
    BY DEF Ops, Awaits
  <2> HIDE DEF row, at, j
  <2>8. FirstIn({}) = Null
    BY DEF FirstIn
  <2>9. FiledBy(j)
    BY <1>3, <2>1, <2>3, <2>4, <2>5, <2>6, <2>8, RestedIsNow DEF FiledBy
  <2>10. Permitted(j)
    BY <2>5, <2>9 DEF Permitted
  <2> QED BY <1>6, <2>1, <2>2, <2>4, <2>7, <2>10 DEF j
<1>8. ASSUME NEW u \in Users, NEW r \in RequestIds, StartDecision(h, u, r)
      PROVE  SerialInv' /\ UNCHANGED Serial!vars
  <2>1. PICK op \in {"APPROVE", "REJECT"} : Begin(h, op, "AUTHORISE", u, r, req[r])
    BY <1>8 DEF StartDecision
  <2>2. SignedIn(u) /\ r \in Filed /\ req[r].status = "PENDING"
    BY <1>8 DEF StartDecision
  <2>3. Permitted(Begun(op, "AUTHORISE", u, r, req[r]))
    BY <1>3, <2>2, RestedIsNow, BegunFields DEF Permitted, Decides
  <2>4. op \in Ops /\ "AUTHORISE" \in Awaits /\ r # Null /\ req[r] \in Request
    BY <1>5, <2>1, <2>2 DEF Ops, Awaits
  <2> QED BY <1>6, <2>1, <2>2, <2>3, <2>4
<1>9. ASSUME NEW u \in Users, NEW r \in RequestIds, StartCancel(h, u, r)
      PROVE  SerialInv' /\ UNCHANGED Serial!vars
  <2> DEFINE at == IF req[r].status = "APPROVED" THEN "BALANCE" ELSE "WRITE"
  <2>1. /\ Cancelling(u, r) /\ req[r].status # "CANCELLED" /\ r \in Filed
        /\ Begin(h, "CANCEL", at, u, r, req[r])
    BY <1>9 DEF StartCancel, Cancelling
  <2>2. at \in {"BALANCE", "WRITE"} /\ (at = "BALANCE" <=> req[r].status = "APPROVED")
    OBVIOUS
  <2> HIDE DEF at
  <2>3. Permitted(Begun("CANCEL", at, u, r, req[r]))
    BY <1>3, <2>1, <2>2, RestedIsNow, BegunFields DEF Permitted, Cancels
  <2>4. "CANCEL" \in Ops /\ at \in Awaits /\ r # Null /\ req[r] \in Request
    BY <1>5, <2>1, <2>2 DEF Ops, Awaits
  <2> QED BY <1>6, <2>1, <2>2, <2>3, <2>4
<1>10. ASSUME NEW u \in Users, NEW r \in RequestIds, StartRequest(h, u, r)
       PROVE  SerialInv' /\ UNCHANGED Serial!vars
  <2>1. /\ SignedIn(u) /\ r \in Filed /\ EmployeeOf[u] = req[r].employee
        /\ req[r].status = "APPROVED" /\ req[r].cStatus # "PENDING" /\ today < req[r].first
        /\ Begin(h, "REQUEST", "NEXT", u, r, req[r])
    BY <1>10 DEF StartRequest
  <2>2. Permitted(Begun("REQUEST", "NEXT", u, r, req[r]))
    BY <1>3, <2>1, RestedIsNow, BegunFields DEF Permitted, Requests
  <2>3. "REQUEST" \in Ops /\ "NEXT" \in Awaits /\ r # Null /\ req[r] \in Request
    BY <1>5, <2>1 DEF Ops, Awaits
  <2> QED BY <1>6, <2>1, <2>2, <2>3
<1>11. ASSUME NEW u \in Users, NEW r \in RequestIds, StartCancelDecision(h, u, r)
       PROVE  SerialInv' /\ UNCHANGED Serial!vars
  <2>1. PICK op \in {"APPROVE_CANCEL", "REJECT_CANCEL"} : Begin(h, op, "AUTHORISE", u, r, req[r])
    BY <1>11 DEF StartCancelDecision
  <2>2. SignedIn(u) /\ r \in Filed /\ req[r].cStatus = "PENDING"
    BY <1>11 DEF StartCancelDecision
  <2>3. Permitted(Begun(op, "AUTHORISE", u, r, req[r]))
    BY <1>3, <2>2, RestedIsNow, BegunFields DEF Permitted, DecidesCancellation
  <2>4. op \in Ops /\ "AUTHORISE" \in Awaits /\ r # Null /\ req[r] \in Request
    BY <1>5, <2>1, <2>2 DEF Ops, Awaits
  <2> QED BY <1>6, <2>1, <2>2, <2>3, <2>4
<1> QED BY <1>7, <1>8, <1>9, <1>10, <1>11 DEF Start

\* What is known of the job of the handler that runs.
LEMMA RunningJob ==
    ASSUME HTypeInv, AloneInv, SerialInv, NEW h \in Handlers, job[h] # Null
    PROVE  LET j == job[h]
           IN  /\ j \in Job /\ j.op \in Ops /\ j.user \in Users /\ j.row \in Request
               /\ j.id \in RequestIds \cup {Null} /\ j.seen \in Nat /\ j.day \in Days
               /\ j.row.employee \in Employees /\ j.row.type \in LeaveTypes
               /\ j.row.first \in Days /\ j.row.last \in Days /\ j.row.charge \in Nat
               /\ BalanceFor(j.row) \in Employees \X LeaveTypes \X Years
               /\ JobOk(j, Filed) /\ JobPlace(j, req)
               /\ req = ReqSoFar(j) /\ approved = ApprovedSoFar(j) /\ used = UsedSoFar(j)
               /\ attendance = AttendanceSoFar(j) /\ standing = rested.standing
               /\ Permitted(j)
               /\ RowOf(h) = j.row /\ BalanceOf(h) = BalanceFor(j.row)
               /\ LiveTiers(h) = ActiveTiers(j.row.employee, workflow)
<1> DEFINE j == job[h]
<1>1. j \in Job /\ JobOk(j, Filed) /\ JobPlace(j, req)
  BY DEF HTypeInv, HTypeOK, JobsOk, AloneInv, JobAlone
<1>2. AtRest = SoFar(j) /\ Permitted(j)
  BY DEF SerialInv
<1>3. /\ RowOf(h) = j.row /\ BalanceOf(h) = BalanceFor(j.row)
      /\ LiveTiers(h) = ActiveTiers(j.row.employee, workflow)
  BY DEF RowOf, BalanceOf, BalanceFor, LiveTiers
<1> HIDE DEF j
<1>4. /\ j.op \in Ops /\ j.user \in Users /\ j.row \in Request
      /\ j.id \in RequestIds \cup {Null} /\ j.seen \in Nat /\ j.day \in Days
  BY <1>1 DEF Job
<1>5. /\ j.row.employee \in Employees /\ j.row.type \in LeaveTypes
      /\ j.row.first \in Days /\ j.row.last \in Days /\ j.row.charge \in Nat
  BY <1>4 DEF Request
<1>6. BalanceFor(j.row) \in Employees \X LeaveTypes \X Years
  BY <1>5, TypesAssumption DEF BalanceFor
<1>7. /\ req = ReqSoFar(j) /\ approved = ApprovedSoFar(j) /\ used = UsedSoFar(j)
      /\ attendance = AttendanceSoFar(j) /\ standing = rested.standing
  BY <1>2 DEF AtRest, SoFar
<1> QED BY <1>1, <1>2, <1>3, <1>4, <1>5, <1>6, <1>7 DEF j

\* A statement that changes nothing but the job, and the job as it should.
LEMMA ReadsOn ==
    ASSUME \A f, g \in Handlers : f = g, ~Interrupted, HTypeInv, HTypeInv', SerialInv,
           NEW h \in Handlers, job[h] # Null, ReadsOnly,
           UNCHANGED <<orgVars, today, edited>>, KeepRested,
           NEW k \in Job, job' = [job EXCEPT ![h] = k],
           Permitted(k), ReqSoFar(k) = ReqSoFar(job[h]), ApprovedSoFar(k) = ApprovedSoFar(job[h]),
           UsedSoFar(k) = UsedSoFar(job[h]), AttendanceSoFar(k) = AttendanceSoFar(job[h])
    PROVE  SerialInv' /\ UNCHANGED Serial!vars
<1>1. AtRest' = AtRest /\ entitled' = entitled
  BY DEF ReadsOnly, dbVars, AtRest
<1>2. AtRest = SoFar(job[h])
  BY DEF SerialInv
<1>3. SoFar(k) = SoFar(job[h])
  BY DEF SoFar
<1>4. k # Null
  BY NullJobAssumption
<1> QED BY <1>1, <1>2, <1>3, <1>4, RunsOn

\* A handler that is refused before it has written anything leaves no trace.
LEMMA Refused ==
    ASSUME \A f, g \in Handlers : f = g, ~Interrupted, HTypeInv, HTypeInv', AloneInv, SerialInv,
           NEW h \in Handlers, job[h] # Null, ReadsOnly, Return(h),
           UNCHANGED <<orgVars, today, edited>>, KeepRested,
           job[h].at \in {"FUND", "AUTHORISE"}
    PROVE  SerialInv' /\ UNCHANGED Serial!vars
<1> DEFINE j == job[h]
<1>1. /\ req = ReqSoFar(j) /\ approved = ApprovedSoFar(j) /\ used = UsedSoFar(j)
      /\ attendance = AttendanceSoFar(j) /\ standing = rested.standing
  BY RunningJob
<1>2. /\ req = rested.req /\ approved = rested.approved /\ used = rested.used
      /\ attendance = rested.attendance /\ standing = rested.standing
  BY <1>1 DEF ReqSoFar, ApprovedSoFar, UsedSoFar, AttendanceSoFar
<1>3. UNCHANGED <<req, approved, used, attendance, standing, entitled>>
  BY DEF ReadsOnly, dbVars
<1>4. \A r \in RequestIds : req'[r] = Null => standing'[r] = {}
  BY <1>2, <1>3 DEF SerialInv, Serial!Filed
<1>5. SerialInv' /\ rested' = AtRest'
  BY <1>4, ComesToRest
<1>6. UNCHANGED Serial!vars
  BY <1>2, <1>3, <1>5 DEF AtRest, Serial!vars, orgVars
<1> QED BY <1>5, <1>6

\* create() up to its insert.
LEMMA SerialFund ==
    ASSUME \A f, g \in Handlers : f = g, ~Interrupted, HTypeInv, HTypeInv', AloneInv, SerialInv,
           NEW h \in Handlers, Fund(h), UNCHANGED <<orgVars, today, edited>>, KeepRested
    PROVE  SerialInv' /\ UNCHANGED Serial!vars
<1> DEFINE j == job[h]
           k == [j EXCEPT !.at = "ROUTE"]
<1>1. j # Null /\ j.op = "CREATE" /\ j.at = "FUND" /\ ReadsOnly
  BY DEF Fund, At
<1>2. CASE Return(h)
  BY <1>1, <1>2, Refused
<1>3. CASE Goto(h, "ROUTE") /\ Funded(j.row.employee, j.row.type, j.row.first, j.row.charge)
  <2>1. /\ j \in Job /\ Permitted(j) /\ used = UsedSoFar(j) /\ attendance = AttendanceSoFar(j)
    BY <1>1, RunningJob
  <2>2. job' = [job EXCEPT ![h] = k]
    BY <1>3, <2>1 DEF Goto, Job
  <2> HIDE DEF j
  <2>3. k \in Job /\ k = [j EXCEPT !.at = "ROUTE"]
    BY <2>1 DEF Job, Awaits
  <2>4. /\ k.op = j.op /\ k.at = "ROUTE" /\ k.user = j.user /\ k.id = j.id /\ k.row = j.row
        /\ k.next = j.next /\ k.there = j.there /\ k.day = j.day
    BY <2>1 DEF Job
  <2>5. used = rested.used /\ attendance = rested.attendance
    BY <1>1, <2>1 DEF UsedSoFar, AttendanceSoFar
  <2>6. Serial!Funded(j.row.employee, j.row.type, j.row.first, j.row.charge)
    BY <1>3, <2>5, SameFunds DEF j
  <2> HIDE DEF k
  <2>7. FiledBy(k)
    BY <1>1, <2>1, <2>4, <2>6 DEF Permitted, FiledBy
  <2>8. Permitted(k)
    BY <1>1, <2>1, <2>4, <2>7 DEF Permitted
  <2>9. /\ ReqSoFar(k) = ReqSoFar(j) /\ ApprovedSoFar(k) = ApprovedSoFar(j)
        /\ UsedSoFar(k) = UsedSoFar(j) /\ AttendanceSoFar(k) = AttendanceSoFar(j)
    BY <1>1, <2>4 DEF ReqSoFar, ApprovedSoFar, UsedSoFar, AttendanceSoFar, Refunds
  <2> QED BY <1>1, <2>2, <2>3, <2>8, <2>9, ReadsOn DEF j
<1> QED BY <1>2, <1>3 DEF Fund, RowOf

LEMMA SerialRoute ==
    ASSUME \A f, g \in Handlers : f = g, ~Interrupted, HTypeInv, HTypeInv', AloneInv, SerialInv,
           NEW h \in Handlers, Route(h), UNCHANGED <<orgVars, today, edited>>, KeepRested
    PROVE  SerialInv' /\ UNCHANGED Serial!vars
<1> DEFINE j == job[h]
           orders == IF j.row.status = "PENDING"
                     THEN DOMAIN ActiveTiers(j.row.employee, workflow) ELSE {}
           row == [j.row EXCEPT !.tier = FirstIn(orders)]
           k == [j EXCEPT !.at = "INSERT", !.there = orders, !.row = row]
<1>1. j # Null /\ j.op = "CREATE" /\ j.at = "ROUTE" /\ ReadsOnly
  BY DEF Route, At
<1>2. j \in Job /\ Permitted(j) /\ j.row \in Request /\ j.row.employee \in Employees
  BY <1>1, RunningJob
<1>3. job' = [job EXCEPT ![h] = k]
  BY <1>1, <1>2, RunningJob DEF Route, Job, Request
<1>4. k \in Job
  <2>1. ActiveTiers(j.row.employee, workflow) \in Chain
        /\ DOMAIN ActiveTiers(j.row.employee, workflow) \in SUBSET TierOrders
    BY <1>2, ActiveTiersType DEF HTypeInv, HTypeOK
  <2>2. orders \in SUBSET TierOrders /\ orders \in SUBSET Nat
    BY <2>1, BoundsAssumption DEF TierOrders
  <2>3. FirstIn(orders) \in TierOrders \cup {Null}
    BY <2>2, FirstTier
  <2> HIDE DEF j, orders
  <2>4. row \in Request
    BY <1>2, <2>3 DEF Request
  <2> HIDE DEF row
  <2> QED BY <1>2, <2>2, <2>4 DEF Job, Awaits
<1> HIDE DEF j, orders, row
<1>5. /\ k.op = j.op /\ k.at = "INSERT" /\ k.user = j.user /\ k.id = j.id /\ k.row = row
      /\ k.next = j.next /\ k.there = orders /\ k.day = j.day
  BY <1>2 DEF Job
<1>6. /\ row.employee = j.row.employee /\ row.type = j.row.type /\ row.first = j.row.first
      /\ row.last = j.row.last /\ row.charge = j.row.charge /\ row.tier = FirstIn(orders)
  BY <1>2 DEF row, Request
<1> HIDE DEF k
<1>7. FiledBy(k)
  <2>1. PICK session \in {"FULL_DAY", "HALF_DAY"}, override \in BOOLEAN :
          /\ MayFile(j.user, j.row.employee, override)
          /\ ValidSpan(j.row.first, j.row.last, session)
          /\ Serial!DaysFree(j.row.employee, j.row.first, j.row.last)
          /\ override \/ Serial!Funded(j.row.employee, j.row.type, j.row.first, j.row.charge)
          /\ j.row = NewRequest(j.row.employee, j.row.type, j.row.first, j.row.last, session, j.row.tier,
                                IF NeedsApproval[j.row.type] THEN "PENDING" ELSE "APPROVED",
                                IF NeedsApproval[j.row.type] THEN Null ELSE j.user)
    BY <1>1, <1>2 DEF Permitted, FiledBy
  <2>2. row = NewRequest(row.employee, row.type, row.first, row.last, session, row.tier,
                         IF NeedsApproval[row.type] THEN "PENDING" ELSE "APPROVED",
                         IF NeedsApproval[row.type] THEN Null ELSE j.user)
    BY <1>6, <2>1 DEF row, NewRequest
  <2>3. j.row.status = "PENDING" <=> NeedsApproval[j.row.type]
    BY <2>1 DEF NewRequest
  <2> QED BY <1>5, <1>6, <2>1, <2>2, <2>3 DEF FiledBy, orders
<1>8. Permitted(k)
  BY <1>1, <1>2, <1>5, <1>6, <1>7 DEF Permitted
<1>9. /\ ReqSoFar(k) = ReqSoFar(j) /\ ApprovedSoFar(k) = ApprovedSoFar(j)
      /\ UsedSoFar(k) = UsedSoFar(j) /\ AttendanceSoFar(k) = AttendanceSoFar(j)
  BY <1>1, <1>5 DEF ReqSoFar, ApprovedSoFar, UsedSoFar, AttendanceSoFar, Refunds
<1> QED BY <1>1, <1>3, <1>4, <1>8, <1>9, ReadsOn DEF j

\* The handlers that decide, up to their first write.
LEMMA SerialAuthorise ==
    ASSUME \A f, g \in Handlers : f = g, ~Interrupted, HTypeInv, HTypeInv', AloneInv, SerialInv,
           NEW h \in Handlers, Authorise(h), UNCHANGED <<orgVars, today, edited>>, KeepRested
    PROVE  SerialInv' /\ UNCHANGED Serial!vars
<1> DEFINE j == job[h]
           tiers == ActiveTiers(j.row.employee, workflow)
<1>1. j # Null /\ j.op \in {"APPROVE", "REJECT"} /\ j.at = "AUTHORISE" /\ ReadsOnly
  BY DEF Authorise, At
<1>2. j \in Job /\ Permitted(j)
  BY <1>1, RunningJob
<1>3. ASSUME NEW op \in Ops, NEW at \in Awaits,
             job' = [job EXCEPT ![h] = [j EXCEPT !.op = op, !.at = at]],
             MayDecide(j.user, j.row.employee, j.row.tier, tiers, headLogin),
             \/ op = j.op /\ op = "REJECT" /\ at = "WRITE"
             \/ op = j.op /\ op = "APPROVE" /\ at = "NEXT" /\ j.row.tier \in DOMAIN tiers
             \/ j.op = "APPROVE" /\ op = "SIMPLE" /\ at = "WRITE" /\ j.row.tier \notin DOMAIN tiers
      PROVE  SerialInv' /\ UNCHANGED Serial!vars
  <2> DEFINE k == [j EXCEPT !.op = op, !.at = at]
  <2> HIDE DEF j, tiers
  <2>1. k \in Job /\ job' = [job EXCEPT ![h] = k]
    BY <1>2, <1>3 DEF Job
  <2>2. /\ k.op = op /\ k.at = at /\ k.user = j.user /\ k.id = j.id /\ k.row = j.row
        /\ k.next = j.next /\ k.day = j.day
    BY <1>2 DEF Job
  <2> HIDE DEF k
  <2>3. Decides(j) /\ j.id \in Serial!Filed /\ rested.req[j.id] = j.row /\ j.day = j.row.first
    BY <1>1, <1>2 DEF Permitted
  <2>4. Decides(k)
    BY <1>1, <1>3, <2>2, <2>3 DEF Decides, tiers
  <2>5. op \in {"APPROVE", "SIMPLE", "REJECT"} /\ at \in {"WRITE", "NEXT"}
    BY <1>3
  <2>6. Permitted(k)
    BY <2>2, <2>3, <2>4, <2>5 DEF Permitted
  <2>7. /\ ReqSoFar(k) = ReqSoFar(j) /\ ApprovedSoFar(k) = ApprovedSoFar(j)
        /\ UsedSoFar(k) = UsedSoFar(j) /\ AttendanceSoFar(k) = AttendanceSoFar(j)
    BY <1>1, <1>3, <2>2, <2>5 DEF ReqSoFar, ApprovedSoFar, UsedSoFar, AttendanceSoFar, Refunds
  <2> QED BY <1>1, <2>1, <2>6, <2>7, ReadsOn DEF j
<1>4. CASE Return(h)
  BY <1>1, <1>4, Refused
<1>5. CASE ~Return(h)
  <2>1. /\ RowOf(h) = j.row /\ LiveTiers(h) = tiers
    BY <1>1, RunningJob
  <2>2. MayDecide(j.user, j.row.employee, j.row.tier, tiers, headLogin)
    BY <1>5, <2>1 DEF Authorise
  <2>3. \/ j.op = "REJECT" /\ job' = [job EXCEPT ![h].at = "WRITE"]
        \/ /\ j.op = "APPROVE" /\ job' = [job EXCEPT ![h].at = "NEXT"]
           /\ j.row.tier \in DOMAIN tiers
        \/ /\ j.op = "APPROVE" /\ job' = [job EXCEPT ![h].op = "SIMPLE", ![h].at = "WRITE"]
           /\ j.row.tier \notin DOMAIN tiers
    BY <1>1, <1>5, <2>1 DEF Authorise, Goto
  <2>4. \/ /\ j.op = "REJECT" /\ job' = [job EXCEPT ![h] = [j EXCEPT !.op = "REJECT", !.at = "WRITE"]]
        \/ /\ j.op = "APPROVE" /\ job' = [job EXCEPT ![h] = [j EXCEPT !.op = "APPROVE", !.at = "NEXT"]]
           /\ j.row.tier \in DOMAIN tiers
        \/ /\ j.op = "APPROVE" /\ job' = [job EXCEPT ![h] = [j EXCEPT !.op = "SIMPLE", !.at = "WRITE"]]
           /\ j.row.tier \notin DOMAIN tiers
    <3>1. /\ j.op = "REJECT" => [j EXCEPT !.op = "REJECT", !.at = "WRITE"] = [j EXCEPT !.at = "WRITE"]
          /\ j.op = "APPROVE" => [j EXCEPT !.op = "APPROVE", !.at = "NEXT"] = [j EXCEPT !.at = "NEXT"]
      <4> HIDE DEF j
      <4> QED BY <1>2 DEF Job
    <3> QED BY <2>3, <3>1
  <2> HIDE DEF j, tiers
  <2> QED BY <1>3, <2>2, <2>4 DEF Ops, Awaits
<1> QED BY <1>4, <1>5

LEMMA SerialAuthoriseCancel ==
    ASSUME \A f, g \in Handlers : f = g, ~Interrupted, HTypeInv, HTypeInv', AloneInv, SerialInv,
           NEW h \in Handlers, AuthoriseCancel(h), UNCHANGED <<orgVars, today, edited>>, KeepRested
    PROVE  SerialInv' /\ UNCHANGED Serial!vars
<1> DEFINE j == job[h]
           tiers == ActiveTiers(j.row.employee, workflow)
<1>1. /\ j # Null /\ j.op \in {"APPROVE_CANCEL", "REJECT_CANCEL"} /\ j.at = "AUTHORISE"
      /\ ReadsOnly
  BY DEF AuthoriseCancel, At
<1>2. /\ j \in Job /\ Permitted(j) /\ j.next = Null
      /\ RowOf(h) = j.row /\ LiveTiers(h) = tiers
  BY <1>1, RunningJob DEF JobPlace
<1>3. CASE Return(h)
  BY <1>1, <1>3, Refused
<1>4. ASSUME NEW at \in Awaits, job' = [job EXCEPT ![h].at = at],
             MayDecideCancellation(j.user, j.row.employee, j.row.cTier, tiers, headLogin),
             j.op = "REJECT_CANCEL" => at = "WRITE",
             j.op = "APPROVE_CANCEL" =>
                 at = IF j.row.cTier \in CancellationOrders(tiers) THEN "NEXT" ELSE "BALANCE"
      PROVE  SerialInv' /\ UNCHANGED Serial!vars
  <2> DEFINE k == [j EXCEPT !.at = at]
  <2>0. job' = [job EXCEPT ![h] = k]
    BY <1>4
  <2> HIDE DEF j, tiers
  <2>1. k \in Job
    BY <1>2, <1>4 DEF Job
  <2>2. /\ k.op = j.op /\ k.at = at /\ k.user = j.user /\ k.id = j.id /\ k.row = j.row
        /\ k.next = j.next /\ k.day = j.day
    BY <1>2 DEF Job
  <2> HIDE DEF k
  <2>3. /\ DecidesCancellation(j) /\ j.day = j.row.first
        /\ j.id \in Serial!Filed /\ rested.req[j.id] = j.row
    BY <1>1, <1>2 DEF Permitted
  <2>4. Serial!TiersOf(j.id) = tiers
    BY <2>3, SameRules DEF Serial!TiersOf, tiers
  <2>5. DecidesCancellation(k)
    BY <1>1, <1>2, <1>4, <2>2, <2>3, <2>4, SameRules
       DEF DecidesCancellation, tiers, Serial!NextCancellationTier
  <2>6. at \in {"WRITE", "NEXT", "BALANCE"}
    BY <1>1, <1>4
  <2>7. Permitted(k)
    BY <1>1, <2>2, <2>3, <2>5, <2>6 DEF Permitted
  <2>8. /\ ReqSoFar(k) = ReqSoFar(j) /\ ApprovedSoFar(k) = ApprovedSoFar(j)
        /\ UsedSoFar(k) = UsedSoFar(j) /\ AttendanceSoFar(k) = AttendanceSoFar(j)
    BY <1>1, <1>4, <2>2, <2>6
       DEF ReqSoFar, ApprovedSoFar, UsedSoFar, AttendanceSoFar, Refunds, Granting
  <2> QED BY <1>1, <2>0, <2>1, <2>7, <2>8, ReadsOn DEF j
<1>5. CASE ~Return(h)
  <2>1. /\ MayDecideCancellation(j.user, j.row.employee, j.row.cTier, tiers, headLogin)
        /\ j.op = "REJECT_CANCEL" => Goto(h, "WRITE")
        /\ j.op = "APPROVE_CANCEL" =>
              Goto(h, IF j.row.cTier \in CancellationOrders(tiers) THEN "NEXT" ELSE "BALANCE")
    BY <1>1, <1>2, <1>5 DEF AuthoriseCancel
  <2> HIDE DEF j, tiers
  <2> QED BY <1>1, <1>4, <2>1 DEF Goto, Awaits
<1> QED BY <1>3, <1>5

LEMMA SerialFindNext ==
    ASSUME \A f, g \in Handlers : f = g, ~Interrupted, HTypeInv, HTypeInv', AloneInv, SerialInv,
           NEW h \in Handlers, FindNext(h), UNCHANGED <<orgVars, today, edited>>, KeepRested
    PROVE  SerialInv' /\ UNCHANGED Serial!vars
<1> DEFINE j == job[h]
           tiers == ActiveTiers(j.row.employee, workflow)
           orders == CancellationOrders(tiers)
<1>1. /\ j # Null /\ j.op \in {"APPROVE", "REQUEST", "APPROVE_CANCEL"} /\ j.at = "NEXT"
      /\ ReadsOnly
  BY DEF FindNext, At
<1>2. /\ j \in Job /\ Permitted(j) /\ j.row \in Request /\ JobOk(j, Filed)
      /\ j.row.employee \in Employees /\ RowOf(h) = j.row /\ LiveTiers(h) = tiers
  BY <1>1, RunningJob
<1>3. tiers \in Chain /\ DOMAIN tiers \in SUBSET TierOrders /\ DOMAIN tiers \in SUBSET Nat
  BY <1>2, ActiveTiersType, BoundsAssumption DEF HTypeInv, HTypeOK, TierOrders
<1>4. ASSUME NEW next \in (1 .. MaxTier + 1) \cup {Null}, NEW at \in Awaits,
             job' = [job EXCEPT ![h].next = next, ![h].at = at],
             j.op = "APPROVE" => next = NextIn(DOMAIN tiers, j.row.tier) /\ at = "RECORD",
             j.op = "REQUEST" => next = FirstIn(orders) /\ at = "WRITE",
             j.op = "APPROVE_CANCEL" => /\ next = NextIn(orders, j.row.cTier)
                                        /\ at = IF next = Null THEN "BALANCE" ELSE "WRITE"
      PROVE  SerialInv' /\ UNCHANGED Serial!vars
  <2> DEFINE k == [j EXCEPT !.next = next, !.at = at]
  <2>0. job' = [job EXCEPT ![h] = k]
    BY <1>4
  <2> HIDE DEF j, tiers, orders
  <2>1. k \in Job
    BY <1>2, <1>4 DEF Job
  <2>2. /\ k.op = j.op /\ k.at = at /\ k.user = j.user /\ k.id = j.id /\ k.row = j.row
        /\ k.next = next /\ k.day = j.day
    BY <1>2 DEF Job
  <2> HIDE DEF k
  <2>3. /\ j.day = j.row.first /\ j.id \in Serial!Filed /\ rested.req[j.id] = j.row
        /\ j.op = "APPROVE" => Decides(j)
        /\ j.op = "REQUEST" => Requests(j)
        /\ j.op = "APPROVE_CANCEL" => DecidesCancellation(j)
    BY <1>1, <1>2 DEF Permitted
  <2>4. Serial!TiersOf(j.id) = tiers
    BY <2>3, SameRules DEF Serial!TiersOf, tiers
  <2>5. j.op = "APPROVE" => Decides(k)
    BY <1>1, <1>4, <2>2, <2>3 DEF Decides, tiers
  <2>6. j.op = "REQUEST" => Requests(k)
    BY <1>1, <1>4, <2>2, <2>3 DEF Requests, tiers, orders
  <2>7. j.op = "APPROVE_CANCEL" => DecidesCancellation(k)
    BY <1>1, <1>4, <2>2, <2>3, <2>4, SameRules
       DEF DecidesCancellation, tiers, orders, Serial!NextCancellationTier
  <2>8. at \in {"RECORD", "WRITE", "BALANCE"} /\ (at = "WRITE" => j.op # "APPROVE")
        /\ (at = "WRITE" /\ j.op = "APPROVE_CANCEL" => next # Null)
        /\ (at = "BALANCE" => j.op = "APPROVE_CANCEL")
    BY <1>1, <1>4
  <2>9. Permitted(k)
    BY <1>1, <2>2, <2>3, <2>5, <2>6, <2>7, <2>8 DEF Permitted
  <2>10. /\ ReqSoFar(k) = ReqSoFar(j) /\ ApprovedSoFar(k) = ApprovedSoFar(j)
         /\ UsedSoFar(k) = UsedSoFar(j) /\ AttendanceSoFar(k) = AttendanceSoFar(j)
    BY <1>1, <2>2, <2>8
       DEF ReqSoFar, ApprovedSoFar, UsedSoFar, AttendanceSoFar, Refunds, Granting
  <2> QED BY <1>1, <2>0, <2>1, <2>9, <2>10, ReadsOn DEF j
<1>5. j.op = "APPROVE" =>
          /\ NextIn(DOMAIN tiers, j.row.tier) \in (1 .. MaxTier + 1) \cup {Null}
          /\ job' = [job EXCEPT ![h].next = NextIn(DOMAIN tiers, j.row.tier), ![h].at = "RECORD"]
  <2> SUFFICES ASSUME j.op = "APPROVE"
               PROVE  /\ NextIn(DOMAIN tiers, j.row.tier) \in (1 .. MaxTier + 1) \cup {Null}
                      /\ job' = [job EXCEPT ![h].next = NextIn(DOMAIN tiers, j.row.tier),
                                            ![h].at = "RECORD"]
    OBVIOUS
  <2>1. j.row.tier \in Nat
    BY <1>1, <1>2, BoundsAssumption DEF JobOk, TierOrders
  <2>2. NextIn(DOMAIN tiers, j.row.tier) = Null \/ NextIn(DOMAIN tiers, j.row.tier) \in DOMAIN tiers
    <3> HIDE DEF j, tiers
    <3> QED BY <1>3, <2>1, NextTier
  <2>3. TierOrders \subseteq 1 .. MaxTier + 1
    BY BoundsAssumption DEF TierOrders
  <2> QED BY <1>2, <1>3, <2>2, <2>3 DEF FindNext
<1>6. j.op = "REQUEST" =>
          /\ FirstIn(orders) \in (1 .. MaxTier + 1) \cup {Null}
          /\ job' = [job EXCEPT ![h].next = FirstIn(orders), ![h].at = "WRITE"]
  BY <1>2, <1>3, CancellationSteps DEF FindNext
<1>7. j.op = "APPROVE_CANCEL" =>
          LET next == NextIn(orders, j.row.cTier)
          IN  /\ next \in (1 .. MaxTier + 1) \cup {Null}
              /\ job' = [job EXCEPT ![h].next = next,
                                    ![h].at = IF next = Null THEN "BALANCE" ELSE "WRITE"]
  <2>1. j.op = "APPROVE_CANCEL" => j.row.cTier \in 1 .. MaxTier + 1
    BY <1>1, <1>2 DEF JobOk, Request
  <2> QED BY <1>2, <1>3, <2>1, CancellationSteps DEF FindNext
<1> HIDE DEF j, tiers, orders
<1>8. CASE j.op = "APPROVE"
  BY <1>4, <1>5, <1>8 DEF Awaits
<1>9. CASE j.op = "REQUEST"
  BY <1>4, <1>6, <1>9 DEF Awaits
<1>10. CASE j.op = "APPROVE_CANCEL"
  <2> DEFINE next == NextIn(orders, j.row.cTier)
             at == IF next = Null THEN "BALANCE" ELSE "WRITE"
  <2>1. at \in Awaits
    BY DEF Awaits
  <2>2. next \in (1 .. MaxTier + 1) \cup {Null} /\ job' = [job EXCEPT ![h].next = next, ![h].at = at]
    BY <1>7, <1>10
  <2>3. next = NextIn(orders, j.row.cTier) /\ at = IF next = Null THEN "BALANCE" ELSE "WRITE"
    OBVIOUS
  <2> HIDE DEF next, at
  <2> QED BY <1>4, <1>10, <2>1, <2>2, <2>3
<1> QED BY <1>1, <1>8, <1>9, <1>10

LEMMA SerialRecord ==
    ASSUME \A f, g \in Handlers : f = g, ~Interrupted, HTypeInv, HTypeInv', AloneInv, SerialInv,
           NEW h \in Handlers, Record(h), UNCHANGED <<orgVars, today, edited>>, KeepRested
    PROVE  SerialInv' /\ UNCHANGED Serial!vars
<1> DEFINE j == job[h]
           k == [j EXCEPT !.at = "WRITE"]
<1>1. /\ j # Null /\ j.op = "APPROVE" /\ j.at = "RECORD"
      /\ UNCHANGED <<req, used, entitled, attendance, standing>>
      /\ job' = [job EXCEPT ![h] = k]
  BY DEF Record, At, Goto
<1>2. /\ j \in Job /\ Permitted(j) /\ RowOf(h) = j.row
      /\ req = ReqSoFar(j) /\ approved = ApprovedSoFar(j) /\ used = UsedSoFar(j)
      /\ attendance = AttendanceSoFar(j) /\ standing = rested.standing
  BY <1>1, RunningJob
<1>3. approved' = [approved EXCEPT ![j.id] = @ \cup {j.row.tier}]
  BY <1>2 DEF Record
<1> HIDE DEF j
<1>4. k \in Job
  BY <1>2 DEF Job, Awaits
<1>5. /\ k.op = j.op /\ k.at = "WRITE" /\ k.user = j.user /\ k.id = j.id /\ k.row = j.row
      /\ k.next = j.next /\ k.day = j.day
  BY <1>2 DEF Job
<1> HIDE DEF k
<1>6. Permitted(k)
  <2>1. Decides(j) /\ j.id \in Serial!Filed /\ rested.req[j.id] = j.row /\ j.day = j.row.first
    BY <1>1, <1>2 DEF Permitted
  <2>2. Decides(k)
    BY <1>1, <1>5, <2>1 DEF Decides
  <2> QED BY <1>1, <1>5, <2>1, <2>2 DEF Permitted
<1>7. /\ req' = ReqSoFar(k) /\ approved' = ApprovedSoFar(k) /\ used' = UsedSoFar(k)
      /\ attendance' = AttendanceSoFar(k) /\ standing' = rested.standing
  BY <1>1, <1>2, <1>3, <1>5 DEF ReqSoFar, ApprovedSoFar, UsedSoFar, AttendanceSoFar, Refunds
<1>8. AtRest' = SoFar(k)
  BY <1>7 DEF AtRest, SoFar
<1>9. k # Null
  BY <1>4, NullJobAssumption
<1> QED BY <1>1, <1>6, <1>8, <1>9, RunsOn

LEMMA SerialReadBalance ==
    ASSUME \A f, g \in Handlers : f = g, ~Interrupted, HTypeInv, HTypeInv', AloneInv, SerialInv,
           NEW h \in Handlers, ReadBalance(h), UNCHANGED <<orgVars, today, edited>>, KeepRested
    PROVE  SerialInv' /\ UNCHANGED Serial!vars
<1> DEFINE j == job[h]
           seen == used[BalanceFor(j.row)]
           k == [j EXCEPT !.seen = seen, !.at = "SETTLE"]
<1>1. j # Null /\ j.at = "BALANCE" /\ ReadsOnly
  BY DEF ReadBalance, At
<1>2. /\ j \in Job /\ Permitted(j) /\ BalanceOf(h) = BalanceFor(j.row)
      /\ BalanceFor(j.row) \in Employees \X LeaveTypes \X Years
  BY <1>1, RunningJob
<1>3. job' = [job EXCEPT ![h] = k]
  BY <1>2 DEF ReadBalance
<1>4. seen \in Nat
  BY <1>2 DEF HTypeInv, HTypeOK, TypeOK
<1> HIDE DEF j, seen
<1>5. k \in Job
  BY <1>2, <1>4 DEF Job, Awaits
<1>6. /\ k.op = j.op /\ k.at = "SETTLE" /\ k.user = j.user /\ k.id = j.id /\ k.row = j.row
      /\ k.next = j.next /\ k.there = j.there /\ k.day = j.day
  BY <1>2 DEF Job
<1> HIDE DEF k
<1>7. Permitted(k)
  <2>1. FiledBy(j) => FiledBy(k)
    BY <1>1, <1>6 DEF FiledBy
  <2>2. Decides(j) => Decides(k)
    BY <1>1, <1>6 DEF Decides
  <2>3. Cancels(j) => Cancels(k)
    BY <1>1, <1>6 DEF Cancels
  <2>4. Requests(j) => Requests(k)
    BY <1>1, <1>6 DEF Requests
  <2>5. DecidesCancellation(j) => DecidesCancellation(k)
    BY <1>1, <1>6 DEF DecidesCancellation
  <2> QED BY <1>1, <1>2, <1>6, <2>1, <2>2, <2>3, <2>4, <2>5 DEF Permitted
<1>8. /\ ReqSoFar(k) = ReqSoFar(j) /\ ApprovedSoFar(k) = ApprovedSoFar(j)
      /\ UsedSoFar(k) = UsedSoFar(j) /\ AttendanceSoFar(k) = AttendanceSoFar(j)
  <2>1. GrantedRow(k) = GrantedRow(j)
    BY <1>6 DEF GrantedRow
  <2> QED BY <1>1, <1>6, <2>1 DEF ReqSoFar, ApprovedSoFar, UsedSoFar, AttendanceSoFar, Refunds
<1> QED BY <1>1, <1>3, <1>5, <1>7, <1>8, ReadsOn DEF j

\* The row a granting handler inserts or updates, and what it does next.
LEMMA SerialGrant ==
    ASSUME \A f, g \in Handlers : f = g, ~Interrupted, HTypeInv, HTypeInv', AloneInv, SerialInv,
           NEW h \in Handlers, Grant(h), UNCHANGED <<orgVars, today, edited>>, KeepRested
    PROVE  SerialInv' /\ UNCHANGED Serial!vars
<1> DEFINE j == job[h]
           k == [j EXCEPT !.at = "BALANCE"]
<1>1. /\ j # Null /\ j.op \in {"APPROVE", "SIMPLE"} /\ j.at = "WRITE" /\ j.next = Null
      /\ UNCHANGED <<approved, used, entitled, attendance, standing>>
      /\ job' = [job EXCEPT ![h] = k]
      /\ req' = [req EXCEPT ![j.id].status = "APPROVED",
                            ![j.id].tier = IF j.op = "APPROVE" THEN Null ELSE @,
                            ![j.id].closedBy = j.user]
  BY DEF Grant, At, Goto, WritesRow
<1>2. /\ j \in Job /\ Permitted(j) /\ j.row \in Request /\ j.user \in Users
      /\ req = ReqSoFar(j) /\ approved = ApprovedSoFar(j) /\ used = UsedSoFar(j)
      /\ attendance = AttendanceSoFar(j) /\ standing = rested.standing
  BY <1>1, RunningJob
<1>3. req \in [RequestIds -> Request \cup {Null}]
  BY DEF HTypeInv, HTypeOK, TypeOK
<1> HIDE DEF j
<1>4. k \in Job
  BY <1>2 DEF Job, Awaits
<1>5. /\ k.op = j.op /\ k.at = "BALANCE" /\ k.user = j.user /\ k.id = j.id /\ k.row = j.row
      /\ k.next = j.next /\ k.day = j.day
  BY <1>2 DEF Job
<1> HIDE DEF k
<1>6. Decides(j) /\ j.id \in Serial!Filed /\ rested.req[j.id] = j.row /\ j.day = j.row.first
  BY <1>1, <1>2 DEF Permitted
<1>7. Permitted(k)
  <2>1. Decides(k)
    BY <1>1, <1>5, <1>6 DEF Decides
  <2> QED BY <1>1, <1>5, <1>6, <2>1 DEF Permitted
<1>8. req = rested.req /\ j.id \in RequestIds /\ req[j.id] = j.row
  BY <1>1, <1>2, <1>6 DEF ReqSoFar, Serial!Filed
<1>9. req' = [req EXCEPT ![j.id] = GrantedRow(k)]
  <2>1. GrantedRow(k) = [j.row EXCEPT !.status = "APPROVED",
                                      !.tier = IF j.op = "APPROVE" THEN Null ELSE @,
                                      !.closedBy = j.user]
    BY <1>1, <1>2, <1>5 DEF GrantedRow, Request
  <2> QED BY <1>1, <1>2, <1>3, <1>8, <2>1 DEF Request
<1>10. req' = ReqSoFar(k)
  BY <1>1, <1>5, <1>8, <1>9 DEF ReqSoFar, Granting
<1>11. /\ approved' = ApprovedSoFar(k) /\ used' = UsedSoFar(k)
       /\ attendance' = AttendanceSoFar(k) /\ standing' = rested.standing
  BY <1>1, <1>2, <1>5 DEF ApprovedSoFar, UsedSoFar, AttendanceSoFar, Refunds
<1>12. AtRest' = SoFar(k)
  BY <1>10, <1>11 DEF AtRest, SoFar
<1>13. k # Null
  BY <1>4, NullJobAssumption
<1> QED BY <1>1, <1>7, <1>12, <1>13, RunsOn

\* The rows of one more day, and of none.
LEMMA MarkedDays ==
    ASSUME NEW rows \in [Employees \X Days -> Rows], NEW e \in Employees,
           NEW a \in Days, NEW d \in Days, a <= d
    PROVE  /\ Marked(rows, e, a .. a - 1) = rows
           /\ [Marked(rows, e, a .. d - 1) EXCEPT ![<<e, d>>] = IF @ = "NONE" THEN "ON_LEAVE" ELSE @]
                = Marked(rows, e, a .. d)
<1>1. a \in Int /\ d \in Int /\ \A k \in Employees \X Days : k[2] \in Int
  BY BoundsAssumption DEF Days
<1>2. Marked(rows, e, a .. a - 1) = rows
  <2>1. a .. a - 1 = {}
    BY <1>1
  <2> QED BY <2>1 DEF Marked
<1>3. \A k \in Employees \X Days : k = <<k[1], k[2]>>
  OBVIOUS
<1>4. ASSUME NEW k \in Employees \X Days
      PROVE  [Marked(rows, e, a .. d - 1) EXCEPT ![<<e, d>>] = IF @ = "NONE" THEN "ON_LEAVE" ELSE @][k]
                = Marked(rows, e, a .. d)[k]
  <2>1. CASE k = <<e, d>>
    <3>1. d \in a .. d /\ d \notin a .. d - 1
      BY <1>1
    <3> QED BY <2>1, <3>1 DEF Marked
  <2>2. CASE k # <<e, d>>
    <3>1. k[1] = e => (k[2] \in a .. d <=> k[2] \in a .. d - 1)
      <4>1. k[1] = e => k[2] # d
        BY <1>3, <2>2
      <4> QED BY <1>1, <4>1
    <3> QED BY <2>2, <3>1 DEF Marked
  <2> QED BY <2>1, <2>2
<1>5. /\ DOMAIN [Marked(rows, e, a .. d - 1) EXCEPT ![<<e, d>>] = IF @ = "NONE" THEN "ON_LEAVE" ELSE @]
            = Employees \X Days
      /\ DOMAIN Marked(rows, e, a .. d) = Employees \X Days
  BY DEF Marked
<1>6. [Marked(rows, e, a .. d - 1) EXCEPT ![<<e, d>>] = IF @ = "NONE" THEN "ON_LEAVE" ELSE @]
         = Marked(rows, e, a .. d)
  <2> DEFINE f == [Marked(rows, e, a .. d - 1) EXCEPT ![<<e, d>>] = IF @ = "NONE" THEN "ON_LEAVE" ELSE @]
             g == Marked(rows, e, a .. d)
  <2>1. /\ f = [k \in Employees \X Days |-> f[k]] /\ g = [k \in Employees \X Days |-> g[k]]
        /\ \A k \in Employees \X Days : f[k] = g[k]
    BY <1>4, <1>5 DEF Marked
  <2> HIDE DEF f, g
  <2> QED BY <2>1 DEF f, g
<1> QED BY <1>2, <1>6

\* The serial rows, typed.
LEMMA RestedTypes ==
    ASSUME SerialInv
    PROVE  /\ rested.req \in [RequestIds -> Request \cup {Null}]
           /\ rested.approved \in [RequestIds -> SUBSET TierOrders]
           /\ rested.used \in [Employees \X LeaveTypes \X Years -> Nat]
           /\ rested.attendance \in [Employees \X Days -> Rows]
           /\ rested.standing \in [RequestIds -> SUBSET TierOrders]
BY SameRules DEF SerialInv, Serial!TypeOK

LEMMA SerialSettle ==
    ASSUME \A f, g \in Handlers : f = g, ~Interrupted, HTypeInv, HTypeInv', AloneInv, SerialInv,
           NEW h \in Handlers, WriteBalance(h), UNCHANGED <<orgVars, today, edited>>, KeepRested
    PROVE  SerialInv' /\ UNCHANGED Serial!vars
<1> DEFINE j == job[h]
           B == BalanceFor(j.row)
           charge == j.row.charge
           at == IF Granting(j.op) THEN "DAYS" ELSE "ROWS"
           k == [j EXCEPT !.at = at]
<1>1. /\ j # Null /\ j.at = "SETTLE"
      /\ UNCHANGED <<req, approved, entitled, attendance, standing>>
      /\ job' = [job EXCEPT ![h] = k]
  BY DEF WriteBalance, At, Goto
<1>2. /\ j \in Job /\ Permitted(j) /\ BalanceOf(h) = B /\ RowOf(h) = j.row
      /\ j.row.employee \in Employees /\ charge \in Nat /\ B \in Employees \X LeaveTypes \X Years
      /\ j.row.first \in Days /\ j.day \in Days /\ JobPlace(j, req)
      /\ req = ReqSoFar(j) /\ approved = ApprovedSoFar(j) /\ used = UsedSoFar(j)
      /\ attendance = AttendanceSoFar(j) /\ standing = rested.standing
  BY <1>1, RunningJob
<1>3. used = rested.used /\ attendance = rested.attendance
  BY <1>1, <1>2 DEF UsedSoFar, AttendanceSoFar
<1>4. j.seen = rested.used[B] /\ rested.used[B] \in Nat
  <2>1. JobBalance(j, req, used, Due)
    BY <1>1 DEF AloneInv, JobAlone
  <2> HIDE DEF j
  <2> QED BY <1>1, <1>2, <1>3, <2>1, RestedTypes DEF JobBalance, BalanceFor
<1>5. used' = [rested.used EXCEPT ![B] = IF Granting(j.op) THEN rested.used[B] + charge
                                         ELSE Refunded(rested.used[B], charge)]
  BY <1>2, <1>3, <1>4 DEF WriteBalance, Refunded
<1> HIDE DEF j, B
<1>6. at \in {"DAYS", "ROWS"} /\ (at = "DAYS" <=> Granting(j.op))
  OBVIOUS
<1> HIDE DEF at
<1>7. k \in Job
  BY <1>2, <1>6 DEF Job, Awaits
<1>8. /\ k.op = j.op /\ k.at = at /\ k.user = j.user /\ k.id = j.id /\ k.row = j.row
      /\ k.next = j.next /\ k.there = j.there /\ k.day = j.day
  BY <1>2 DEF Job
<1> HIDE DEF k
<1>9. j.day = j.row.first /\ (Granting(j.op) \/ Withdrawing(j.op)) /\ j.next = Null
  BY <1>1, <1>2 DEF Permitted, JobPlace
<1>10. ~Granting(j.op) => Refunds(k)
  BY <1>1, <1>2, <1>8, <1>9 DEF Permitted, Cancels, Refunds, Granting, Withdrawing
<1>11. Permitted(k)
  <2>1. FiledBy(j) /\ j.op = "CREATE" => FiledBy(k)
    BY <1>1, <1>6, <1>8 DEF FiledBy, Granting
  <2>2. Decides(j) /\ (j.op = "REJECT" => FALSE) /\ j.op \in {"APPROVE", "SIMPLE"} => Decides(k)
    BY <1>1, <1>6, <1>8 DEF Decides, Granting
  <2>3. Cancels(j) /\ j.op = "CANCEL" => Cancels(k)
    BY <1>1, <1>6, <1>8 DEF Cancels, Granting
  <2>4. DecidesCancellation(j) /\ j.op = "APPROVE_CANCEL" => DecidesCancellation(k)
    BY <1>1, <1>6, <1>8 DEF DecidesCancellation, Granting
  <2> QED BY <1>1, <1>2, <1>6, <1>8, <1>9, <2>1, <2>2, <2>3, <2>4
          DEF Permitted, Granting, Withdrawing
<1>12. req' = ReqSoFar(k) /\ approved' = ApprovedSoFar(k)
  <2>1. GrantedRow(k) = GrantedRow(j)
    BY <1>8 DEF GrantedRow
  <2> QED BY <1>1, <1>2, <1>6, <1>8, <1>9, <2>1 DEF ReqSoFar, ApprovedSoFar, Granting, Withdrawing
<1>13. used' = UsedSoFar(k)
  BY <1>5, <1>6, <1>8, <1>10 DEF UsedSoFar, B
<1>14. attendance' = AttendanceSoFar(k)
  <2>1. Marked(rested.attendance, j.row.employee, j.row.first .. j.row.first - 1) = rested.attendance
    <3>1. j.row.first <= j.row.first
      BY <1>2, BoundsAssumption DEF Days
    <3> QED BY <1>2, <3>1, MarkedDays, RestedTypes
  <2> QED BY <1>1, <1>3, <1>6, <1>8, <1>9, <2>1 DEF AttendanceSoFar
<1>15. AtRest' = SoFar(k)
  BY <1>1, <1>2, <1>12, <1>13, <1>14 DEF AtRest, SoFar
<1>16. k # Null
  BY <1>7, NullJobAssumption
<1> QED BY <1>1, <1>11, <1>15, <1>16, RunsOn

LEMMA SerialDrop ==
    ASSUME \A f, g \in Handlers : f = g, ~Interrupted, HTypeInv, HTypeInv', AloneInv, SerialInv,
           NEW h \in Handlers, DropRows(h), UNCHANGED <<orgVars, today, edited>>, KeepRested
    PROVE  SerialInv' /\ UNCHANGED Serial!vars
<1> DEFINE j == job[h]
           k == [j EXCEPT !.at = "WRITE"]
<1>1. /\ j # Null /\ j.at = "ROWS"
      /\ UNCHANGED <<req, approved, used, entitled, standing>>
      /\ job' = [job EXCEPT ![h] = k]
  BY DEF DropRows, At, Goto
<1>2. /\ j \in Job /\ Permitted(j) /\ RowOf(h) = j.row /\ JobPlace(j, req)
      /\ req = ReqSoFar(j) /\ approved = ApprovedSoFar(j) /\ used = UsedSoFar(j)
      /\ attendance = AttendanceSoFar(j) /\ standing = rested.standing
  BY <1>1, RunningJob
<1>3. attendance = rested.attendance
  BY <1>1, <1>2 DEF AttendanceSoFar
<1>4. attendance' = Dropped(rested.attendance, j.row.employee, j.row.first .. j.row.last)
  BY <1>2, <1>3 DEF DropRows, Dropped
<1> HIDE DEF j
<1>5. k \in Job
  BY <1>2 DEF Job, Awaits
<1>6. /\ k.op = j.op /\ k.at = "WRITE" /\ k.user = j.user /\ k.id = j.id /\ k.row = j.row
      /\ k.next = j.next /\ k.day = j.day
  BY <1>2 DEF Job
<1> HIDE DEF k
<1>7. Withdrawing(j.op) /\ j.next = Null
  BY <1>1, <1>2 DEF JobPlace
<1>8. Refunds(j) /\ Refunds(k)
  BY <1>1, <1>2, <1>6, <1>7 DEF Permitted, Cancels, Refunds, Withdrawing
<1>9. Permitted(k)
  <2>1. Cancels(j) /\ j.op = "CANCEL" => Cancels(k)
    BY <1>1, <1>6 DEF Cancels
  <2>2. DecidesCancellation(j) /\ j.op = "APPROVE_CANCEL" => DecidesCancellation(k)
    BY <1>1, <1>6 DEF DecidesCancellation
  <2> QED BY <1>1, <1>2, <1>6, <1>7, <2>1, <2>2 DEF Permitted, Withdrawing
<1>10. /\ req' = ReqSoFar(k) /\ approved' = ApprovedSoFar(k) /\ used' = UsedSoFar(k)
       /\ attendance' = AttendanceSoFar(k)
  BY <1>1, <1>2, <1>4, <1>6, <1>7, <1>8
     DEF ReqSoFar, ApprovedSoFar, UsedSoFar, AttendanceSoFar, Withdrawing, Granting
<1>11. AtRest' = SoFar(k)
  BY <1>1, <1>2, <1>10 DEF AtRest, SoFar
<1>12. k # Null
  BY <1>5, NullJobAssumption
<1> QED BY <1>1, <1>9, <1>11, <1>12, RunsOn

\* A request that is filed and waits: the serial service files it in one step.
LEMMA SerialInsert ==
    ASSUME \A f, g \in Handlers : f = g, ~Interrupted, HTypeInv, HTypeInv', AloneInv, SerialInv,
           NEW h \in Handlers, NEW r \in RequestIds, Insert(h, r),
           UNCHANGED <<orgVars, today, edited>>, KeepRested
    PROVE  SerialInv' /\ [Serial!Next]_Serial!vars
<1> DEFINE j == job[h]
           e == j.row.employee
           t == j.row.type
<1>1. /\ j # Null /\ j.op = "CREATE" /\ j.at = "INSERT" /\ r \notin Filed
      /\ UNCHANGED <<approved, used, entitled, attendance>>
  BY DEF Insert, At
<1>2. /\ j \in Job /\ Permitted(j) /\ RowOf(h) = j.row /\ JobPlace(j, req)
      /\ j.row \in Request /\ j.user \in Users
      /\ e \in Employees /\ t \in LeaveTypes /\ j.row.first \in Days /\ j.row.last \in Days
      /\ LiveTiers(h) = ActiveTiers(e, workflow)
      /\ req = ReqSoFar(j) /\ approved = ApprovedSoFar(j) /\ used = UsedSoFar(j)
      /\ attendance = AttendanceSoFar(j) /\ standing = rested.standing
  BY <1>1, RunningJob
<1>3. /\ req = rested.req /\ approved = rested.approved /\ used = rested.used
      /\ attendance = rested.attendance
  BY <1>1, <1>2 DEF ReqSoFar, ApprovedSoFar, UsedSoFar, AttendanceSoFar, Refunds
<1>4. /\ req' = [req EXCEPT ![r] = j.row]
      /\ standing' = [standing EXCEPT ![r] = j.there \cap DOMAIN ActiveTiers(e, workflow)]
  BY <1>2 DEF Insert
<1>5. /\ j.row.status = "APPROVED" => job' = [job EXCEPT ![h].at = "BALANCE", ![h].id = r]
      /\ j.row.status # "APPROVED" => Return(h)
  BY <1>2 DEF Insert
<1>6. r \notin Serial!Filed /\ rested.standing[r] = {} /\ Serial!Filed = Filed
  BY <1>1, <1>3 DEF SerialInv, Serial!Filed, Filed
<1>7. FiledBy(j) /\ j.day = j.row.first
  BY <1>1, <1>2 DEF Permitted
<1>8. /\ j.row.status = IF NeedsApproval[t] THEN "PENDING" ELSE "APPROVED"
      /\ j.there = IF NeedsApproval[t] THEN DOMAIN ActiveTiers(e, workflow) ELSE {}
  BY <1>1, <1>7 DEF FiledBy, NewRequest
<1> HIDE DEF j, e, t
<1>9. CASE ~NeedsApproval[t]
  <2> DEFINE k == [j EXCEPT !.at = "BALANCE", !.id = r]
  <2>1. job' = [job EXCEPT ![h] = k]
    BY <1>2, <1>5, <1>8, <1>9 DEF Job, j
  <2>2. k \in Job
    BY <1>2 DEF Job, Awaits
  <2>3. /\ k.op = j.op /\ k.at = "BALANCE" /\ k.user = j.user /\ k.id = r /\ k.row = j.row
        /\ k.next = j.next /\ k.there = j.there /\ k.day = j.day
    BY <1>2 DEF Job
  <2> HIDE DEF k
  <2>4. FiledBy(k)
    BY <1>1, <1>6, <1>7, <1>8, <1>9, <2>3 DEF FiledBy, t
  <2>5. Permitted(k)
    BY <1>1, <1>7, <2>3, <2>4 DEF Permitted
  <2>6. standing' = rested.standing
    BY <1>2, <1>4, <1>6, <1>8, <1>9, RestedTypes
  <2>7. /\ req' = ReqSoFar(k) /\ approved' = ApprovedSoFar(k) /\ used' = UsedSoFar(k)
        /\ attendance' = AttendanceSoFar(k)
    BY <1>1, <1>3, <1>4, <2>3
       DEF ReqSoFar, GrantedRow, ApprovedSoFar, UsedSoFar, AttendanceSoFar, Granting
  <2>8. AtRest' = SoFar(k)
    BY <2>6, <2>7 DEF AtRest, SoFar
  <2>9. k # Null
    BY <2>2, NullJobAssumption
  <2> QED BY <1>1, <2>1, <2>5, <2>8, <2>9, RunsOn
<1>10. CASE NeedsApproval[t]
  <2>1. Return(h)
    BY <1>5, <1>8, <1>10
  <2>2. standing' = [standing EXCEPT ![r] = DOMAIN ActiveTiers(e, workflow)]
    BY <1>4, <1>8, <1>10
  <2>3. \A s \in RequestIds : req'[s] = Null => standing'[s] = {}
    <3>1. j.row # Null
      BY <1>2, NullRowAssumption
    <3>2. req \in [RequestIds -> Request \cup {Null}]
      BY <1>3, RestedTypes
    <3>3. \A s \in RequestIds : req'[s] = Null => s # r /\ req[s] = Null
      BY <1>4, <3>1, <3>2
    <3>4. \A s \in RequestIds : req[s] = Null => standing[s] = {}
      BY <1>2, <1>3 DEF SerialInv, Serial!Filed
    <3>5. \A s \in RequestIds : s # r => standing'[s] = standing[s]
      BY <1>2, <2>2, RestedTypes
    <3> QED BY <3>3, <3>4, <3>5
  <2>4. SerialInv' /\ rested' = AtRest'
    BY <2>1, <2>3, ComesToRest
  <2>5. PICK session \in {"FULL_DAY", "HALF_DAY"}, override \in BOOLEAN :
          /\ MayFile(j.user, e, override)
          /\ ValidSpan(j.row.first, j.row.last, session)
          /\ Serial!DaysFree(e, j.row.first, j.row.last)
          /\ override \/ Serial!Funded(e, t, j.row.first, j.row.charge)
          /\ j.row = NewRequest(e, t, j.row.first, j.row.last, session, j.row.tier, "PENDING", Null)
    BY <1>1, <1>7, <1>10 DEF FiledBy, e, t
  <2>6. j.row.tier = FirstIn(DOMAIN ActiveTiers(e, workflow))
    BY <1>1, <1>7, <1>8, <1>10 DEF FiledBy, t
  <2>7. j.row.charge = Serial!LeaveCharge(e, j.row.first, j.row.last, session)
    <3>1. j.row = Serial!NewRequest(e, t, j.row.first, j.row.last, session, j.row.tier, "PENDING", Null)
      BY <2>5, SameRules
    <3>2. Serial!NewRequest(e, t, j.row.first, j.row.last, session, j.row.tier, "PENDING", Null).charge
             = Serial!LeaveCharge(e, j.row.first, j.row.last, session)
      BY DEF Serial!NewRequest
    <3> QED BY <3>1, <3>2
  <2>8. Serial!Filing(j.user, e, t, j.row.first, j.row.last, session, override)
    <3>1. Serial!MayFile(j.user, e, override)
      BY <2>5, SameRules DEF MayFile, SignedIn, Serial!MayFile, Serial!SignedIn
    <3> QED BY <2>5, <2>7, <3>1, SameRules DEF Serial!Filing
  <2>9. /\ rested'.req = [rested.req EXCEPT ![r] = j.row]
        /\ rested'.standing = [rested.standing EXCEPT ![r] = DOMAIN ActiveTiers(e, workflow)]
        /\ rested'.approved = rested.approved /\ rested'.used = rested.used
        /\ rested'.attendance = rested.attendance
    BY <1>1, <1>2, <1>3, <1>4, <2>2, <2>4 DEF AtRest
  <2>10. j.row = Serial!NewRequest(e, t, j.row.first, j.row.last, session,
                                   Serial!FirstIn(DOMAIN Serial!ActiveTiers(e, workflow)), "PENDING", Null)
    BY <2>5, <2>6, SameRules
  <2>11. Serial!CreatePending(j.user, r, e, t, j.row.first, j.row.last, session, override)
    <3> HIDE DEF SerialInv
    <3>1. DOMAIN Serial!ActiveTiers(e, workflow) = DOMAIN ActiveTiers(e, workflow)
      BY SameRules
    <3>2. UNCHANGED <<entitled, workflow, headLogin, login, today, edited>>
      BY <1>1 DEF orgVars
    <3> QED BY <1>6, <1>10, <2>8, <2>9, <2>10, <3>1, <3>2 DEF Serial!CreatePending, Serial!orgVars
  <2>12. Serial!Create(j.user, r)
    BY <1>2, <2>11, SameRules DEF Serial!Create
  <2>13. Serial!Next
    BY <1>2, <2>12 DEF Serial!Next
  <2> QED BY <2>4, <2>13
<1> QED BY <1>9, <1>10

\* The last write of a handler that decides.
LEMMA Decided ==
    ASSUME \A f, g \in Handlers : f = g, ~Interrupted, HTypeInv, HTypeInv', AloneInv, SerialInv,
           NEW h \in Handlers, job[h] # Null, Return(h), KeepRested,
           UNCHANGED <<orgVars, today, edited, standing>>,
           \A s \in RequestIds : req'[s] = Null => rested.req[s] = Null
    PROVE  /\ SerialInv'
           /\ rested'.req = req' /\ rested'.approved = approved' /\ rested'.used = used'
           /\ rested'.attendance = attendance' /\ rested'.standing = rested.standing
           /\ UNCHANGED <<workflow, headLogin, login, today, edited>>
<1>1. standing' = rested.standing
  BY RunningJob
<1>2. \A s \in RequestIds : req'[s] = Null => standing'[s] = {}
  BY <1>1 DEF SerialInv, Serial!Filed
<1>3. SerialInv' /\ rested' = AtRest'
  BY <1>2, ComesToRest
<1> QED BY <1>1, <1>3 DEF AtRest, orgVars

\* The last day of a grant.
LEMMA SerialMark ==
    ASSUME \A f, g \in Handlers : f = g, ~Interrupted, HTypeInv, HTypeInv', AloneInv, SerialInv,
           NEW h \in Handlers, MarkDay(h), UNCHANGED <<orgVars, today, edited>>, KeepRested
    PROVE  SerialInv' /\ [Serial!Next]_Serial!vars
<1> DEFINE j == job[h]
           e == j.row.employee
           t == j.row.type
           B == BalanceFor(j.row)
           granted == GrantedRow(j)
<1>1. /\ j # Null /\ j.at = "DAYS"
      /\ UNCHANGED <<req, approved, used, entitled, standing>>
  BY DEF MarkDay, At
<1>2. /\ j \in Job /\ Permitted(j) /\ RowOf(h) = j.row /\ JobPlace(j, req)
      /\ j.row \in Request /\ j.user \in Users /\ j.id \in RequestIds \cup {Null}
      /\ e \in Employees /\ t \in LeaveTypes /\ j.row.first \in Days /\ j.row.last \in Days
      /\ j.day \in Days
      /\ req = ReqSoFar(j) /\ approved = ApprovedSoFar(j) /\ used = UsedSoFar(j)
      /\ attendance = AttendanceSoFar(j) /\ standing = rested.standing
  BY <1>1, RunningJob
<1>3. j.row.first <= j.day /\ j.day <= j.row.last /\ Granting(j.op) /\ j.next = Null /\ j.id # Null
  BY <1>1, <1>2 DEF JobPlace
<1>4. attendance' = Marked(rested.attendance, e, j.row.first .. j.day)
  <2>1. attendance = Marked(rested.attendance, e, j.row.first .. j.day - 1)
    BY <1>1, <1>2 DEF AttendanceSoFar
  <2>2. attendance' = [attendance EXCEPT ![<<e, j.day>>] = IF @ = "NONE" THEN "ON_LEAVE" ELSE @]
    BY <1>2 DEF MarkDay
  <2> HIDE DEF j, e
  <2> QED BY <1>2, <1>3, <2>1, <2>2, MarkedDays, RestedTypes
<1>5. /\ j.day < j.row.last => job' = [job EXCEPT ![h].day = @ + 1]
      /\ ~(j.day < j.row.last) => Return(h)
  BY <1>2 DEF MarkDay
<1>6. req = [rested.req EXCEPT ![j.id] = granted]
  BY <1>1, <1>2, <1>3 DEF ReqSoFar
<1>7. used = [rested.used EXCEPT ![B] = @ + j.row.charge]
  BY <1>1, <1>2 DEF UsedSoFar
<1>8. CASE j.day < j.row.last
  <2> DEFINE k == [j EXCEPT !.day = @ + 1]
  <2>1. job' = [job EXCEPT ![h] = k]
    BY <1>5, <1>8
  <2> HIDE DEF j, e, t, B, granted
  <2>2. k.day = j.day + 1 /\ k.day \in Days /\ k.day - 1 = j.day
    BY <1>2, <1>8, BoundsAssumption DEF Job, Days
  <2>3. k \in Job
    BY <1>2, <2>2 DEF Job
  <2>4. /\ k.op = j.op /\ k.at = "DAYS" /\ k.user = j.user /\ k.id = j.id /\ k.row = j.row
        /\ k.next = j.next /\ k.there = j.there
    BY <1>1, <1>2 DEF Job
  <2> HIDE DEF k
  <2>5. Permitted(k)
    <3>1. FiledBy(j) => FiledBy(k)
      BY <1>1, <2>4 DEF FiledBy
    <3>2. Decides(j) => Decides(k)
      BY <1>1, <2>4 DEF Decides
    <3> QED BY <1>1, <1>2, <1>3, <2>4, <3>1, <3>2 DEF Permitted, Granting
  <2>6. /\ req' = ReqSoFar(k) /\ approved' = ApprovedSoFar(k) /\ used' = UsedSoFar(k)
        /\ attendance' = AttendanceSoFar(k)
    <3>1. GrantedRow(k) = GrantedRow(j)
      BY <2>4 DEF GrantedRow
    <3> QED BY <1>1, <1>2, <1>4, <2>2, <2>4, <3>1
            DEF ReqSoFar, ApprovedSoFar, UsedSoFar, AttendanceSoFar, e
  <2>7. AtRest' = SoFar(k)
    BY <1>1, <1>2, <2>6 DEF AtRest, SoFar
  <2>8. k # Null
    BY <2>3, NullJobAssumption
  <2> QED BY <1>1, <2>1, <2>5, <2>7, <2>8, RunsOn
<1>9. CASE ~(j.day < j.row.last)
  <2>1. Return(h)
    BY <1>5, <1>9
  <2> HIDE DEF j, e, t, B, granted
  <2>2. j.day = j.row.last
    BY <1>2, <1>3, <1>9, BoundsAssumption DEF Days
  <2>3. granted # Null
    <3>1. granted \in Request
      BY <1>2, <1>3 DEF granted, GrantedRow, Granting, Request, Statuses
    <3> QED BY <3>1, NullRowAssumption
  <2>4. \A s \in RequestIds : req'[s] = Null => rested.req[s] = Null
    BY <1>1, <1>6, <2>3, RestedTypes
  <2>5. /\ SerialInv'
        /\ rested'.req = req' /\ rested'.approved = approved' /\ rested'.used = used'
        /\ rested'.attendance = attendance' /\ rested'.standing = rested.standing
        /\ UNCHANGED <<workflow, headLogin, login, today, edited>>
    BY <1>1, <2>1, <2>4, Decided DEF j
  <2>6. Serial!ApplyApproval(e, t, j.row.first, j.row.last, j.row.charge)
    <3>1. B = <<e, t, YearOf[j.row.first]>>
      BY DEF B, e, t, BalanceFor
    <3>2. rested'.attendance = Marked(rested.attendance, e, j.row.first .. j.row.last)
      BY <1>4, <2>2, <2>5
    <3> QED BY <1>1, <1>7, <2>5, <3>1, <3>2, SameRules DEF Serial!ApplyApproval, Marked
  <2>7. entitled' = entitled
    BY <1>1
  <2>8. CASE j.op = "CREATE"
    <3>1. FiledBy(j) /\ granted = j.row
      BY <1>2, <2>8 DEF Permitted, granted, GrantedRow
    <3>2. ~NeedsApproval[t] /\ j.id \in RequestIds \ Serial!Filed /\ j.row.tier = Null
      BY <1>1, <3>1 DEF FiledBy, t, FirstIn
    <3>3. PICK session \in {"FULL_DAY", "HALF_DAY"}, override \in BOOLEAN :
            /\ MayFile(j.user, e, override)
            /\ ValidSpan(j.row.first, j.row.last, session)
            /\ Serial!DaysFree(e, j.row.first, j.row.last)
            /\ override \/ Serial!Funded(e, t, j.row.first, j.row.charge)
            /\ j.row = NewRequest(e, t, j.row.first, j.row.last, session, Null, "APPROVED", j.user)
      BY <1>1, <3>1, <3>2 DEF FiledBy, e, t
    <3>4. j.row = Serial!NewRequest(e, t, j.row.first, j.row.last, session, Null, "APPROVED", j.user)
      BY <3>3, SameRules
    <3>5. j.row.charge = Serial!LeaveCharge(e, j.row.first, j.row.last, session)
      <4>1. Serial!NewRequest(e, t, j.row.first, j.row.last, session, Null, "APPROVED", j.user).charge
               = Serial!LeaveCharge(e, j.row.first, j.row.last, session)
        BY DEF Serial!NewRequest
      <4> QED BY <3>4, <4>1
    <3>6. Serial!MayFile(j.user, e, override)
      BY <3>3, SameRules DEF MayFile, SignedIn, Serial!MayFile, Serial!SignedIn
    <3>7. Serial!Filing(j.user, e, t, j.row.first, j.row.last, session, override)
      BY <3>3, <3>5, <3>6, SameRules DEF Serial!Filing
    <3>8. rested'.approved = rested.approved
      BY <1>1, <1>2, <2>5, <2>8 DEF ApprovedSoFar
    <3>9. rested'.req = [rested.req EXCEPT ![j.id] = j.row]
      BY <1>1, <1>6, <2>5, <3>1
    <3>10. Serial!CreateApproved(j.user, j.id, e, t, j.row.first, j.row.last, session, override)
      BY <2>5, <2>6, <2>7, <3>2, <3>4, <3>5, <3>7, <3>8, <3>9 DEF Serial!CreateApproved, Serial!orgVars
    <3>11. Serial!Create(j.user, j.id)
      BY <1>2, <3>10, SameRules DEF Serial!Create
    <3> QED BY <1>2, <2>5, <3>2, <3>11 DEF Serial!Next
  <2>9. CASE j.op \in {"APPROVE", "SIMPLE"}
    <3>1. Decides(j) /\ j.id \in Serial!Filed /\ rested.req[j.id] = j.row
      BY <1>2, <2>9 DEF Permitted
    <3>2. j.id \in RequestIds
      BY <3>1 DEF Serial!Filed
    <3>3. Serial!TiersOf(j.id) = ActiveTiers(e, workflow)
      BY <3>1, SameRules DEF Serial!TiersOf, e
    <3>4. Serial!Deciding(j.user, j.id)
      BY <1>1, <3>1, <3>3, SameRules DEF Serial!Deciding, Serial!SignedIn, Decides, SignedIn, e
    <3>5. Serial!ApplyApproval(rested.req[j.id].employee, rested.req[j.id].type,
                               rested.req[j.id].first, rested.req[j.id].last, rested.req[j.id].charge)
      BY <2>6, <3>1 DEF e, t
    <3>6. rested'.req = [rested.req EXCEPT ![j.id] = granted]
      BY <1>1, <1>6, <2>5
    <3>7. CASE j.op = "APPROVE"
      <4>1. /\ j.row.tier \in DOMAIN ActiveTiers(e, workflow)
            /\ NextIn(DOMAIN ActiveTiers(e, workflow), j.row.tier) = Null
        BY <1>1, <1>3, <3>1, <3>7 DEF Decides, e
      <4>2. rested'.approved = [rested.approved EXCEPT ![j.id] = @ \cup {rested.req[j.id].tier}]
        BY <1>1, <1>2, <2>5, <3>1, <3>7 DEF ApprovedSoFar
      <4>3. rested'.req = [rested.req EXCEPT ![j.id].status = "APPROVED", ![j.id].tier = Null,
                                             ![j.id].closedBy = j.user]
        BY <1>2, <3>1, <3>2, <3>6, <3>7, RestedTypes DEF granted, GrantedRow, Request
      <4>4. Serial!ApproveFinal(j.user, j.id)
        BY <2>5, <2>7, <3>1, <3>3, <3>4, <3>5, <4>1, <4>2, <4>3, SameRules
           DEF Serial!ApproveFinal, Serial!orgVars
      <4> QED BY <1>2, <2>5, <3>2, <4>4 DEF Serial!Next, Serial!Decide
    <3>8. CASE j.op = "SIMPLE"
      <4>1. j.row.tier \notin DOMAIN ActiveTiers(e, workflow)
        BY <3>1, <3>8 DEF Decides, e
      <4>2. rested'.approved = rested.approved
        BY <1>1, <1>2, <2>5, <3>8 DEF ApprovedSoFar
      <4>3. rested'.req = [rested.req EXCEPT ![j.id].status = "APPROVED", ![j.id].closedBy = j.user]
        BY <1>2, <3>1, <3>2, <3>6, <3>8, RestedTypes DEF granted, GrantedRow, Request
      <4>4. Serial!ApproveSimple(j.user, j.id)
        BY <2>5, <2>7, <3>1, <3>3, <3>4, <3>5, <4>1, <4>2, <4>3
           DEF Serial!ApproveSimple, Serial!orgVars
      <4> QED BY <1>2, <2>5, <3>2, <4>4 DEF Serial!Next, Serial!Decide
    <3> QED BY <2>9, <3>7, <3>8
  <2> QED BY <1>3, <2>8, <2>9 DEF Granting
<1> QED BY <1>8, <1>9

\* The updates a handler ends with.
LEMMA SerialUpdates ==
    ASSUME \A f, g \in Handlers : f = g, ~Interrupted, HTypeInv, HTypeInv', AloneInv, SerialInv,
           NEW h \in Handlers, MoveOn(h) \/ Refuse(h) \/ Withdraw(h),
           UNCHANGED <<orgVars, today, edited>>, KeepRested
    PROVE  SerialInv' /\ [Serial!Next]_Serial!vars
<1> DEFINE j == job[h]
           r == j.id
           e == j.row.employee
           tiers == ActiveTiers(e, workflow)
           was == rested.req
<1>1. /\ j # Null /\ j.at = "WRITE" /\ j.op \notin {"CREATE", "SIMPLE"} /\ Return(h)
      /\ UNCHANGED <<approved, used, entitled, attendance, standing>>
  BY DEF MoveOn, Refuse, Withdraw, At, WritesRow
<1>2. /\ j \in Job /\ Permitted(j) /\ j.row \in Request /\ j.user \in Users /\ j.op \in Ops
      /\ e \in Employees
      /\ req = ReqSoFar(j) /\ approved = ApprovedSoFar(j) /\ used = UsedSoFar(j)
      /\ attendance = AttendanceSoFar(j) /\ standing = rested.standing
  BY <1>1, RunningJob
<1>3. req = was
  BY <1>1, <1>2 DEF ReqSoFar
<1>4. r \in Serial!Filed /\ was[r] = j.row /\ r \in RequestIds
  BY <1>1, <1>2 DEF Permitted, Serial!Filed
<1>5. was \in [RequestIds -> Request \cup {Null}]
  BY RestedTypes
<1>6. Serial!TiersOf(r) = tiers
  BY <1>4, SameRules DEF Serial!TiersOf
<1> HIDE DEF j, r, e, tiers, was
\* What every such handler leaves as it was.
<1>7. ASSUME NEW row, row # Null, req' = [was EXCEPT ![r] = row]
      PROVE  /\ SerialInv'
             /\ rested'.req = req' /\ rested'.approved = approved /\ rested'.used = used
             /\ rested'.attendance = attendance /\ rested'.standing = rested.standing
             /\ UNCHANGED <<workflow, headLogin, login, today, edited, entitled>>
  <2>1. \A s \in RequestIds : req'[s] = Null => rested.req[s] = Null
    BY <1>4, <1>5, <1>7 DEF was
  <2> QED BY <1>1, <2>1, Decided DEF j
<1>8. ASSUME NEW u \in Users, Serial!Decide(u, r) PROVE Serial!Next
  BY <1>4, <1>8 DEF Serial!Next
<1>9. CASE MoveOn(h) /\ j.op = "APPROVE"
  <2> DEFINE row == [j.row EXCEPT !.tier = j.next]
  <2>1. j.next # Null /\ req' = [was EXCEPT ![r].tier = j.next]
    BY <1>3, <1>9 DEF MoveOn, j, r
  <2>2. req' = [was EXCEPT ![r] = row]
    BY <1>2, <1>4, <1>5, <2>1 DEF Request
  <2>3. row # Null
    <3>1. JobOk(j, Filed)
      BY <1>1, RunningJob DEF j
    <3>2. j.next \in TierOrders \cup {Null}
      BY <1>9, <3>1 DEF JobOk
    <3>3. row \in Request
      BY <1>2, <3>2 DEF Request
    <3> QED BY <3>3, NullRowAssumption
  <2> HIDE DEF row
  <2>4. Decides(j)
    BY <1>2, <1>9 DEF Permitted
  <2>5. Serial!Deciding(j.user, r)
    BY <1>1, <1>4, <1>6, <2>4, SameRules DEF Serial!Deciding, Serial!SignedIn, Decides, SignedIn, e, tiers, was
  <2>6. j.row.tier \in DOMAIN tiers /\ j.next = NextIn(DOMAIN tiers, j.row.tier)
    BY <1>1, <1>9, <2>4 DEF Decides, tiers, e
  <2>7. approved = [rested.approved EXCEPT ![r] = @ \cup {j.row.tier}]
    BY <1>1, <1>2, <1>9 DEF ApprovedSoFar, r
  <2>8. used = rested.used /\ attendance = rested.attendance
    BY <1>1, <1>2, <1>9 DEF UsedSoFar, AttendanceSoFar, Refunds
  <2>9. Serial!ApproveTier(j.user, r)
    BY <1>4, <1>6, <1>7, <2>1, <2>2, <2>3, <2>5, <2>6, <2>7, <2>8, SameRules
       DEF Serial!ApproveTier, Serial!orgVars, was
  <2> QED BY <1>2, <1>7, <1>8, <2>2, <2>3, <2>9 DEF Serial!Decide
<1>10. CASE MoveOn(h) /\ j.op = "APPROVE_CANCEL"
  <2> DEFINE row == [j.row EXCEPT !.cTier = j.next]
  <2>1. j.next # Null /\ req' = [was EXCEPT ![r].cTier = j.next]
    BY <1>3, <1>10 DEF MoveOn, j, r
  <2>2. req' = [was EXCEPT ![r] = row]
    BY <1>2, <1>4, <1>5, <2>1 DEF Request
  <2>3. row # Null
    <3>1. row \in Request
      BY <1>2 DEF Request, Job
    <3> QED BY <3>1, NullRowAssumption
  <2> HIDE DEF row
  <2>4. DecidesCancellation(j) /\ j.next = Serial!NextCancellationTier(r)
    BY <1>1, <1>2, <1>10 DEF Permitted, DecidesCancellation, r
  <2>5. Serial!DecidingCancellation(j.user, r)
    BY <1>1, <1>4, <1>6, <2>4, SameRules
       DEF Serial!DecidingCancellation, Serial!SignedIn, DecidesCancellation, SignedIn, e, tiers, was
  <2>6. approved = rested.approved /\ used = rested.used /\ attendance = rested.attendance
    BY <1>1, <1>2, <1>10, <2>1 DEF ApprovedSoFar, UsedSoFar, AttendanceSoFar, Refunds
  <2>7. Serial!ApproveCancellationTier(j.user, r)
    BY <1>7, <2>1, <2>2, <2>3, <2>4, <2>5, <2>6
       DEF Serial!ApproveCancellationTier, Serial!orgVars, was
  <2> QED BY <1>2, <1>7, <1>8, <2>2, <2>3, <2>7 DEF Serial!Decide
<1>11. CASE MoveOn(h) /\ j.op = "REQUEST"
  <2> DEFINE row == [j.row EXCEPT !.cStatus = "PENDING", !.cTier = j.next]
  <2>1. req' = [was EXCEPT ![r].cStatus = "PENDING", ![r].cTier = j.next]
    BY <1>3, <1>11 DEF MoveOn, j, r
  <2>2. req' = [was EXCEPT ![r] = row]
    BY <1>2, <1>4, <1>5, <2>1 DEF Request
  <2>3. row # Null
    <3>1. row \in Request
      BY <1>2 DEF Request, Job, CancelStatuses
    <3> QED BY <3>1, NullRowAssumption
  <2> HIDE DEF row
  <2>4. Requests(j)
    BY <1>2, <1>11 DEF Permitted
  <2>5. approved = rested.approved /\ used = rested.used /\ attendance = rested.attendance
    BY <1>1, <1>2, <1>11 DEF ApprovedSoFar, UsedSoFar, AttendanceSoFar, Refunds
  <2>6. j.next = Serial!FirstIn(Serial!CancellationOrders(Serial!TiersOf(r)))
    BY <1>1, <1>6, <2>4, SameRules DEF Requests, tiers, e
  <2>7. Serial!RequestCancellation(j.user, r)
    BY <1>4, <1>7, <2>1, <2>2, <2>3, <2>4, <2>5, <2>6
       DEF Serial!RequestCancellation, Serial!RequestingCancellation, Serial!SignedIn,
           Serial!orgVars, Requests, SignedIn, was
  <2> QED BY <1>2, <1>7, <1>8, <2>2, <2>3, <2>7 DEF Serial!Decide
<1>12. CASE Refuse(h) /\ j.op = "REJECT"
  <2> DEFINE row == [j.row EXCEPT !.status = "REJECTED", !.tier = Null, !.closedBy = j.user]
  <2>1. req' = [was EXCEPT ![r].status = "REJECTED", ![r].tier = Null, ![r].closedBy = j.user]
    BY <1>3, <1>12 DEF Refuse, j, r
  <2>2. req' = [was EXCEPT ![r] = row]
    BY <1>2, <1>4, <1>5, <2>1 DEF Request
  <2>3. row # Null
    <3>1. row \in Request
      BY <1>2 DEF Request, Statuses
    <3> QED BY <3>1, NullRowAssumption
  <2> HIDE DEF row
  <2>4. Decides(j)
    BY <1>2, <1>12 DEF Permitted
  <2>5. Serial!Deciding(j.user, r)
    BY <1>1, <1>4, <1>6, <2>4, SameRules DEF Serial!Deciding, Serial!SignedIn, Decides, SignedIn, e, tiers, was
  <2>6. approved = rested.approved /\ used = rested.used /\ attendance = rested.attendance
    BY <1>1, <1>2, <1>12 DEF ApprovedSoFar, UsedSoFar, AttendanceSoFar, Refunds
  <2>7. Serial!Reject(j.user, r)
    BY <1>7, <2>1, <2>2, <2>3, <2>5, <2>6 DEF Serial!Reject, Serial!orgVars, was
  <2> QED BY <1>2, <1>7, <1>8, <2>2, <2>3, <2>7 DEF Serial!Decide
<1>13. CASE Refuse(h) /\ j.op = "REJECT_CANCEL"
  <2> DEFINE row == [j.row EXCEPT !.cStatus = "REJECTED", !.cTier = Null]
  <2>1. req' = [was EXCEPT ![r].cStatus = "REJECTED", ![r].cTier = Null]
    BY <1>3, <1>13 DEF Refuse, j, r
  <2>2. req' = [was EXCEPT ![r] = row]
    BY <1>2, <1>4, <1>5, <2>1 DEF Request
  <2>3. row # Null
    <3>1. row \in Request
      BY <1>2 DEF Request, CancelStatuses
    <3> QED BY <3>1, NullRowAssumption
  <2> HIDE DEF row
  <2>4. DecidesCancellation(j)
    BY <1>2, <1>13 DEF Permitted
  <2>5. Serial!DecidingCancellation(j.user, r)
    BY <1>1, <1>4, <1>6, <2>4, SameRules
       DEF Serial!DecidingCancellation, Serial!SignedIn, DecidesCancellation, SignedIn, e, tiers, was
  <2>6. approved = rested.approved /\ used = rested.used /\ attendance = rested.attendance
    BY <1>1, <1>2, <1>13 DEF ApprovedSoFar, UsedSoFar, AttendanceSoFar, Refunds
  <2>7. Serial!RejectCancellation(j.user, r)
    BY <1>7, <2>1, <2>2, <2>3, <2>5, <2>6 DEF Serial!RejectCancellation, Serial!orgVars, was
  <2> QED BY <1>2, <1>7, <1>8, <2>2, <2>3, <2>7 DEF Serial!Decide
<1>14. CASE Withdraw(h)
  <2> DEFINE closed == IF j.op = "CANCEL" THEN "NONE" ELSE "APPROVED"
             row == CancelledRow(j.row, closed, j.user)
  <2>1. /\ j.op \in {"CANCEL", "APPROVE_CANCEL"} /\ j.next = Null
        /\ req' = [was EXCEPT ![r] = row]
    <3>1. req' = [was EXCEPT ![r] = CancelledRow(@, closed, j.user)]
      BY <1>3, <1>14 DEF Withdraw, j, r
    <3> QED BY <1>4, <1>5, <1>14, <3>1 DEF Withdraw, At, j
  <2>2. closed \in {"NONE", "APPROVED"}
    OBVIOUS
  <2> HIDE DEF closed
  <2>3. row # Null
    <3>1. row \in Request
      BY <1>2, <2>2 DEF Request, CancelStatuses, Statuses, CancelledRow
    <3> QED BY <3>1, NullRowAssumption
  <2>4. row = Serial!CancelledRow(was[r], closed, j.user)
    BY <1>4 DEF CancelledRow, Serial!CancelledRow
  <2> HIDE DEF row
  <2>5. rested'.req = [was EXCEPT ![r] = Serial!CancelledRow(@, closed, j.user)]
    BY <1>4, <1>5, <1>7, <2>1, <2>3, <2>4
  <2>6. approved = rested.approved
    BY <1>1, <1>2, <2>1 DEF ApprovedSoFar
\* The side effects are taken back of a granted leave only.
  <2>7. ASSUME Refunds(j) PROVE Serial!ReverseApproval(r)
    <3>1. used = [rested.used EXCEPT ![BalanceFor(j.row)] = Refunded(@, j.row.charge)]
      BY <1>1, <1>2, <2>7 DEF UsedSoFar
    <3>2. attendance = Dropped(rested.attendance, e, j.row.first .. j.row.last)
      BY <1>1, <1>2, <2>7 DEF AttendanceSoFar, e
    <3>3. Serial!Balance(r) = BalanceFor(j.row)
      BY <1>4 DEF Serial!Balance, BalanceFor, was
    <3>4. rested'.used = [rested.used EXCEPT ![Serial!Balance(r)] =
                             IF @ < rested.req[r].charge THEN 0 ELSE @ - rested.req[r].charge]
      BY <1>4, <1>7, <2>1, <2>3, <3>1, <3>3 DEF Refunded, was
    <3>5. \A k \in Employees \X Days :
             Serial!Covers(r, k[1], k[2]) <=> k[1] = e /\ k[2] \in j.row.first .. j.row.last
      <4>1. j.row.first \in Int /\ j.row.last \in Int /\ \A k \in Employees \X Days : k[2] \in Int
        BY <1>2, BoundsAssumption DEF Request, Days
      <4> QED BY <1>4, <4>1 DEF Serial!Covers, e, was
    <3>6. rested'.attendance = Dropped(rested.attendance, e, j.row.first .. j.row.last)
      BY <1>7, <2>1, <2>3, <3>2
    <3>7. rested'.attendance = [k \in Employees \X Days |->
             IF Serial!Covers(r, k[1], k[2]) /\ rested.attendance[k] = "ON_LEAVE"
             THEN "NONE" ELSE rested.attendance[k]]
      BY <3>5, <3>6 DEF Dropped
    <3> QED BY <3>4, <3>7, SameRules DEF Serial!ReverseApproval
  <2>8. CASE j.op = "CANCEL"
    <3>1. Serial!Cancelling(j.user, r) /\ j.row.status # "CANCELLED" /\ closed = "NONE"
      BY <1>2, <2>8 DEF Permitted, Cancels, closed, r
    <3>2. CASE j.row.status = "APPROVED"
      <4>1. Serial!CancelGranted(j.user, r)
        BY <1>4, <1>7, <2>1, <2>3, <2>5, <2>6, <2>7, <2>8, <3>1, <3>2
           DEF Serial!CancelGranted, Serial!orgVars, Refunds, was
      <4> QED BY <1>2, <1>7, <1>8, <2>1, <2>3, <4>1 DEF Serial!Decide
    <3>3. CASE j.row.status # "APPROVED"
      <4>1. used = rested.used /\ attendance = rested.attendance
        BY <1>1, <1>2, <2>8, <3>3 DEF UsedSoFar, AttendanceSoFar, Refunds
      <4>2. j.row.status \in {"PENDING", "REJECTED"}
        BY <1>2, <3>1, <3>3 DEF Request, Statuses
      <4>3. Serial!CancelOther(j.user, r)
        BY <1>4, <1>7, <2>1, <2>3, <2>5, <2>6, <3>1, <4>1, <4>2
           DEF Serial!CancelOther, Serial!orgVars, was
      <4> QED BY <1>2, <1>7, <1>8, <2>1, <2>3, <4>3 DEF Serial!Decide
    <3> QED BY <3>2, <3>3
  <2>9. CASE j.op = "APPROVE_CANCEL"
    <3>1. /\ DecidesCancellation(j) /\ Serial!NextCancellationTier(r) = Null
          /\ closed = "APPROVED" /\ Refunds(j)
      BY <1>1, <1>2, <2>1, <2>9 DEF Permitted, DecidesCancellation, closed, Refunds, r
    <3>2. Serial!DecidingCancellation(j.user, r)
      BY <1>1, <1>4, <1>6, <3>1, SameRules
         DEF Serial!DecidingCancellation, Serial!SignedIn, DecidesCancellation, SignedIn, e, tiers, was
    <3>3. Serial!ApproveCancellationFinal(j.user, r)
      BY <1>7, <2>1, <2>3, <2>5, <2>6, <2>7, <3>1, <3>2
         DEF Serial!ApproveCancellationFinal, Serial!orgVars, was
    <3> QED BY <1>2, <1>7, <1>8, <2>1, <2>3, <3>3 DEF Serial!Decide
  <2> QED BY <2>1, <2>8, <2>9
<1>15. MoveOn(h) => j.op \in {"APPROVE", "APPROVE_CANCEL", "REQUEST"}
  BY DEF MoveOn, At, j
<1>16. Refuse(h) => j.op \in {"REJECT", "REJECT_CANCEL"}
  BY DEF Refuse, At, j
<1> QED BY <1>9, <1>10, <1>11, <1>12, <1>13, <1>14, <1>15, <1>16

\* When no handler runs, the serial state is the database, and nothing else is asked.
LEMMA AtRestInv ==
    ASSUME HTypeInv', Idle', rested' = AtRest',
           \A r \in RequestIds : req'[r] = Null => standing'[r] = {}
    PROVE  SerialInv'
<1>1. /\ rested'.req = req' /\ rested'.approved = approved' /\ rested'.used = used'
      /\ rested'.attendance = attendance' /\ rested'.standing = standing'
  BY DEF AtRest
<1>2. Serial!TypeOK'
  BY <1>1, SameRules DEF HTypeInv, HTypeOK, TypeOK, Serial!TypeOK
<1>3. \A r \in RequestIds \ Serial!Filed' : rested'.standing[r] = {}
  BY <1>1 DEF Serial!Filed
<1> QED BY <1>2, <1>3 DEF SerialInv, Idle

\* The other services write between two handlers, when both states are one.
LEMMA SerialSurroundings ==
    ASSUME ~Interrupted, HTypeInv, HTypeInv', SerialInv, Idle, job' = job, Surroundings, KeepRested
    PROVE  SerialInv' /\ Serial!Next
<1>1. Idle' /\ rested = AtRest
  BY DEF Idle, SerialInv
<1>2. rested' = AtRest'
  BY <1>1 DEF KeepRested
<1>3. /\ rested.req = req /\ rested.approved = approved /\ rested.used = used
      /\ rested.attendance = attendance /\ rested.standing = standing
      /\ rested'.req = req' /\ rested'.approved = approved' /\ rested'.used = used'
      /\ rested'.attendance = attendance' /\ rested'.standing = standing'
  BY <1>1, <1>2 DEF AtRest
<1>4. Serial!Filed = Filed
  BY <1>3 DEF Serial!Filed, Filed
<1>5. req' = req
  BY SurroundingsShape DEF HTypeInv, HTypeOK
<1>6. \A r \in RequestIds : req'[r] = Null => standing'[r] = {}
  <2>1. \A r \in RequestIds : req[r] = Null => standing[r] = {}
    BY <1>3, <1>4 DEF SerialInv, Filed
  <2>2. \A r \in RequestIds \ Filed : standing'[r] = standing[r]
    BY DEF Surroundings, SetWorkflow, SetHead, SwitchLogin, DeleteLogin, AdjustBalance, ProcessDay,
           CorrectAttendance, NextDay
  <2> QED BY <1>5, <2>1, <2>2 DEF Filed
<1>7. SerialInv'
  BY <1>1, <1>2, <1>6, AtRestInv
<1> USE DEF Serial!dbVars, Serial!orgVars, dbVars, orgVars
<1>8. ASSUME NEW u \in Users, NEW d \in Departments, NEW tiers \in SavableChains \cup {NoTiers},
             SetWorkflow(u, d, tiers)
      PROVE  Serial!SetWorkflow(u, d, tiers)
  BY <1>3, <1>4, <1>8 DEF SetWorkflow, Serial!SetWorkflow, Serial!SignedIn, SignedIn
<1>9. ASSUME NEW d \in Departments, NEW u \in HeadChoices, SetHead(d, u)
      PROVE  Serial!SetHead(d, u)
  BY <1>3, <1>9 DEF SetHead, Serial!SetHead
<1>10. ASSUME NEW u \in LoginsAtRisk, SwitchLogin(u)
       PROVE  Serial!SwitchLogin(u)
  BY <1>3, <1>10 DEF SwitchLogin, Serial!SwitchLogin
<1>11. ASSUME NEW u \in LoginsAtRisk, DeleteLogin(u)
       PROVE  Serial!DeleteLogin(u)
  BY <1>3, <1>11 DEF DeleteLogin, Serial!DeleteLogin
<1>12. ASSUME NEW u \in Users, NEW b \in Employees \X LeaveTypes \X Years, NEW n \in Entitlements,
              AdjustBalance(u, b, n)
       PROVE  Serial!AdjustBalance(u, b, n)
  BY <1>3, <1>12, SameRules DEF AdjustBalance, Serial!AdjustBalance, Serial!SignedIn, SignedIn
<1>13. ASSUME NEW e \in Employees, NEW d \in PunchDays, NEW row \in Rows, ProcessDay(e, d, row)
       PROVE  Serial!ProcessDay(e, d, row)
  BY <1>3, <1>13 DEF ProcessDay, Serial!ProcessDay
<1>14. ASSUME NEW e \in Employees, NEW d \in CorrectDays, NEW row \in Rows,
              CorrectAttendance(e, d, row)
       PROVE  Serial!CorrectAttendance(e, d, row)
  BY <1>3, <1>14 DEF CorrectAttendance, Serial!CorrectAttendance
<1>15. NextDay => Serial!NextDay
  BY <1>3 DEF NextDay, Serial!NextDay
<1>16. Serial!Surroundings
  BY <1>8, <1>9, <1>10, <1>11, <1>12, <1>13, <1>14, <1>15, SameRules
     DEF Surroundings, Serial!Surroundings
<1> QED BY <1>7, <1>16 DEF Serial!Next

\* A step that changes nothing changes nothing here either.
LEMMA SerialStutter ==
    ASSUME \A f, g \in Handlers : f = g, ~Interrupted, HTypeInv, HTypeInv', SerialInv,
           UNCHANGED allVars
    PROVE  SerialInv' /\ UNCHANGED Serial!vars
<1>1. /\ UNCHANGED <<req, approved, used, entitled, attendance, workflow, headLogin, login, today>>
      /\ UNCHANGED <<standing, edited, job, rested>>
  BY DEF allVars, vars
<1>2. AtRest' = AtRest
  BY <1>1 DEF AtRest
<1>3. CASE Idle
  <2>1. Idle' /\ rested' = AtRest' /\ rested = AtRest
    BY <1>1, <1>2, <1>3 DEF Idle, SerialInv
  <2>2. \A r \in RequestIds : req'[r] = Null => standing'[r] = {}
    BY <1>1, <2>1, RestedIsNow DEF SerialInv, Filed
  <2>3. SerialInv'
    BY <2>1, <2>2, AtRestInv
  <2> QED BY <1>1, <2>3 DEF Serial!vars
<1>4. CASE ~Idle
  <2>1. PICK h \in Handlers : job[h] # Null
    BY <1>4 DEF Idle
  <2> DEFINE j == job[h]
  <2>2. j # Null /\ AtRest' = SoFar(j) /\ Permitted(j)
    BY <1>2, <2>1 DEF SerialInv
  <2>3. job' = [job EXCEPT ![h] = j]
    BY <1>1 DEF HTypeInv, HTypeOK
  <2>4. KeepRested
    BY <1>1, <1>4 DEF KeepRested, Idle
  <2>5. UNCHANGED <<orgVars, today, edited, entitled>>
    BY <1>1 DEF orgVars
  <2> HIDE DEF j
  <2> QED BY <2>2, <2>3, <2>4, <2>5, RunsOn
<1> QED BY <1>3, <1>4

\* Every step of the one handler is a step of the serial service, or shows none.
LEMMA SerialNext ==
    ASSUME \A f, g \in Handlers : f = g, ~Interrupted, ~MayCrash,
           HTypeInv, HTypeInv', AloneInv, SerialInv, [HNext]_allVars
    PROVE  SerialInv' /\ [Serial!Next]_Serial!vars
<1>1. ASSUME NEW h \in Handlers, Start(h), UNCHANGED <<orgVars, today, edited>>, KeepRested
      PROVE  SerialInv' /\ [Serial!Next]_Serial!vars
  BY <1>1, SerialStart
<1>2. ASSUME NEW h \in Handlers, Step(h), UNCHANGED <<orgVars, today, edited>>, KeepRested
      PROVE  SerialInv' /\ [Serial!Next]_Serial!vars
  BY <1>2, SerialFund, SerialRoute, SerialInsert, SerialAuthorise, SerialAuthoriseCancel,
     SerialFindNext, SerialRecord, SerialUpdates, SerialGrant, SerialReadBalance, SerialSettle,
     SerialMark, SerialDrop DEF Step
<1>3. ASSUME Surroundings, Idle, job' = job, KeepRested
      PROVE  SerialInv' /\ [Serial!Next]_Serial!vars
  BY <1>3, SerialSurroundings
<1>4. CASE UNCHANGED allVars
  BY <1>4, SerialStutter
<1>5. ~Crash
  BY DEF Crash
<1> QED BY <1>1, <1>2, <1>3, <1>4, <1>5 DEF HNext

\* At the start both services stand still on one database.
LEMMA SerialInit == HInit => SerialInv /\ Serial!Init
<1> SUFFICES ASSUME HInit PROVE SerialInv /\ Serial!Init
  OBVIOUS
<1>1. /\ rested = AtRest /\ \A h \in Handlers : job[h] = Null
      /\ rested.req = req /\ rested.approved = approved /\ rested.used = used
      /\ rested.attendance = attendance /\ rested.standing = standing
  BY DEF HInit, AtRest
<1>2. Serial!TypeOK
  BY <1>1, SameRules, HInitType DEF HTypeInv, HTypeOK, TypeOK, Serial!TypeOK
<1>3. \A r \in RequestIds : rested.standing[r] = {}
  BY <1>1 DEF HInit, Init
<1>4. SerialInv
  BY <1>1, <1>2, <1>3 DEF SerialInv
<1>5. Serial!Init
  BY <1>1, SameRules DEF HInit, Init, Serial!Init
<1> QED BY <1>4, <1>5

\* A handler that nothing interrupts and no crash cuts short does, await by await,
\* what LeaveRequests does in one step: it reads, refuses and writes the same.
THEOREM HandlersAloneAreSerial ==
    ASSUME \A f, g \in Handlers : f = g, ~Interrupted, ~MayCrash
    PROVE  HSpec => ImplementsSerial
<1>1. HTypeInv /\ AloneInv /\ SerialInv /\ [HNext]_allVars
         => HTypeInv' /\ AloneInv' /\ SerialInv' /\ [Serial!Next]_Serial!vars
  BY HTypeStep, AloneNext, SerialNext
<1>2. HInit => HTypeInv /\ AloneInv /\ SerialInv /\ Serial!Init
  BY HInitType, AloneInit, SerialInit
<1> QED BY <1>1, <1>2, PTL DEF HSpec, ImplementsSerial, Serial!Spec
=============================================================================
