------------------------------ MODULE LeaveRollover ------------------------------
(***************************************************************************)
(* One employee's leave balances over the years: LeaveSchedulerService     *)
(* rolls them over on the anniversary of his category, one type after the  *)
(* other and await by await, while initializeBalances fills in rows for    *)
(* HR and leaves are asked for, granted and cancelled in the days between. *)
(***************************************************************************)
EXTENDS Integers, FiniteSetsExt, Common

CONSTANTS
    Kinds,       \* the leave types his category has a LeaveCategoryPolicy for
    Policy,      \* what it says of each
    DaysPerYear, \* days on which something happens in a calendar year (bound)
    LastDay,     \* the last day (bound)
    StartDays,   \* categorySince, of an employee created on day 0 (input set)
    Ahead,       \* how many years ahead a leave is asked for (bound)
    Overdraft,   \* days a balance is exceeded by (bound)
    Asked        \* the types leaves are asked for of (input set)

ASSUME PolicyAssumption ==
    /\ Policy \in [Kinds -> [days : Nat, forward : BOOLEAN, max : Nat \cup {Null}, once : BOOLEAN]]
    /\ Asked \subseteq Kinds
    /\ DaysPerYear \in Nat \ {0} /\ Ahead \in Nat /\ Overdraft \in Nat /\ LastDay \in Nat /\ StartDays \subseteq Nat
    /\ Null \notin Nat \cup Kinds

Year(day) == day \div DaysPerYear
Years == 0 .. Year(LastDay)

VARIABLES
    today,
    since,       \* Employee.categorySince
    balance,     \* LeaveBalance, Null for no row
    rollover,    \* the running anniversary job, Null for none
    filling,     \* the running initializeBalances, Null for none
    late         \* history: types of which a day was taken after the rollover had read
                 \* its year, or beyond the balance

rolloverVars == <<today, since, balance, rollover, filling, late>>

Balance == [allocated : Nat, carried : Nat, used : Nat]

ASSUME NullBalanceAssumption == Null \notin Balance

RolloverTypeOK ==
    /\ today \in 0 .. LastDay /\ since \in Nat
    /\ balance \in [Kinds -> [Years -> Balance \cup {Null}]]
    /\ rollover \in {Null} \cup
          [rest : SUBSET Kinds, at : {"FIND", "PREVIOUS", "CREATE"}, kind : Kinds \cup {Null},
           day : 0 .. LastDay, carry : Nat]
    /\ filling \in {Null} \cup
          [rest : SUBSET Kinds, at : {"FIND", "CREATE"}, kind : Kinds \cup {Null}, year : Years]
    /\ late \subseteq Kinds

RolloverInit ==
    /\ today = 0
    /\ since \in StartDays
    /\ balance = [k \in Kinds |-> [y \in Years |-> Null]]
    /\ rollover = Null
    /\ filling = Null
    /\ late = {}

Row(allocated, carried) == [allocated |-> allocated, carried |-> carried, used |-> 0]
Remaining(row) == row.allocated + row.carried - row.used
Put(k, y, row) == balance' = [balance EXCEPT ![k][y] = row]

-----------------------------------------------------------------------------
(* runAnniversaryRollover. *)

IsAnniversary(day) == since % DaysPerYear = day % DaysPerYear
EmploymentYears(day) == Year(day) - Year(since)

StartRollover ==
    /\ rollover = Null
    /\ IsAnniversary(today)
    /\ rollover' = [rest |-> Kinds, at |-> "FIND", kind |-> Null, day |-> today, carry |-> 0]
    /\ UNCHANGED <<today, since, balance, filling, late>>

\* A type that is carried once is left alone after the first anniversary.
CarriedAlready(k, day) == Policy[k].once /\ EmploymentYears(day) > 1

NextKind(k) == [rollover EXCEPT !.rest = @ \ {k}, !.at = "FIND", !.kind = Null, !.carry = 0]

\* The order in which the types come is the same for everybody.
First(kinds) == CHOOSE k \in kinds : TRUE

\* An existing row is never touched, and the next type is looked at.
FindRow ==
    LET k == First(rollover.rest)
    IN  /\ rollover # Null /\ rollover.at = "FIND" /\ rollover.rest # {}
        /\ rollover' = IF CarriedAlready(k, rollover.day) \/ balance[k][Year(rollover.day)] # Null
                       THEN NextKind(k)
                       ELSE [rollover EXCEPT !.at = "PREVIOUS", !.kind = k]
        /\ UNCHANGED <<today, since, balance, filling, late>>

\* Slip: an overdrawn year is carried as a debt.
LeftoverOrDebt(k, y) ==
    IF y \notin Years \/ balance[k][y] = Null THEN 0 ELSE Remaining(balance[k][y])

\* Slip: what was taken of the old year is carried too.
LeftoverAll(k, y) ==
    IF y \notin Years \/ balance[k][y] = Null THEN 0
    ELSE balance[k][y].allocated + balance[k][y].carried

Leftover(k, y) ==
    IF y \notin Years \/ balance[k][y] = Null THEN 0
    ELSE LET left == Remaining(balance[k][y]) IN IF left > 0 THEN left ELSE 0

ReadPrevious ==
    LET k == rollover.kind
        left == Leftover(k, Year(rollover.day) - 1)
    IN  /\ rollover # Null /\ rollover.at = "PREVIOUS"
        /\ rollover' = [rollover EXCEPT !.at = "CREATE",
              !.carry = IF ~Policy[k].forward THEN 0
                        ELSE IF Policy[k].max = Null THEN left ELSE Min({left, Policy[k].max})]
        /\ UNCHANGED <<today, since, balance, filling, late>>

\* A row that somebody created meanwhile makes the insert fail, and with it the
\* job, for all that is left of it.
CreateRow ==
    LET k == rollover.kind
        y == Year(rollover.day)
    IN  /\ rollover # Null /\ rollover.at = "CREATE"
        /\ IF balance[k][y] # Null
           THEN rollover' = Null /\ UNCHANGED balance
           ELSE /\ Put(k, y, Row(Policy[k].days, rollover.carry))
                /\ rollover' = NextKind(k)
        /\ UNCHANGED <<today, since, filling, late>>

EndRollover ==
    /\ rollover # Null /\ rollover.at = "FIND" /\ rollover.rest = {}
    /\ rollover' = Null
    /\ UNCHANGED <<today, since, balance, filling, late>>

-----------------------------------------------------------------------------
(* LeaveService: initializeBalances, ensureBalance. *)

FillJob(kinds, year) ==
    IF kinds = {} THEN Null
    ELSE [rest |-> kinds, at |-> "FIND", kind |-> Null, year |-> year]
FillRest(k) == FillJob(filling.rest \ {k}, filling.year)

FindMissing ==
    LET k == First(filling.rest)
    IN  /\ filling # Null /\ filling.at = "FIND"
        /\ filling' = IF balance[k][filling.year] # Null THEN FillRest(k)
                      ELSE [filling EXCEPT !.at = "CREATE", !.kind = k]
        /\ UNCHANGED <<today, since, balance, rollover, late>>

CreateMissing ==
    LET k == filling.kind
    IN  /\ filling # Null /\ filling.at = "CREATE"
        /\ IF balance[k][filling.year] # Null THEN filling' = Null /\ UNCHANGED balance
           ELSE /\ Put(k, filling.year, Row(Policy[k].days, 0))
                /\ filling' = FillRest(k)
        /\ UNCHANGED <<today, since, rollover, late>>

Fill(kinds) == filling' = FillJob(kinds, Year(today))

\* HR runs it for everybody.
InitializeBalances ==
    /\ filling = Null
    /\ Fill(Kinds)
    /\ UNCHANGED <<today, since, balance, rollover, late>>

\* A leave is asked for: its year gets a row, with nothing in it, that even a
\* refused request leaves behind.
AskForLeave(k, y) ==
    /\ y \in Year(today) .. Year(today) + Ahead
    /\ balance[k][y] = Null
    /\ Put(k, y, Row(0, 0))
    /\ UNCHANGED <<today, since, rollover, filling, late>>

\* The rollover has read, or is about to use, that row's leftover.
ReadAlready(k, y) ==
    \/ y + 1 \in Years /\ balance[k][y + 1] # Null /\ balance[k][y + 1].carried > 0
    \/ rollover # Null /\ rollover.at = "CREATE" /\ rollover.kind = k /\ Year(rollover.day) = y + 1

\* A day of this year, the last or one to come is granted.  Two requests may each
\* be within what remains and not together, and HR may pass overrideBalance.
TakeLeave(k, y) ==
    /\ balance[k][y] # Null /\ y \in Year(today) - 1 .. Year(today) + Ahead
    /\ Remaining(balance[k][y]) > -Overdraft
    /\ Put(k, y, [balance[k][y] EXCEPT !.used = @ + 1])
    /\ late' = IF ReadAlready(k, y) \/ Remaining(balance[k][y]) <= 0 THEN late \cup {k} ELSE late
    /\ UNCHANGED <<today, since, rollover, filling>>

CancelTaken(k, y) ==
    /\ balance[k][y] # Null /\ balance[k][y].used > 0
    /\ Put(k, y, [balance[k][y] EXCEPT !.used = @ - 1])
    /\ UNCHANGED <<today, since, rollover, filling, late>>

-----------------------------------------------------------------------------
(* EmployeesService.update, the calendar. *)

\* Another category, with the same policies and a clock that starts today.
ChangeCategory ==
    /\ filling = Null /\ rollover = Null /\ since # today
    /\ since' = today
    /\ Fill(Kinds)
    /\ UNCHANGED <<today, balance, rollover, late>>

\* The jobs take seconds.  On a day without a rollover the server was down.
NextDay ==
    /\ rollover = Null /\ filling = Null /\ today < LastDay
    /\ today' = today + 1
    /\ UNCHANGED <<since, balance, rollover, filling, late>>

ServerDiesRolling ==
    /\ rollover # Null \/ filling # Null
    /\ rollover' = Null /\ filling' = Null
    /\ UNCHANGED <<today, since, balance, late>>

RolloverNext ==
    \/ StartRollover \/ FindRow \/ ReadPrevious \/ CreateRow \/ EndRollover
    \/ FindMissing \/ CreateMissing \/ InitializeBalances
    \/ \E k \in Asked, y \in Years : AskForLeave(k, y) \/ TakeLeave(k, y) \/ CancelTaken(k, y)
    \/ ChangeCategory \/ NextDay \/ ServerDiesRolling

RolloverSpec == RolloverInit /\ [][RolloverNext]_rolloverVars

-----------------------------------------------------------------------------
(* Properties. *)

RowsOf(k) == {y \in Years : balance[k][y] # Null}
UsedOf(k) == [y \in RowsOf(k) |-> balance[k][y].used]
AllocatedOf(k) == [y \in RowsOf(k) |-> balance[k][y].allocated]

\* runAnniversaryRollover and initializeBalances: however often the jobs run,
\* fail and overlap, an employee never takes more days over the years than he
\* was allocated, but by an override, by requests that are within the balance each
\* and not together, or by a leave of a year that was carried already.
NoDayTwice ==
    \A k \in Kinds \ late : SumFunction(UsedOf(k)) <= SumFunction(AllocatedOf(k))
=============================================================================
