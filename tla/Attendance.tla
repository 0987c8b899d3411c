------------------------------- MODULE Attendance -------------------------------
(***************************************************************************)
(* AttendanceService: a timer pulls the whole log of the terminal, stores  *)
(* the punches it does not know yet and recomputes the days they fall on;  *)
(* HR adds punches the terminal missed, corrects and approves records.     *)
(* Each action is what a sync or a request does between two awaits, and    *)
(* the server may die at any of them.  Holidays are declared meanwhile.    *)
(***************************************************************************)
EXTENDS Integers, FiniteSetsExt, Common

CONSTANTS
    Staff,       \* employees linked to a device user
    Days, Times, \* the days, and the hours of a day at which one may punch
    ShiftStart, ShiftEnd, Grace, \* the shift
    Clerks,      \* HR's requests under way at a time
    Sync,        \* the sync, of which only one runs
    HandDays, HandTimes, \* the days and times HR enters by hand (input sets)
    HandModes,   \* the directions HR enters by hand (input set)
    HolidayDays  \* the days HR may declare holidays (input set)

ASSUME ShiftAssumption ==
    /\ Days \subseteq Nat /\ HandDays \subseteq Days /\ HandTimes \subseteq Times
    /\ ShiftStart \in Nat /\ ShiftEnd \in Nat /\ Grace \in Nat
    /\ HolidayDays \subseteq Days /\ HandModes \subseteq {"IN", "OUT"}
    /\ IsFiniteSet(Times) /\ Times \subseteq Nat
    /\ Null \notin Nat \cup Clerks \cup {Sync} /\ Sync \notin Clerks
    /\ \A times \in SUBSET Times : times # Null

VARIABLES
    terminal,  \* the punches in the terminal's own log
    stored,    \* AttendanceLog: what is stored of a punch, Null for nothing
    record,    \* AttendanceRecord, Null for a day without one
    holidays,  \* Holiday
    job,       \* the running sync and requests, Null for none
    torn       \* history: days whose processing was cut short or overlapped by
               \* another, or whose holiday changed after it began

attVars == <<terminal, stored, record, holidays, job, torn>>

Slots == Staff \X Days            \* an employee's day
Punches == Staff \X Days \X Times
SlotOf(p) == <<p[1], p[2]>>
Workers == Clerks \cup {Sync}

Log == [mode : {"IN", "OUT"}, manual : BOOLEAN]
Record ==
    [checkIn : Times, checkOut : Times \cup {Null},
     late : Nat, early : Nat, overtime : Nat, hours : Int \cup {Null},
     status : {"PRESENT", "LATE", "HALF_DAY", "HOLIDAY"},
     approved : BOOLEAN,
     hand : (SUBSET Times) \cup {Null}] \* history: of a record corrected by hand,
                                        \* the punches its day had then

Job ==
    [at : {"PULL", "LOAD", "INSERT", "READ", "WRITE"},
     again : BOOLEAN,                  \* the pull failed once
     pulled : [Punches -> {"IN", "OUT", Null}], \* what the terminal sent
     new : SUBSET Punches,             \* toCreate
     days : SUBSET Slots,              \* the days it has still to process
     slot : Slots \cup {Null},         \* the day processDay is at
     logs : [Times -> Log \cup {Null}]] \* the logs it read

ASSUME NullLogAssumption ==
    Null \notin {"IN", "OUT"} /\ Null \notin Log /\ Null \notin Record /\ Null \notin Job

AttTypeOK ==
    /\ terminal \subseteq Punches
    /\ stored \in [Punches -> Log \cup {Null}]
    /\ record \in [Slots -> Record \cup {Null}]
    /\ holidays \subseteq Days
    /\ job \in [Workers -> Job \cup {Null}]
    /\ torn \subseteq Slots

NoLogs == [t \in Times |-> Null]
NothingPulled == [p \in Punches |-> Null]
Idle == [at |-> "PULL", again |-> FALSE, pulled |-> NothingPulled, new |-> {},
         days |-> {}, slot |-> Null, logs |-> NoLogs]

AttInit ==
    /\ terminal = {}
    /\ stored = [p \in Punches |-> Null]
    /\ record = [s \in Slots |-> Null]
    /\ holidays = {}
    /\ job = [w \in Workers |-> Null]
    /\ torn = {}

JobAt(w, at) == job[w] # Null /\ job[w].at = at
DayLogs(s) == [t \in Times |-> stored[<<s[1], s[2], t>>]]
TimesOf(logs) == {t \in Times : logs[t] # Null}
TimesIn(logs, mode) == {t \in TimesOf(logs) : logs[t].mode = mode}

-----------------------------------------------------------------------------
(* getAttendanceLogs and the day's record, as functions. *)

Before(p, q) == p[1] = q[1] /\ (p[2] < q[2] \/ (p[2] = q[2] /\ p[3] < q[3]))

\* Slip: only the punches that are not stored yet alternate.
DirectionOfNew(p) ==
    IF Cardinality({q \in terminal : Before(q, p) /\ stored[q] = Null}) % 2 = 0
    THEN "IN" ELSE "OUT"

\* An employee's punches alternate IN and OUT over the whole log, starting with IN.
Direction(p) == IF Cardinality({q \in terminal : Before(q, p)}) % 2 = 0 THEN "IN" ELSE "OUT"

Max0(x) == IF x > 0 THEN x ELSE 0

CheckIn(logs) ==
    LET ins == TimesIn(logs, "IN") IN Min(IF ins # {} THEN ins ELSE TimesOf(logs))

CheckOut(logs) ==
    LET outs == TimesIn(logs, "OUT") IN IF outs # {} THEN Max(outs) ELSE Null

\* What the first IN and the last OUT of a day make of it: a new record.
Figures(checkIn, checkOut, holiday) ==
    LET late == IF checkIn > ShiftStart + Grace THEN checkIn - ShiftStart ELSE 0
        hours == IF checkOut = Null THEN Null ELSE checkOut - checkIn
    IN  [checkIn |-> checkIn, checkOut |-> checkOut, late |-> late,
         early |-> IF checkOut = Null THEN 0 ELSE Max0(ShiftEnd - checkOut),
         overtime |-> IF checkOut = Null THEN 0 ELSE Max0(checkOut - ShiftEnd),
         hours |-> hours,
         status |-> CASE holiday -> "HOLIDAY"
                      [] ~holiday /\ hours # Null /\ hours < 4 -> "HALF_DAY"
                      [] ~holiday /\ (hours = Null \/ hours >= 4) ->
                           IF late > 0 THEN "LATE" ELSE "PRESENT",
         approved |-> FALSE, hand |-> Null]

\* processDay, for a day with logs.
DayRecord(logs, holiday) == Figures(CheckIn(logs), CheckOut(logs), holiday)

-----------------------------------------------------------------------------
(* syncFromDevice. *)

\* isSyncing is that a sync is running.
StartSync ==
    /\ job[Sync] = Null
    /\ job' = [job EXCEPT ![Sync] = Idle]
    /\ UNCHANGED <<terminal, stored, record, holidays, torn>>

Pull ==
    /\ JobAt(Sync, "PULL")
    /\ job' = [job EXCEPT ![Sync] =
          IF terminal = {} THEN Null
          ELSE [@ EXCEPT !.at = "LOAD", !.again = FALSE,
                  !.pulled = [p \in Punches |-> IF p \in terminal THEN Direction(p) ELSE Null]]]
    /\ UNCHANGED <<terminal, stored, record, holidays, torn>>

\* Slip: isSyncing is not reset when the second pull fails too, as by a job that
\* has nothing to do and does not end.
PullFailsHeld ==
    /\ JobAt(Sync, "PULL")
    /\ job' = [job EXCEPT ![Sync] =
          IF @.again THEN [Idle EXCEPT !.at = "READ"] ELSE [@ EXCEPT !.again = TRUE]]
    /\ UNCHANGED <<terminal, stored, record, holidays, torn>>

PullFails ==
    /\ JobAt(Sync, "PULL")
    /\ job' = [job EXCEPT ![Sync] = IF @.again THEN Null ELSE [@ EXCEPT !.again = TRUE]]
    /\ UNCHANGED <<terminal, stored, record, holidays, torn>>

Received(w) == {p \in Punches : job[w].pulled[p] # Null}

\* Slip: the days of all punches are processed, not of the new ones.
LoadAllDays ==
    LET new == {p \in Received(Sync) : stored[p] = Null}
    IN  /\ JobAt(Sync, "LOAD")
        /\ job' = [job EXCEPT ![Sync] =
              [@ EXCEPT !.at = "INSERT", !.new = new,
                        !.days = {SlotOf(p) : p \in Received(Sync)}]]
        /\ UNCHANGED <<terminal, stored, record, holidays, torn>>

\* The existing logs: what is new, and the days it falls on.
Load ==
    LET new == {p \in Received(Sync) : stored[p] = Null}
    IN  /\ JobAt(Sync, "LOAD")
        /\ job' = [job EXCEPT ![Sync] =
              [@ EXCEPT !.at = "INSERT", !.new = new, !.days = {SlotOf(p) : p \in new}]]
        /\ UNCHANGED <<terminal, stored, record, holidays, torn>>

\* What a job does next, and when it has no day left.
Proceed(local) ==
    IF local.days = {} THEN Null
    ELSE [Idle EXCEPT !.at = "READ", !.days = local.days]

\* createMany with skipDuplicates: a punch stored meanwhile stays as it is.
InsertPunches ==
    /\ JobAt(Sync, "INSERT")
    /\ stored' = [p \in Punches |->
          IF p \in job[Sync].new /\ stored[p] = Null
          THEN [mode |-> job[Sync].pulled[p], manual |-> FALSE] ELSE stored[p]]
    /\ job' = [job EXCEPT ![Sync] = Proceed(@)]
    /\ UNCHANGED <<terminal, record, holidays, torn>>

-----------------------------------------------------------------------------
(* manualPunch, processDay, correct, approve. *)

ManualPunch(c, p, mode) ==
    /\ job[c] = Null
    /\ stored[p] = Null
    /\ stored' = [stored EXCEPT ![p] = [mode |-> mode, manual |-> TRUE]]
    /\ job' = [job EXCEPT ![c] = [Idle EXCEPT !.at = "READ", !.days = {SlotOf(p)}]]
    /\ UNCHANGED <<terminal, record, holidays, torn>>

\* A day another worker has read and not written yet is processed twice at once.
ReadDay(w, s) ==
    /\ JobAt(w, "READ") /\ s \in job[w].days
    /\ job' = [job EXCEPT ![w] =
          [@ EXCEPT !.at = "WRITE", !.slot = s, !.logs = DayLogs(s)]]
    /\ torn' = IF \E v \in Workers \ {w} : JobAt(v, "WRITE") /\ job[v].slot = s
               THEN torn \cup {s} ELSE torn
    /\ UNCHANGED <<terminal, stored, record, holidays>>

\* An existing record keeps whether it was approved.
Upsert(old, computed) ==
    IF old = Null THEN computed ELSE [computed EXCEPT !.approved = old.approved]

\* Slip: an existing record keeps its check-out.
WriteDayOnce(w) ==
    LET s == job[w].slot
        rest == [job[w] EXCEPT !.days = @ \ {s}]
        computed == Upsert(record[s], DayRecord(job[w].logs, s[2] \in holidays))
    IN  /\ JobAt(w, "WRITE")
        /\ record' = [record EXCEPT ![s] =
              IF @ = Null THEN computed ELSE [computed EXCEPT !.checkOut = record[s].checkOut]]
        /\ job' = [job EXCEPT ![w] = Proceed(rest)]
        /\ UNCHANGED <<terminal, stored, holidays, torn>>

WriteDay(w) ==
    LET s == job[w].slot
        rest == [job[w] EXCEPT !.days = @ \ {s}]
    IN  /\ JobAt(w, "WRITE")
        /\ record' = [record EXCEPT ![s] =
              Upsert(@, DayRecord(job[w].logs, s[2] \in holidays))]
        /\ job' = [job EXCEPT ![w] = Proceed(rest)]
        /\ UNCHANGED <<terminal, stored, holidays, torn>>

\* Some worker is still going to process that day.
InFlight(s) == \E w \in Workers : job[w] # Null /\ s \in job[w].days

\* correct() overwrites what is entered and computes nothing from it.
Correct(s, in, out) ==
    /\ record[s] # Null
    /\ record' = [record EXCEPT ![s] =
          [@ EXCEPT !.checkIn = in, !.checkOut = out,
                    !.hand = IF InFlight(s) THEN Null ELSE TimesOf(DayLogs(s))]]
    /\ UNCHANGED <<terminal, stored, holidays, job, torn>>

Approve(s, approved) ==
    /\ record[s] # Null
    /\ record' = [record EXCEPT ![s] = [@ EXCEPT !.approved = approved]]
    /\ UNCHANGED <<terminal, stored, holidays, job, torn>>

\* HolidaysService: create, remove, and update, which moves one to a free day.
SetHolidays(days) ==
    /\ days # holidays
    /\ Cardinality(days \ holidays) <= 1 /\ Cardinality(holidays \ days) <= 1
    /\ holidays' = days
    /\ torn' = torn \cup {s \in Slots : /\ (s[2] \in days) # (s[2] \in holidays)
                                        /\ (record[s] # Null \/ InFlight(s))}
    /\ UNCHANGED <<terminal, stored, record, job>>

-----------------------------------------------------------------------------
(* The world. *)

\* Somebody punches: after every punch of his the terminal has.
Punch(p) ==
    /\ \A q \in terminal : q[1] = p[1] => Before(q, p)
    /\ terminal' = terminal \cup {p}
    /\ UNCHANGED <<stored, record, holidays, job, torn>>

\* What was inserted and not processed stays unprocessed.
ServerDies ==
    /\ job' = [w \in Workers |-> Null]
    /\ torn' = torn \cup {s \in Slots : InFlight(s)}
    /\ UNCHANGED <<terminal, stored, record, holidays>>

SyncStep ==
    \/ Pull \/ PullFails \/ Load \/ InsertPunches
    \/ (\E s \in Slots : ReadDay(Sync, s)) \/ WriteDay(Sync)

ClerkStep(c) == (\E s \in Slots : ReadDay(c, s)) \/ WriteDay(c)

AttNext ==
    \/ StartSync \/ SyncStep
    \/ \E c \in Clerks :
          \/ \E e \in Staff, d \in HandDays, t \in HandTimes, mode \in HandModes :
                ManualPunch(c, <<e, d, t>>, mode)
          \/ ClerkStep(c)
    \/ \E s \in Staff \X HandDays :
                        \/ \E in, out \in HandTimes : Correct(s, in, out)
                        \/ \E approved \in BOOLEAN : Approve(s, approved)
    \/ \E days \in SUBSET HolidayDays : SetHolidays(days)
    \/ \E p \in Punches : Punch(p)
    \/ ServerDies

\* The timer ticks, and a running sync or request goes on.
AttFairness ==
    /\ WF_attVars(StartSync) /\ WF_attVars(SyncStep)
    /\ \A c \in Clerks : WF_attVars(ClerkStep(c))

AttSpec == AttInit /\ [][AttNext]_attVars /\ AttFairness

-----------------------------------------------------------------------------
(* Properties. *)

\* processDay: unless its processing was cut short, overlapped or corrected by
\* hand, a day's record says what all the logs of the day together say, from
\* whichever pulls and hands they came.
RecordTellsLogs ==
    \A s \in Slots \ torn :
        TimesOf(DayLogs(s)) # {} /\ ~InFlight(s) =>
            /\ record[s] # Null
            /\ record[s].hand = Null =>
                 record[s] = Upsert(record[s], DayRecord(DayLogs(s), s[2] \in holidays))

\* missingPunches().
MissingPunches == {s \in Slots : record[s] # Null /\ record[s].checkOut = Null}

FromTerminal(s) == {p \in terminal : SlotOf(p) = s}
EvenBefore(s) ==
    \A d \in Days : d < s[2] => Cardinality(FromTerminal(<<s[1], d>>)) % 2 = 0
Untouched(s) ==
    \A p \in Punches : p[1] = s[1] /\ stored[p] # Null => ~stored[p].manual

\* getAttendanceLogs and processDay: for an employee whose earlier days have all
\* their swipes, a day in and out is recorded from its first to its last punch,
\* and a day with a single one is listed among the missing punches.
InAndOutMatched ==
    \A s \in Slots \ torn :
        LET day == TimesOf(DayLogs(s))
        IN  day # {} /\ ~InFlight(s) /\ record[s].hand = Null /\ EvenBefore(s) /\ Untouched(s) =>
                /\ record[s].checkIn = Min(day)
                /\ Cardinality(day) % 2 = 0 => record[s].checkOut = Max(day)
                /\ Cardinality(day) = 1 => s \in MissingPunches

\* correct(): the pulls that follow bring the same punches again; a correction
\* stands until the day gets a punch it did not have.
CorrectionStands ==
    [][\A w \in Workers :
          LET s == job[w].slot
          IN  WriteDay(w) /\ record[s] # Null /\ record[s].hand # Null =>
                 TimesOf(DayLogs(s)) # record[s].hand]_attVars

\* syncFromDevice: once the terminal answers, the server stays up and people stop
\* punching, every punch in its log is stored and its day has a record, whoever
\* else works on that day.
PunchesArrive ==
    <>[][~(PullFails \/ ServerDies)]_attVars =>
        []<>\A p \in terminal :
               SlotOf(p) \notin torn => stored[p] # Null /\ record[SlotOf(p)] # Null
=============================================================================
