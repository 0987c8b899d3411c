--------------------------- MODULE AttendanceProofs ---------------------------
(***************************************************************************)
(* Attendance and the duty roster, for any staff, days and punches, and    *)
(* any duties, plans and planners; the two share no variable.              *)
(*                                                                         *)
(* A day's record tells the day's logs unless the day is torn: whoever is  *)
(* about to write it has what the logs say, or another is going to read    *)
(* them again. A correction stands because whoever processes its day has a *)
(* punch the correction did not know. Ins and outs match because what is   *)
(* stored of an employee whom HR added no punch is the terminal's log up   *)
(* to some punch, with the directions the terminal's whole log gives.      *)
(*                                                                         *)
(* An approved duty is HR's, and the employee is told what stands. Both    *)
(* hold because a request alone with its duty writes on what it read; the  *)
(* service locks nothing, and what two requests had in hand at once is in  *)
(* strained.                                                               *)
(***************************************************************************)
EXTENDS Attendance, Roster, SumProofs

-----------------------------------------------------------------------------
(* First and last punches. *)

\* A finite set of numbers has a least one, and Min is it.
Lower(T, n) == {x \in T : x <= n}

LEMMA LowerSets ==
    ASSUME NEW T, IsFiniteSet(T), T # {}
    PROVE  \E m \in T : \A n \in T : Lower(T, n) \subseteq Lower(T, m) => Lower(T, n) = Lower(T, m)
<1> DEFINE A == {Lower(T, n) : n \in T}
<1>1. A \subseteq SUBSET T
    BY DEF Lower
<1>2. A # {}
    OBVIOUS
<1>3. \A n \in T : Lower(T, n) \in A
    OBVIOUS
<1>4. \A U \in A : \E m \in T : U = Lower(T, m)
    OBVIOUS
<1> HIDE DEF A
<1>5. PICK U \in A : \A V \in A : ~(V \subseteq U /\ V # U)
    BY <1>1, <1>2, LeastSubset
<1> QED BY <1>3, <1>4, <1>5

LEMMA MinOf ==
    ASSUME NEW T, IsFiniteSet(T), T \subseteq Nat, T # {}
    PROVE  Min(T) \in T /\ \A x \in T : Min(T) <= x
<1>1. PICK m \in T : \A n \in T : Lower(T, n) \subseteq Lower(T, m) => Lower(T, n) = Lower(T, m)
    BY LowerSets
<1>2. ASSUME NEW n \in T, ~(m <= n) PROVE FALSE
  <2>1. n \in Nat /\ m \in Nat
      OBVIOUS
  <2>2. \A x \in T : x <= n => x <= m
      BY <1>2, <2>1
  <2>3. Lower(T, n) \subseteq Lower(T, m)
      BY <2>2 DEF Lower
  <2>4. m \in Lower(T, m) /\ m \notin Lower(T, n)
      BY <1>2, <2>1 DEF Lower
  <2> QED BY <1>1, <2>3, <2>4
<1> QED BY <1>2 DEF Min

\* A finite set of numbers has a greatest one, and Max is it.
Upper(T, n) == {x \in T : x >= n}

LEMMA UpperSets ==
    ASSUME NEW T, IsFiniteSet(T), T # {}
    PROVE  \E m \in T : \A n \in T : Upper(T, n) \subseteq Upper(T, m) => Upper(T, n) = Upper(T, m)
<1> DEFINE A == {Upper(T, n) : n \in T}
<1>1. A \subseteq SUBSET T
    BY DEF Upper
<1>2. A # {}
    OBVIOUS
<1>3. \A n \in T : Upper(T, n) \in A
    OBVIOUS
<1>4. \A U \in A : \E m \in T : U = Upper(T, m)
    OBVIOUS
<1> HIDE DEF A
<1>5. PICK U \in A : \A V \in A : ~(V \subseteq U /\ V # U)
    BY <1>1, <1>2, LeastSubset
<1> QED BY <1>3, <1>4, <1>5

LEMMA MaxOf ==
    ASSUME NEW T, IsFiniteSet(T), T \subseteq Nat, T # {}
    PROVE  Max(T) \in T /\ \A x \in T : Max(T) >= x
<1>1. PICK m \in T : \A n \in T : Upper(T, n) \subseteq Upper(T, m) => Upper(T, n) = Upper(T, m)
    BY UpperSets
<1>2. ASSUME NEW n \in T, ~(m >= n) PROVE FALSE
  <2>1. n \in Nat /\ m \in Nat
      OBVIOUS
  <2>2. \A x \in T : x >= n => x >= m
      BY <1>2, <2>1
  <2>3. Upper(T, n) \subseteq Upper(T, m)
      BY <2>2 DEF Upper
  <2>4. m \in Upper(T, m) /\ m \notin Upper(T, n)
      BY <1>2, <2>1 DEF Upper
  <2> QED BY <1>1, <2>3, <2>4
<1> QED BY <1>2 DEF Max

\* The times of a day's logs are finitely many.
LEMMA SomeTimes ==
    ASSUME NEW T \in SUBSET Times
    PROVE  /\ IsFiniteSet(T) /\ T \subseteq Nat
           /\ T # {} => /\ Min(T) \in T /\ \A x \in T : Min(T) <= x
                        /\ Max(T) \in T /\ \A x \in T : Max(T) >= x
<1>1. IsFiniteSet(T) /\ T \subseteq Nat
    BY ShiftAssumption, FS_Subset
<1> QED BY <1>1, MinOf, MaxOf

LEMMA FiguresRecord ==
    ASSUME NEW in \in Times, NEW out \in Times \cup {Null}, NEW holiday \in BOOLEAN
    PROVE  LET new == Figures(in, out, holiday)
           IN  new \in Record /\ new.checkIn = in /\ new.checkOut = out /\ new.hand = Null
<1> DEFINE late == IF in > ShiftStart + Grace THEN in - ShiftStart ELSE 0
           hours == IF out = Null THEN Null ELSE out - in
           early == IF out = Null THEN 0 ELSE Max0(ShiftEnd - out)
           over == IF out = Null THEN 0 ELSE Max0(out - ShiftEnd)
           status == CASE holiday -> "HOLIDAY"
                          [] ~holiday /\ hours # Null /\ hours < 4 -> "HALF_DAY"
                          [] ~holiday /\ (hours = Null \/ hours >= 4) ->
                               IF late > 0 THEN "LATE" ELSE "PRESENT"
<1>1. Figures(in, out, holiday) =
        [checkIn |-> in, checkOut |-> out, late |-> late, early |-> early, overtime |-> over,
         hours |-> hours, status |-> status, approved |-> FALSE, hand |-> Null]
    BY DEF Figures
<1>2. in \in Nat /\ (out # Null => out \in Nat) /\ ShiftStart \in Nat /\ ShiftEnd \in Nat /\ Grace \in Nat
    BY ShiftAssumption
<1>3. late \in Nat
    BY <1>2
<1>4. early \in Nat /\ over \in Nat
    BY <1>2 DEF Max0
<1>5. hours \in Int \cup {Null}
    BY <1>2
<1>6. status \in {"PRESENT", "LATE", "HALF_DAY", "HOLIDAY"}
  <2>1. holiday \/ (~holiday /\ hours # Null /\ hours < 4) \/ (~holiday /\ (hours = Null \/ hours >= 4))
      BY <1>5
  <2> HIDE DEF hours, late
  <2> QED BY <2>1
<1> HIDE DEF late, early, over, hours, status
<1> QED BY <1>1, <1>3, <1>4, <1>5, <1>6 DEF Record

\* processDay makes a record of any day with logs.
LEMMA DayRecordType ==
    ASSUME NEW logs \in [Times -> Log \cup {Null}], TimesOf(logs) # {}, NEW holiday \in BOOLEAN
    PROVE  /\ CheckIn(logs) \in Times /\ CheckOut(logs) \in Times \cup {Null}
           /\ LET new == DayRecord(logs, holiday)
              IN  /\ new \in Record /\ new.hand = Null
                  /\ new.checkIn = CheckIn(logs) /\ new.checkOut = CheckOut(logs)
<1>1. TimesOf(logs) \in SUBSET Times /\ (\A mode : TimesIn(logs, mode) \in SUBSET Times)
    BY DEF TimesOf, TimesIn
<1>2. CheckIn(logs) \in Times
  <2>1. CASE TimesIn(logs, "IN") # {}
      BY <1>1, <2>1, SomeTimes DEF CheckIn
  <2>2. CASE TimesIn(logs, "IN") = {}
      BY <1>1, <2>2, SomeTimes DEF CheckIn
  <2> QED BY <2>1, <2>2
<1>3. CheckOut(logs) \in Times \cup {Null}
  <2>1. CASE TimesIn(logs, "OUT") # {}
      BY <1>1, <2>1, SomeTimes DEF CheckOut
  <2>2. CASE TimesIn(logs, "OUT") = {}
      BY <2>2 DEF CheckOut
  <2> QED BY <2>1, <2>2
<1> QED BY <1>2, <1>3, FiguresRecord DEF DayRecord

-----------------------------------------------------------------------------
(* The record tells the logs, and a correction stands. *)

Day(s) == TimesOf(DayLogs(s))
Due(w, s) == job[w] # Null /\ s \in job[w].days
Writing(w, s) == JobAt(w, "WRITE") /\ job[w].slot = s
Corrected(s) == record[s] # Null /\ record[s].hand # Null

\* A day is processed because it has a punch.
JobFit(w, j) ==
    /\ w # Sync => j.at \in {"READ", "WRITE"}
    /\ j.at \in {"PULL", "LOAD"} => j.days = {}
    /\ j.at = "INSERT" => /\ j.days = {SlotOf(p) : p \in j.new}
                          /\ \A p \in j.new : j.pulled[p] # Null
    /\ j.at \in {"READ", "WRITE"} => \A s \in j.days : Day(s) # {}
    /\ j.at = "WRITE" => j.slot \in j.days /\ TimesOf(j.logs) # {}

JobsFit == \A w \in Workers : job[w] # Null => JobFit(w, job[w])

\* What a worker is about to write of a day is what the day's logs say, unless
\* another one is going to read them again.
Fresh ==
    \A w \in Workers, s \in Slots \ torn :
        Writing(w, s) =>
            \/ job[w].logs = DayLogs(s)
            \/ \E v \in Workers : Due(v, s) /\ ~Writing(v, s)

\* A day with a correction is processed for a punch the correction did not know.
HandsKnow ==
    \A s \in Slots : Corrected(s) =>
        /\ record[s].hand \subseteq Day(s)
        /\ \A w \in Workers : Due(w, s) =>
              IF job[w].at = "INSERT"
              THEN \E p \in job[w].new : SlotOf(p) = s /\ p[3] \notin record[s].hand
              ELSE Day(s) # record[s].hand

\* RecordTellsLogs of one day.
Told(s) ==
    Day(s) # {} /\ ~InFlight(s) =>
        /\ record[s] # Null
        /\ record[s].hand = Null =>
             record[s] = Upsert(record[s], DayRecord(DayLogs(s), s[2] \in holidays))

AttInv ==
    /\ AttTypeOK /\ JobsFit /\ Fresh /\ HandsKnow
    /\ \A s \in Slots \ torn : Told(s)

LEMMA AttParts ==
    ASSUME AttInv
    PROVE  /\ terminal \subseteq Punches /\ stored \in [Punches -> Log \cup {Null}]
           /\ record \in [Slots -> Record \cup {Null}] /\ holidays \subseteq Days
           /\ job \in [Workers -> Job \cup {Null}] /\ torn \subseteq Slots
BY DEF AttInv, AttTypeOK

\* A punch and its day.
LEMMA PunchDay ==
    /\ \A p \in Punches :
          /\ SlotOf(p) \in Slots /\ p[3] \in Times /\ p = <<p[1], p[2], p[3]>>
          /\ p[1] = SlotOf(p)[1] /\ p[2] = SlotOf(p)[2] /\ p[1] \in Staff /\ p[2] \in Days
    /\ \A s \in Slots, t \in Times :
          LET p == <<s[1], s[2], t>> IN p \in Punches /\ SlotOf(p) = s /\ p[3] = t
BY DEF Punches, Slots, SlotOf

LEMMA DayIs ==
    /\ \A s, t : t \in Day(s) <=> t \in Times /\ stored[<<s[1], s[2], t>>] # Null
    /\ \A p \in Punches : p[3] \in Day(SlotOf(p)) <=> stored[p] # Null
    /\ \A s : Day(s) \in SUBSET Times
<1>1. \A s, t : t \in Day(s) <=> t \in Times /\ stored[<<s[1], s[2], t>>] # Null
    BY DEF Day, TimesOf, DayLogs
<1>2. ASSUME NEW p \in Punches PROVE p[3] \in Day(SlotOf(p)) <=> stored[p] # Null
  <2>1. p = <<SlotOf(p)[1], SlotOf(p)[2], p[3]>> /\ p[3] \in Times
      BY PunchDay DEF SlotOf
  <2> QED BY <1>1, <2>1
<1> QED BY <1>1, <1>2

LEMMA LogsOf ==
    ASSUME AttInv, NEW s \in Slots
    PROVE  DayLogs(s) \in [Times -> Log \cup {Null}]
<1>1. \A t \in Times : stored[<<s[1], s[2], t>>] \in Log \cup {Null}
    BY AttParts, PunchDay
<1> QED BY <1>1 DEF DayLogs

\* A job of its kind is none of the absent ones.
LEMMA Jobs == Null \notin Job /\ Idle \in Job /\ Idle.at = "PULL" /\ Idle.days = {}
<1>1. NothingPulled \in [Punches -> {"IN", "OUT", Null}] /\ NoLogs \in [Times -> Log \cup {Null}]
    BY DEF NothingPulled, NoLogs
<1> QED BY <1>1, NullLogAssumption DEF Idle, Job

LEMMA AttInitInv == AttInit => AttInv
<1> SUFFICES ASSUME AttInit PROVE AttInv
    OBVIOUS
<1>1. AttTypeOK
    BY DEF AttInit, AttTypeOK
<1>2. \A w \in Workers : job[w] = Null
    BY DEF AttInit
<1>3. \A s \in Slots : record[s] = Null
    BY DEF AttInit
<1>4. \A s \in Slots : Day(s) = {}
  <2>1. \A p \in Punches : stored[p] = Null
      BY DEF AttInit
  <2> QED BY <2>1, DayIs, PunchDay
<1>5. JobsFit /\ Fresh
    BY <1>2 DEF JobsFit, Fresh, Writing, JobAt
<1>6. HandsKnow /\ \A s \in Slots \ torn : Told(s)
    BY <1>3, <1>4 DEF HandsKnow, Corrected, Told
<1> QED BY <1>1, <1>5, <1>6 DEF AttInv

\* A sync that holds no day yet, or none any more.
LEMMA QuietSync ==
    ASSUME AttInv, NEW j \in Job \cup {Null}, j # Null => j.at \in {"PULL", "LOAD"} /\ j.days = {},
           job[Sync] # Null => job[Sync].days = {}, job' = [job EXCEPT ![Sync] = j],
           UNCHANGED <<terminal, stored, record, holidays, torn>>
    PROVE  AttInv'
<1>1. Sync \in Workers
    BY DEF Workers
<1>2. AttTypeOK'
    BY <1>1 DEF AttInv, AttTypeOK
<1>3. job'[Sync] = j /\ \A w \in Workers \ {Sync} : job'[w] = job[w]
    BY <1>1, AttParts
<1>4. \A s : Day(s)' = Day(s) /\ DayLogs(s)' = DayLogs(s)
    BY DEF Day, TimesOf, DayLogs
<1>5. \A w \in Workers : \A s : Due(w, s)' <=> Due(w, s)
    BY <1>1, <1>3 DEF Due
<1>6. \A w \in Workers : \A s : Writing(w, s)' => w # Sync /\ Writing(w, s)
    BY <1>1, <1>3 DEF Writing, JobAt
<1>7. \A w \in Workers : \A s : Due(w, s) => w # Sync
    BY DEF Due
<1>8. JobsFit'
  <2> SUFFICES ASSUME NEW w \in Workers, job'[w] # Null PROVE JobFit(w, job[w])'
      BY DEF JobsFit
  <2>1. CASE w = Sync
      BY <1>3, <2>1 DEF JobFit
  <2>2. CASE w # Sync
    <3>1. JobFit(w, job[w])
        BY <1>3, <2>2 DEF AttInv, JobsFit
    <3> QED BY <1>3, <1>4, <2>2, <3>1 DEF JobFit
  <2> QED BY <2>1, <2>2
<1>9. Fresh'
  <2> SUFFICES ASSUME NEW w \in Workers, NEW s \in Slots \ torn, Writing(w, s)'
               PROVE  \/ job'[w].logs = DayLogs(s)
                      \/ \E v \in Workers : Due(v, s)' /\ ~Writing(v, s)'
      BY <1>4 DEF Fresh
  <2>1. w # Sync /\ Writing(w, s)
      BY <1>6
  <2>2. job[w].logs = DayLogs(s) \/ \E v \in Workers : Due(v, s) /\ ~Writing(v, s)
      BY <2>1 DEF AttInv, Fresh
  <2> QED BY <1>3, <1>5, <1>6, <2>1, <2>2
<1>10. HandsKnow'
    BY <1>3, <1>4, <1>5, <1>7 DEF AttInv, HandsKnow, Corrected
<1>11. \A s : InFlight(s)' <=> InFlight(s)
    BY <1>5 DEF InFlight, Due
<1>12. \A s \in Slots \ torn' : Told(s)'
    BY <1>4, <1>11 DEF AttInv, Told
<1> QED BY <1>2, <1>8, <1>9, <1>10, <1>12 DEF AttInv

LEMMA StartSyncInv == ASSUME AttInv, StartSync PROVE AttInv'
<1>1. Idle \in Job \cup {Null} /\ Idle.at \in {"PULL", "LOAD"} /\ Idle.days = {}
    BY Jobs
<1> QED BY <1>1, QuietSync DEF StartSync

LEMMA PullInv == ASSUME AttInv, Pull PROVE AttInv'
<1> DEFINE old == job[Sync]
           pulled == [p \in Punches |-> IF p \in terminal THEN Direction(p) ELSE Null]
           new == [old EXCEPT !.at = "LOAD", !.again = FALSE, !.pulled = pulled]
           j == IF terminal = {} THEN Null ELSE new
<1>1. Sync \in Workers /\ old # Null /\ old.at = "PULL" /\ old \in Job
    BY AttParts DEF Pull, JobAt, Workers
<1>2. old.days = {}
    BY <1>1 DEF AttInv, JobsFit, JobFit
<1>3. pulled \in [Punches -> {"IN", "OUT", Null}]
    BY DEF Direction
<1>4. job' = [job EXCEPT ![Sync] = j] /\ UNCHANGED <<terminal, stored, record, holidays, torn>>
    BY <1>1, AttParts DEF Pull
<1> HIDE DEF pulled
<1>5. new \in Job /\ new.at = "LOAD" /\ new.days = {}
    BY <1>1, <1>2, <1>3 DEF Job
<1> HIDE DEF new
<1>6. j \in Job \cup {Null} /\ (j # Null => j.at \in {"PULL", "LOAD"} /\ j.days = {})
    BY <1>5
<1> HIDE DEF j
<1> QED BY <1>2, <1>4, <1>6, QuietSync

LEMMA PullFailsInv == ASSUME AttInv, PullFails PROVE AttInv'
<1> DEFINE old == job[Sync]
           new == [old EXCEPT !.again = TRUE]
           j == IF old.again THEN Null ELSE new
<1>1. Sync \in Workers /\ old # Null /\ old.at = "PULL" /\ old \in Job
    BY AttParts DEF PullFails, JobAt, Workers
<1>2. old.days = {}
    BY <1>1 DEF AttInv, JobsFit, JobFit
<1>3. job' = [job EXCEPT ![Sync] = j] /\ UNCHANGED <<terminal, stored, record, holidays, torn>>
    BY <1>1, AttParts DEF PullFails
<1>4. new \in Job /\ new.at = "PULL" /\ new.days = {}
    BY <1>1, <1>2 DEF Job
<1> HIDE DEF new
<1>5. j \in Job \cup {Null} /\ (j # Null => j.at \in {"PULL", "LOAD"} /\ j.days = {})
    BY <1>4
<1> HIDE DEF j
<1> QED BY <1>2, <1>3, <1>5, QuietSync

\* The days of what is new: each has a punch no correction knew.
LEMMA LoadInv == ASSUME AttInv, Load PROVE AttInv'
<1> DEFINE old == job[Sync]
           fresh == {p \in Received(Sync) : stored[p] = Null}
           due == {SlotOf(p) : p \in fresh}
           j == [old EXCEPT !.at = "INSERT", !.new = fresh, !.days = due]
<1>1. Sync \in Workers /\ old # Null /\ old.at = "LOAD" /\ old \in Job
    BY AttParts DEF Load, JobAt, Workers
<1>2. old.days = {}
    BY <1>1 DEF AttInv, JobsFit, JobFit
<1>3. job' = [job EXCEPT ![Sync] = j] /\ UNCHANGED <<terminal, stored, record, holidays, torn>>
    BY <1>1, AttParts DEF Load
<1>4. fresh \subseteq Punches /\ \A p \in fresh : stored[p] = Null /\ old.pulled[p] # Null
    BY DEF Received
<1>5. due \subseteq Slots
    BY <1>4, PunchDay
<1> HIDE DEF fresh
<1>6. j \in Job /\ j.at = "INSERT" /\ j.new = fresh /\ j.days = due /\ j.pulled = old.pulled
  <2> HIDE DEF due
  <2> QED BY <1>1, <1>4, <1>5 DEF Job
<1>7. \A s \in due : \E p \in fresh : SlotOf(p) = s
    OBVIOUS
<1> HIDE DEF j
<1>8. AttTypeOK'
    BY <1>1, <1>3, <1>6 DEF AttInv, AttTypeOK
<1>9. j # Null /\ job'[Sync] = j /\ \A w \in Workers \ {Sync} : job'[w] = job[w]
    BY <1>1, <1>3, <1>6, AttParts, Jobs
<1>10. \A s : Day(s)' = Day(s) /\ DayLogs(s)' = DayLogs(s)
    BY <1>3 DEF Day, TimesOf, DayLogs
<1>11. JobsFit'
  <2> SUFFICES ASSUME NEW w \in Workers, job'[w] # Null PROVE JobFit(w, job[w])'
      BY DEF JobsFit
  <2>1. CASE w = Sync
      BY <1>4, <1>6, <1>9, <2>1 DEF JobFit
  <2>2. CASE w # Sync
    <3>1. JobFit(w, job[w])
        BY <1>9, <2>2 DEF AttInv, JobsFit
    <3> QED BY <1>9, <1>10, <2>2, <3>1 DEF JobFit
  <2> QED BY <2>1, <2>2
<1>12. \A w \in Workers : \A s : Due(w, s) => w # Sync /\ Due(w, s)'
    BY <1>2, <1>9 DEF Due
<1>13. \A w \in Workers : \A s : Writing(w, s)' => w # Sync /\ Writing(w, s)
    BY <1>6, <1>9 DEF Writing, JobAt
<1>14. Fresh'
  <2> SUFFICES ASSUME NEW w \in Workers, NEW s \in Slots \ torn, Writing(w, s)'
               PROVE  \/ job'[w].logs = DayLogs(s)
                      \/ \E v \in Workers : Due(v, s)' /\ ~Writing(v, s)'
      BY <1>3, <1>10 DEF Fresh
  <2>1. w # Sync /\ Writing(w, s)
      BY <1>13
  <2>2. job[w].logs = DayLogs(s) \/ \E v \in Workers : Due(v, s) /\ ~Writing(v, s)
      BY <2>1 DEF AttInv, Fresh
  <2> QED BY <1>9, <1>12, <1>13, <2>1, <2>2
<1>15. HandsKnow'
  <2> SUFFICES ASSUME NEW s \in Slots, Corrected(s)
               PROVE  /\ record[s].hand \subseteq Day(s)
                      /\ \A w \in Workers : Due(w, s)' =>
                            IF job'[w].at = "INSERT"
                            THEN \E p \in job'[w].new : SlotOf(p) = s /\ p[3] \notin record[s].hand
                            ELSE Day(s) # record[s].hand
      BY <1>3, <1>10 DEF HandsKnow, Corrected
  <2>1. record[s].hand \subseteq Day(s)
      BY DEF AttInv, HandsKnow
  <2>2. ASSUME NEW w \in Workers, w # Sync, Due(w, s)'
        PROVE  IF job'[w].at = "INSERT"
               THEN \E p \in job'[w].new : SlotOf(p) = s /\ p[3] \notin record[s].hand
               ELSE Day(s) # record[s].hand
    <3>1. job'[w] = job[w] /\ Due(w, s)
        BY <1>9, <2>2 DEF Due
    <3> QED BY <3>1 DEF AttInv, HandsKnow
  <2>3. ASSUME Due(Sync, s)'
        PROVE  \E p \in job'[Sync].new : SlotOf(p) = s /\ p[3] \notin record[s].hand
    <3>1. PICK p \in fresh : SlotOf(p) = s
        BY <1>6, <1>7, <1>9, <2>3 DEF Due
    <3>2. p[3] \notin Day(s)
        BY <1>4, <3>1, DayIs
    <3> QED BY <1>6, <1>9, <2>1, <3>1, <3>2
  <2> QED BY <1>6, <1>9, <2>1, <2>2, <2>3
<1>16. \A s : InFlight(s) => InFlight(s)'
    BY <1>12 DEF InFlight, Due
<1>17. \A s \in Slots \ torn' : Told(s)'
    BY <1>3, <1>10, <1>16 DEF AttInv, Told
<1> QED BY <1>8, <1>11, <1>14, <1>15, <1>17 DEF AttInv

\* A job that goes on with the days it has left.
Reading(days) == [Idle EXCEPT !.at = "READ", !.days = days]

LEMMA ReadingJob ==
    ASSUME NEW days \in SUBSET Slots
    PROVE  Reading(days) \in Job /\ Reading(days).at = "READ" /\ Reading(days).days = days
<1>1. NothingPulled \in [Punches -> {"IN", "OUT", Null}] /\ NoLogs \in [Times -> Log \cup {Null}]
    BY DEF NothingPulled, NoLogs
<1> QED BY <1>1 DEF Reading, Idle, Job

LEMMA ReadDayInv == ASSUME AttInv, NEW w \in Workers, NEW s \in Slots, ReadDay(w, s) PROVE AttInv'
<1> DEFINE old == job[w]
           j == [old EXCEPT !.at = "WRITE", !.slot = s, !.logs = DayLogs(s)]
<1>1. old # Null /\ old.at = "READ" /\ old \in Job /\ s \in old.days
    BY AttParts DEF ReadDay, JobAt
<1>2. /\ job' = [job EXCEPT ![w] = j] /\ UNCHANGED <<terminal, stored, record, holidays>>
      /\ torn' = IF \E v \in Workers \ {w} : Writing(v, s) THEN torn \cup {s} ELSE torn
    BY <1>1, AttParts DEF ReadDay, Writing
<1>3. j \in Job /\ j.at = "WRITE" /\ j.slot = s /\ j.logs = DayLogs(s) /\ j.days = old.days
  <2>1. DayLogs(s) \in [Times -> Log \cup {Null}]
      BY LogsOf
  <2> QED BY <1>1, <2>1 DEF Job
<1> HIDE DEF j
<1>4. j # Null /\ job'[w] = j /\ \A v \in Workers \ {w} : job'[v] = job[v]
    BY <1>2, <1>3, AttParts, Jobs
<1>5. AttTypeOK'
    BY <1>2, <1>3 DEF AttInv, AttTypeOK
<1>6. \A x : Day(x)' = Day(x) /\ DayLogs(x)' = DayLogs(x)
    BY <1>2 DEF Day, TimesOf, DayLogs
<1>7. \A v \in Workers : \A x : Due(v, x)' <=> Due(v, x)
    BY <1>1, <1>3, <1>4 DEF Due
<1>8. /\ \A v \in Workers : \A x : v # w => (Writing(v, x)' <=> Writing(v, x))
      /\ \A x : Writing(w, x)' <=> x = s
    BY <1>3, <1>4 DEF Writing, JobAt
<1>9. JobsFit'
  <2> SUFFICES ASSUME NEW v \in Workers, job'[v] # Null PROVE JobFit(v, job[v])'
      BY DEF JobsFit
  <2>1. CASE v = w
    <3>1. JobFit(w, old)
        BY <1>1 DEF AttInv, JobsFit
    <3>2. Day(s) # {} /\ Day(s) = TimesOf(DayLogs(s))
        BY <1>1, <3>1 DEF JobFit, Day
    <3> QED BY <1>1, <1>3, <1>4, <1>6, <2>1, <3>1, <3>2 DEF JobFit
  <2>2. CASE v # w
    <3>1. JobFit(v, job[v])
        BY <1>4, <2>2 DEF AttInv, JobsFit
    <3> QED BY <1>4, <1>6, <2>2, <3>1 DEF JobFit
  <2> QED BY <2>1, <2>2
<1>10. torn \subseteq torn'
    BY <1>2
<1>11. Fresh'
  <2> SUFFICES ASSUME NEW v \in Workers, NEW x \in Slots \ torn', Writing(v, x)'
               PROVE  \/ job'[v].logs = DayLogs(x)
                      \/ \E u \in Workers : Due(u, x)' /\ ~Writing(u, x)'
      BY <1>6 DEF Fresh
  <2>1. CASE v = w
      BY <1>3, <1>4, <1>8, <2>1
  <2>2. CASE v # w
    <3>1. Writing(v, x) /\ x # s
        BY <1>2, <1>8, <2>2
    <3>2. job[v].logs = DayLogs(x) \/ \E u \in Workers : Due(u, x) /\ ~Writing(u, x)
        BY <1>10, <3>1 DEF AttInv, Fresh
    <3> QED BY <1>4, <1>7, <1>8, <2>2, <3>1, <3>2
  <2> QED BY <2>1, <2>2
<1>12. HandsKnow'
  <2> SUFFICES ASSUME NEW x \in Slots, Corrected(x)
               PROVE  /\ record[x].hand \subseteq Day(x)
                      /\ \A v \in Workers : Due(v, x)' =>
                            IF job'[v].at = "INSERT"
                            THEN \E p \in job'[v].new : SlotOf(p) = x /\ p[3] \notin record[x].hand
                            ELSE Day(x) # record[x].hand
      BY <1>2, <1>6 DEF HandsKnow, Corrected
  <2>1. /\ record[x].hand \subseteq Day(x)
        /\ \A v \in Workers : Due(v, x) =>
              IF job[v].at = "INSERT"
              THEN \E p \in job[v].new : SlotOf(p) = x /\ p[3] \notin record[x].hand
              ELSE Day(x) # record[x].hand
      BY DEF AttInv, HandsKnow
  <2> QED BY <1>1, <1>3, <1>4, <1>7, <2>1
<1>13. \A x : InFlight(x)' <=> InFlight(x)
    BY <1>7 DEF InFlight, Due
<1>14. \A x \in Slots \ torn' : Told(x)'
    BY <1>2, <1>6, <1>10, <1>13 DEF AttInv, Told
<1> QED BY <1>5, <1>9, <1>11, <1>12, <1>14 DEF AttInv

\* Punches are stored by one who then processes the days they fall on.
LEMMA StoreStep ==
    ASSUME AttInv, NEW w \in Workers, NEW days \in SUBSET Slots,
           job[w] # Null => job[w].at = "INSERT" /\ job[w].days = days,
           job' = [job EXCEPT ![w] = IF days = {} THEN Null ELSE Reading(days)],
           stored' \in [Punches -> Log \cup {Null}],
           \A p \in Punches : stored[p] # Null \/ SlotOf(p) \notin days => stored'[p] = stored[p],
           \A s \in days : \E p \in Punches :
               /\ SlotOf(p) = s /\ stored'[p] # Null
               /\ Corrected(s) => p[3] \notin record[s].hand,
           UNCHANGED <<terminal, record, holidays, torn>>
    PROVE  AttInv'
<1> DEFINE j == IF days = {} THEN Null ELSE Reading(days)
<1>1. j \in Job \cup {Null} /\ (j # Null => j.at = "READ" /\ j.days = days) /\ (j = Null <=> days = {})
    BY ReadingJob, Jobs
<1>2. job' = [job EXCEPT ![w] = j]
    OBVIOUS
<1> HIDE DEF j
<1>3. job'[w] = j /\ \A v \in Workers \ {w} : job'[v] = job[v]
    BY <1>2, AttParts
<1>4. AttTypeOK'
    BY <1>1, <1>2 DEF AttInv, AttTypeOK
<1>5. \A x \in Slots : Day(x) \subseteq Day(x)'
  <2>1. \A x \in Slots, t \in Times :
           stored[<<x[1], x[2], t>>] # Null => stored'[<<x[1], x[2], t>>] # Null
      BY PunchDay
  <2> QED BY <2>1 DEF Day, TimesOf, DayLogs
<1>6. ASSUME NEW x \in Slots \ days PROVE Day(x)' = Day(x) /\ DayLogs(x)' = DayLogs(x)
  <2>1. \A t \in Times : stored'[<<x[1], x[2], t>>] = stored[<<x[1], x[2], t>>]
      BY PunchDay
  <2> QED BY <2>1 DEF Day, TimesOf, DayLogs
<1>7. \A x \in days : \E p \in Punches :
         SlotOf(p) = x /\ p[3] \in Day(x)' /\ (Corrected(x) => p[3] \notin record[x].hand)
  <2> SUFFICES ASSUME NEW x \in days
               PROVE  \E p \in Punches : /\ SlotOf(p) = x /\ p[3] \in Day(x)'
                                         /\ Corrected(x) => p[3] \notin record[x].hand
      OBVIOUS
  <2>1. PICK p \in Punches : /\ SlotOf(p) = x /\ stored'[p] # Null
                             /\ Corrected(x) => p[3] \notin record[x].hand
      OBVIOUS
  <2>2. p = <<x[1], x[2], p[3]>> /\ p[3] \in Times
      BY <2>1, PunchDay
  <2>3. p[3] \in Day(x)'
      BY <2>1, <2>2 DEF Day, TimesOf, DayLogs
  <2> QED BY <2>1, <2>3
<1>8. /\ \A v \in Workers : \A x : v # w => (Due(v, x)' <=> Due(v, x))
      /\ \A x : Due(w, x)' <=> x \in days
      /\ \A x : Due(w, x) => x \in days
    BY <1>1, <1>3 DEF Due
<1>9. \A v \in Workers : \A x : Writing(v, x)' <=> v # w /\ Writing(v, x)
    BY <1>1, <1>3 DEF Writing, JobAt
<1>10. \A x : ~Writing(w, x)
    BY DEF Writing, JobAt
<1>11. JobsFit'
  <2> SUFFICES ASSUME NEW v \in Workers, job'[v] # Null PROVE JobFit(v, job[v])'
      BY DEF JobsFit
  <2>1. CASE v = w
    <3>1. \A x \in days : Day(x)' # {}
        BY <1>7
    <3> QED BY <1>1, <1>3, <2>1, <3>1 DEF JobFit
  <2>2. CASE v # w
    <3>1. JobFit(v, job[v]) /\ job'[v] = job[v] /\ job[v] \in Job
        BY <1>3, <2>2, AttParts DEF AttInv, JobsFit
    <3>2. \A x \in job[v].days : x \in Slots
        BY <3>1 DEF Job
    <3> QED BY <1>5, <3>1, <3>2 DEF JobFit
  <2> QED BY <2>1, <2>2
<1>12. Fresh'
  <2> SUFFICES ASSUME NEW v \in Workers, NEW x \in Slots \ torn, Writing(v, x)'
               PROVE  \/ job'[v].logs = DayLogs(x)'
                      \/ \E u \in Workers : Due(u, x)' /\ ~Writing(u, x)'
      BY DEF Fresh
  <2>1. v # w /\ Writing(v, x)
      BY <1>9
  <2>2. CASE x \in days
      BY <1>8, <1>9, <2>2
  <2>3. CASE x \notin days
    <3>1. job[v].logs = DayLogs(x) \/ \E u \in Workers : Due(u, x) /\ ~Writing(u, x)
        BY <2>1 DEF AttInv, Fresh
    <3> QED BY <1>3, <1>6, <1>8, <1>9, <2>1, <2>3, <3>1
  <2> QED BY <2>2, <2>3
<1>13. HandsKnow'
  <2> SUFFICES ASSUME NEW x \in Slots, Corrected(x)
               PROVE  /\ record[x].hand \subseteq Day(x)'
                      /\ \A v \in Workers : Due(v, x)' =>
                            IF job'[v].at = "INSERT"
                            THEN \E p \in job'[v].new : SlotOf(p) = x /\ p[3] \notin record[x].hand
                            ELSE Day(x)' # record[x].hand
      BY DEF HandsKnow, Corrected
  <2>1. /\ record[x].hand \subseteq Day(x)
        /\ \A v \in Workers : Due(v, x) =>
              IF job[v].at = "INSERT"
              THEN \E p \in job[v].new : SlotOf(p) = x /\ p[3] \notin record[x].hand
              ELSE Day(x) # record[x].hand
      BY DEF AttInv, HandsKnow
  <2>2. record[x].hand \subseteq Day(x)'
      BY <1>5, <2>1
  <2>3. ASSUME Due(w, x)' PROVE job'[w].at # "INSERT" /\ Day(x)' # record[x].hand
    <3>1. x \in days
        BY <1>8, <2>3
    <3> QED BY <1>1, <1>3, <1>7, <3>1
  <2>4. ASSUME NEW v \in Workers, v # w, Due(v, x)'
        PROVE  IF job'[v].at = "INSERT"
               THEN \E p \in job'[v].new : SlotOf(p) = x /\ p[3] \notin record[x].hand
               ELSE Day(x)' # record[x].hand
    <3>1. Due(v, x) /\ job'[v] = job[v]
        BY <1>3, <1>8, <2>4
    <3>2. CASE job[v].at = "INSERT"
        BY <2>1, <3>1, <3>2
    <3>3. CASE job[v].at # "INSERT"
      <4>1. Day(x) \subseteq Day(x)' /\ record[x].hand \subseteq Day(x) /\ Day(x) # record[x].hand
          BY <1>5, <2>1, <3>1, <3>3
      <4>2. Day(x)' # record[x].hand
          BY <4>1
      <4> QED BY <3>1, <3>3, <4>2
    <3> QED BY <3>2, <3>3
  <2> QED BY <2>2, <2>3, <2>4
<1>14. \A x : /\ InFlight(x) => InFlight(x)'
              /\ x \in days => InFlight(x)'
    BY <1>8 DEF InFlight, Due
<1>15. ASSUME NEW x \in Slots \ torn PROVE Told(x)'
  <2>1. CASE x \in days
      BY <1>14, <2>1 DEF Told
  <2>2. CASE x \notin days
    <3>1. Told(x)
        BY DEF AttInv
    <3> QED BY <1>6, <1>14, <2>2, <3>1 DEF Told
  <2> QED BY <2>1, <2>2
<1> QED BY <1>4, <1>11, <1>12, <1>13, <1>15 DEF AttInv

LEMMA InsertPunchesInv == ASSUME AttInv, InsertPunches PROVE AttInv'
<1> DEFINE old == job[Sync]
           days == old.days
<1>1. Sync \in Workers /\ old # Null /\ old.at = "INSERT" /\ old \in Job
    BY AttParts DEF InsertPunches, JobAt, Workers
<1>2. days = {SlotOf(p) : p \in old.new} /\ (\A p \in old.new : old.pulled[p] # Null) /\ old.new \subseteq Punches
    BY <1>1 DEF AttInv, JobsFit, JobFit, Job
<1>3. job' = [job EXCEPT ![Sync] = IF days = {} THEN Null ELSE Reading(days)]
    BY <1>1, AttParts DEF InsertPunches, Proceed, Reading
<1>4. \A p \in Punches :
         stored'[p] = IF p \in old.new /\ stored[p] = Null
                      THEN [mode |-> old.pulled[p], manual |-> FALSE] ELSE stored[p]
    BY DEF InsertPunches
<1>5. \A p \in old.new : [mode |-> old.pulled[p], manual |-> FALSE] \in Log
  <2>1. \A p \in old.new : old.pulled[p] \in {"IN", "OUT"}
      BY <1>1, <1>2 DEF Job
  <2> QED BY <2>1 DEF Log
<1>6. stored' \in [Punches -> Log \cup {Null}]
  <2>1. \A p \in Punches : stored'[p] \in Log \cup {Null}
      BY <1>4, <1>5, AttParts
  <2>2. stored' = [p \in Punches |-> stored'[p]]
      BY DEF InsertPunches
  <2> QED BY <2>1, <2>2
<1>7. \A p \in Punches : stored[p] # Null \/ SlotOf(p) \notin days => stored'[p] = stored[p]
    BY <1>2, <1>4
<1>8. \A s \in days : \E p \in Punches :
         /\ SlotOf(p) = s /\ stored'[p] # Null
         /\ Corrected(s) => p[3] \notin record[s].hand
  <2>1. \A p \in old.new : stored'[p] # Null
      BY <1>2, <1>4, <1>5, NullLogAssumption
  <2>2. ASSUME NEW s \in days
        PROVE  \E p \in old.new : SlotOf(p) = s /\ (Corrected(s) => p[3] \notin record[s].hand)
    <3>1. CASE Corrected(s)
      <4>1. Due(Sync, s) /\ s \in Slots
          BY <1>1, <1>2, PunchDay DEF Due
      <4> QED BY <1>1, <3>1, <4>1 DEF AttInv, HandsKnow
    <3>2. CASE ~Corrected(s)
        BY <1>2, <3>2
    <3> QED BY <3>1, <3>2
  <2> QED BY <1>2, <2>1, <2>2
<1>9. days \in SUBSET Slots /\ UNCHANGED <<terminal, record, holidays, torn>>
    BY <1>1 DEF InsertPunches, Job
<1> HIDE DEF old, days
<1>10. job[Sync] # Null => job[Sync].at = "INSERT" /\ job[Sync].days = days
    BY <1>1 DEF old, days
<1> QED BY <1>1, <1>3, <1>6, <1>7, <1>8, <1>9, <1>10, StoreStep

LEMMA ManualPunchInv ==
    ASSUME AttInv, NEW c \in Clerks, NEW q \in Punches, NEW mode \in {"IN", "OUT"}, ManualPunch(c, q, mode)
    PROVE  AttInv'
<1> DEFINE log == [mode |-> mode, manual |-> TRUE]
           s == SlotOf(q)
           days == {s}
<1>1. c \in Workers /\ job[c] = Null /\ stored[q] = Null /\ stored' = [stored EXCEPT ![q] = log]
      /\ UNCHANGED <<terminal, record, holidays, torn>>
    BY DEF ManualPunch, Workers
<1>2. s \in Slots
    BY PunchDay
<1>3. days # {} /\ job' = [job EXCEPT ![c] = Reading(days)]
    BY DEF ManualPunch, Reading
<1>4. log \in Log
    BY DEF Log
<1> HIDE DEF log
<1>5. log # Null
    BY <1>4, NullLogAssumption
<1>6. stored' \in [Punches -> Log \cup {Null}]
    BY <1>1, <1>4, AttParts
<1>7. \A p \in Punches : stored[p] # Null \/ SlotOf(p) \notin days => stored'[p] = stored[p]
    BY <1>1, AttParts
<1>8. stored'[q] # Null
    BY <1>1, <1>5, AttParts
<1>9. Corrected(s) => q[3] \notin record[s].hand
  <2>1. q[3] \notin Day(s)
      BY <1>1, DayIs
  <2> QED BY <1>2, <2>1 DEF AttInv, HandsKnow
<1>10. \A x \in days : \E p \in Punches :
         /\ SlotOf(p) = x /\ stored'[p] # Null
         /\ Corrected(x) => p[3] \notin record[x].hand
    BY <1>8, <1>9
<1>11. days \in SUBSET Slots
    BY <1>2
<1>12. job' = [job EXCEPT ![c] = IF days = {} THEN Null ELSE Reading(days)]
    BY <1>3
<1>13. job[c] # Null => job[c].at = "INSERT" /\ job[c].days = days
    BY <1>1
<1> HIDE DEF days, s
<1> QED BY <1>1, <1>6, <1>7, <1>10, <1>11, <1>12, <1>13, StoreStep

\* What is not approved anew keeps its approval, so writing it twice is writing it once.
LEMMA UpsertType ==
    ASSUME NEW old \in Record \cup {Null}, NEW computed \in Record
    PROVE  LET new == Upsert(old, computed)
           IN  new \in Record /\ new.hand = computed.hand /\ new = Upsert(new, computed)
<1>1. CASE old = Null
    BY <1>1, NullLogAssumption DEF Upsert, Record
<1>2. CASE old # Null
  <2>1. old.approved \in BOOLEAN
      BY <1>2 DEF Record
  <2> QED BY <1>2, <2>1, NullLogAssumption DEF Upsert, Record
<1> QED BY <1>1, <1>2

LEMMA WriteDayInv == ASSUME AttInv, NEW w \in Workers, WriteDay(w) PROVE AttInv'
<1> DEFINE old == job[w]
<1>1. old # Null /\ old.at = "WRITE" /\ old \in Job
    BY AttParts DEF WriteDay, JobAt
<1>2. /\ old.slot \in old.days /\ old.slot \in Slots /\ TimesOf(old.logs) # {}
      /\ \A x \in old.days : Day(x) # {}
    BY <1>1 DEF AttInv, JobsFit, JobFit, Job
<1>3. PICK s \in Slots : s = old.slot
    BY <1>2
<1> DEFINE rest == old.days \ {s}
           j == IF rest = {} THEN Null ELSE Reading(rest)
           holiday == s[2] \in holidays
           computed == DayRecord(old.logs, holiday)
           new == Upsert(record[s], computed)
<1>4. s \in old.days /\ rest \in SUBSET Slots /\ old.logs \in [Times -> Log \cup {Null}]
    BY <1>1, <1>2, <1>3 DEF Job
<1>5. record' = [record EXCEPT ![s] = new] /\ UNCHANGED <<terminal, stored, holidays, torn>>
    BY <1>1, <1>3, AttParts DEF WriteDay
<1>6. job' = [job EXCEPT ![w] = j]
  <2>1. [old EXCEPT !.days = @ \ {s}].days = rest
      BY <1>1 DEF Job
  <2> QED BY <1>3, <2>1 DEF WriteDay, Proceed, Reading
<1>7. j \in Job \cup {Null} /\ (j # Null => j.at = "READ" /\ j.days = rest) /\ (j = Null <=> rest = {})
    BY <1>4, ReadingJob, Jobs
<1>8. computed \in Record /\ computed.hand = Null
  <2>1. holiday \in BOOLEAN
      OBVIOUS
  <2> HIDE DEF holiday
  <2> QED BY <1>2, <1>4, <2>1, DayRecordType
<1> HIDE DEF computed
<1>9. new \in Record /\ new.hand = Null /\ new = Upsert(new, computed)
    BY <1>4, <1>8, UpsertType, AttParts
<1>10. Writing(w, s)
    BY <1>1, <1>3 DEF Writing, JobAt
<1>11. s \notin torn => \/ old.logs = DayLogs(s)
                        \/ \E v \in Workers : Due(v, s) /\ ~Writing(v, s)
    BY <1>4, <1>10 DEF AttInv, Fresh
<1>12. job'[w] = j /\ (\A v \in Workers \ {w} : job'[v] = job[v])
       /\ record'[s] = new /\ \A x \in Slots \ {s} : record'[x] = record[x]
    BY <1>4, <1>5, <1>6, AttParts
<1> HIDE DEF j, new
<1>13. AttTypeOK'
    BY <1>5, <1>6, <1>7, <1>9 DEF AttInv, AttTypeOK
<1>14. \A x : Day(x)' = Day(x) /\ DayLogs(x)' = DayLogs(x)
    BY <1>5 DEF Day, TimesOf, DayLogs
<1>15. \A v \in Workers : \A x : Due(v, x)' <=> Due(v, x) /\ ~(v = w /\ x = s)
    BY <1>1, <1>7, <1>12 DEF Due
<1>16. \A v \in Workers : \A x : Writing(v, x)' <=> v # w /\ Writing(v, x)
    BY <1>7, <1>12 DEF Writing, JobAt
<1>17. JobsFit'
  <2> SUFFICES ASSUME NEW v \in Workers, job'[v] # Null PROVE JobFit(v, job[v])'
      BY DEF JobsFit
  <2>1. CASE v = w
    <3>1. w # Sync => old.at \in {"READ", "WRITE"}
        BY <1>1
    <3> QED BY <1>2, <1>7, <1>12, <1>14, <2>1 DEF JobFit
  <2>2. CASE v # w
    <3>1. JobFit(v, job[v])
        BY <1>12, <2>2 DEF AttInv, JobsFit
    <3> QED BY <1>12, <1>14, <2>2, <3>1 DEF JobFit
  <2> QED BY <2>1, <2>2
<1>18. Fresh'
  <2> SUFFICES ASSUME NEW v \in Workers, NEW x \in Slots \ torn, Writing(v, x)'
               PROVE  \/ job'[v].logs = DayLogs(x)
                      \/ \E u \in Workers : Due(u, x)' /\ ~Writing(u, x)'
      BY <1>5, <1>14 DEF Fresh
  <2>1. v # w /\ Writing(v, x)
      BY <1>16
  <2>2. job[v].logs = DayLogs(x) \/ \E u \in Workers : Due(u, x) /\ ~Writing(u, x)
      BY <2>1 DEF AttInv, Fresh
  <2> QED BY <1>10, <1>12, <1>15, <1>16, <2>1, <2>2
<1>19. HandsKnow'
  <2> SUFFICES ASSUME NEW x \in Slots, Corrected(x)'
               PROVE  /\ record'[x].hand \subseteq Day(x)
                      /\ \A v \in Workers : Due(v, x)' =>
                            IF job'[v].at = "INSERT"
                            THEN \E p \in job'[v].new : SlotOf(p) = x /\ p[3] \notin record'[x].hand
                            ELSE Day(x) # record'[x].hand
      BY <1>14 DEF HandsKnow
  <2>1. x # s /\ record'[x] = record[x] /\ Corrected(x)
      BY <1>9, <1>12 DEF Corrected
  <2>2. /\ record[x].hand \subseteq Day(x)
        /\ \A v \in Workers : Due(v, x) =>
              IF job[v].at = "INSERT"
              THEN \E p \in job[v].new : SlotOf(p) = x /\ p[3] \notin record[x].hand
              ELSE Day(x) # record[x].hand
      BY <2>1 DEF AttInv, HandsKnow
  <2>3. job'[w] # Null => job'[w].at # "INSERT"
      BY <1>7, <1>12
  <2> QED BY <1>1, <1>12, <1>15, <2>1, <2>2, <2>3 DEF Due
<1>20. ASSUME NEW x \in Slots \ torn PROVE Told(x)'
  <2>1. CASE x # s
    <3>1. record'[x] = record[x] /\ (InFlight(x) => InFlight(x)')
        BY <1>12, <1>15, <2>1 DEF InFlight, Due
    <3> QED BY <1>5, <1>14, <2>1, <3>1 DEF AttInv, Told
  <2>2. CASE x = s
    <3>1. CASE \E v \in Workers : Due(v, s) /\ ~Writing(v, s)
      <4>1. InFlight(s)'
          BY <1>10, <1>15, <3>1 DEF InFlight, Due
      <4> QED BY <2>2, <4>1 DEF Told
    <3>2. CASE old.logs = DayLogs(s)
      <4>1. computed = DayRecord(DayLogs(s), s[2] \in holidays)
          BY <3>2 DEF computed
      <4>2. record'[s] # Null
          BY <1>9, <1>12, NullLogAssumption
      <4> QED BY <1>5, <1>9, <1>12, <1>14, <2>2, <4>1, <4>2 DEF Told
    <3> QED BY <1>11, <2>2, <3>1, <3>2
  <2> QED BY <2>1, <2>2
<1> QED BY <1>5, <1>13, <1>17, <1>18, <1>19, <1>20 DEF AttInv

\* A record is entered: what its day's logs, jobs and the rest are stays.
LEMMA EnterStep ==
    ASSUME AttInv, NEW s \in Slots, record[s] # Null, NEW new \in Record,
           record' = [record EXCEPT ![s] = new], UNCHANGED <<terminal, stored, holidays, job, torn>>,
           new.hand # Null => /\ new.hand \subseteq Day(s)
                              /\ InFlight(s) => Corrected(s) /\ new.hand = record[s].hand,
           ~InFlight(s) /\ new.hand = Null =>
              \A computed \in Record : record[s].hand = Null /\ record[s] = Upsert(record[s], computed)
                 => new = Upsert(new, computed),
           ~InFlight(s) /\ new.hand = Null => record[s].hand = Null
    PROVE  AttInv'
<1>1. record'[s] = new /\ \A x \in Slots \ {s} : record'[x] = record[x]
    BY AttParts
<1>2. AttTypeOK'
    BY DEF AttInv, AttTypeOK
<1>3. \A x : Day(x)' = Day(x) /\ DayLogs(x)' = DayLogs(x)
    BY DEF Day, TimesOf, DayLogs
<1>4. (\A w, x : (Due(w, x)' <=> Due(w, x)) /\ (Writing(w, x)' <=> Writing(w, x)))
      /\ \A x : InFlight(x)' <=> InFlight(x)
    BY DEF Due, Writing, JobAt, InFlight
<1>5. JobsFit'
    BY <1>3 DEF AttInv, JobsFit, JobFit
<1>6. Fresh'
    BY <1>3, <1>4 DEF AttInv, Fresh
<1>7. HandsKnow'
  <2> SUFFICES ASSUME NEW x \in Slots, Corrected(x)'
               PROVE  /\ record'[x].hand \subseteq Day(x)
                      /\ \A v \in Workers : Due(v, x) =>
                            IF job[v].at = "INSERT"
                            THEN \E p \in job[v].new : SlotOf(p) = x /\ p[3] \notin record'[x].hand
                            ELSE Day(x) # record'[x].hand
      BY <1>3, <1>4 DEF HandsKnow
  <2>1. CASE x # s
      BY <1>1, <2>1 DEF AttInv, HandsKnow, Corrected
  <2>2. CASE x = s
    <3>1. new.hand # Null /\ new.hand \subseteq Day(s)
        BY <1>1, <2>2 DEF Corrected
    <3>2. ASSUME NEW v \in Workers, Due(v, s)
          PROVE  IF job[v].at = "INSERT"
                 THEN \E p \in job[v].new : SlotOf(p) = s /\ p[3] \notin new.hand
                 ELSE Day(s) # new.hand
      <4>1. Corrected(s) /\ new.hand = record[s].hand
          BY <3>1, <3>2 DEF InFlight, Due
      <4> QED BY <3>2, <4>1 DEF AttInv, HandsKnow
    <3> QED BY <1>1, <2>2, <3>1, <3>2
  <2> QED BY <2>1, <2>2
<1>8. ASSUME NEW x \in Slots \ torn PROVE Told(x)'
  <2>1. Told(x)
      BY DEF AttInv
  <2>2. CASE x # s
      BY <1>1, <1>3, <1>4, <2>1, <2>2 DEF Told
  <2>3. CASE x = s
    <3> SUFFICES ASSUME Day(s) # {}, ~InFlight(s)
                 PROVE  /\ new # Null
                        /\ new.hand = Null => new = Upsert(new, DayRecord(DayLogs(s), s[2] \in holidays))
        BY <1>1, <1>3, <1>4, <2>3 DEF Told
    <3> DEFINE holiday == s[2] \in holidays
               computed == DayRecord(DayLogs(s), holiday)
    <3>1. computed \in Record
      <4>1. holiday \in BOOLEAN /\ TimesOf(DayLogs(s)) # {} /\ DayLogs(s) \in [Times -> Log \cup {Null}]
          BY LogsOf DEF Day
      <4> HIDE DEF holiday
      <4> QED BY <4>1, DayRecordType
    <3>2. new.hand = Null => record[s].hand = Null /\ record[s] = Upsert(record[s], computed)
        BY <2>1, <2>3 DEF Told
    <3>3. new.hand = Null => new = Upsert(new, computed)
      <4> HIDE DEF computed
      <4> QED BY <3>1, <3>2
    <3> QED BY <3>3, NullLogAssumption
  <2> QED BY <2>2, <2>3
<1> QED BY <1>2, <1>5, <1>6, <1>7, <1>8 DEF AttInv

LEMMA CorrectInv ==
    ASSUME AttInv, NEW s \in Slots, NEW in \in Times, NEW out \in Times, Correct(s, in, out)
    PROVE  AttInv'
<1> DEFINE old == record[s]
           hand == IF InFlight(s) THEN Null ELSE Day(s)
           new == [old EXCEPT !.checkIn = in, !.checkOut = out, !.hand = hand]
<1>1. old # Null /\ old \in Record /\ UNCHANGED <<terminal, stored, holidays, job, torn>>
    BY AttParts DEF Correct
<1>2. record' = [record EXCEPT ![s] = new]
    BY <1>1, AttParts DEF Correct, Day
<1>3. hand \in (SUBSET Times) \cup {Null} /\ (hand = Null <=> InFlight(s)) /\ (hand # Null => hand = Day(s))
    BY DayIs, ShiftAssumption
<1> HIDE DEF hand
<1>4. new \in Record /\ new.hand = hand
    BY <1>1, <1>3 DEF Record
<1> HIDE DEF new
<1> QED BY <1>1, <1>2, <1>3, <1>4, EnterStep

LEMMA ApproveInv ==
    ASSUME AttInv, NEW s \in Slots, NEW approved \in BOOLEAN, Approve(s, approved)
    PROVE  AttInv'
<1> DEFINE old == record[s]
           new == [old EXCEPT !.approved = approved]
<1>1. old # Null /\ old \in Record /\ UNCHANGED <<terminal, stored, holidays, job, torn>>
    BY AttParts DEF Approve
<1>2. record' = [record EXCEPT ![s] = new]
    BY <1>1, AttParts DEF Approve
<1>3. new \in Record /\ new.hand = old.hand
    BY <1>1 DEF Record
<1>4. \A computed \in Record : old = Upsert(old, computed) => new = Upsert(new, computed)
    BY <1>1, <1>3, NullLogAssumption DEF Upsert, Record
<1>5. old.hand # Null => old.hand \subseteq Day(s) /\ Corrected(s)
    BY <1>1 DEF AttInv, HandsKnow, Corrected
<1> HIDE DEF new
<1> QED BY <1>1, <1>2, <1>3, <1>4, <1>5, EnterStep

LEMMA SetHolidaysInv ==
    ASSUME AttInv, NEW days \in SUBSET HolidayDays, SetHolidays(days) PROVE AttInv'
<1>1. /\ holidays' = days /\ UNCHANGED <<terminal, stored, record, job>>
      /\ torn' = torn \cup {s \in Slots : /\ (s[2] \in days) # (s[2] \in holidays)
                                          /\ (record[s] # Null \/ InFlight(s))}
    BY DEF SetHolidays
<1>2. AttTypeOK'
    BY <1>1, ShiftAssumption DEF AttInv, AttTypeOK
<1>3. \A x : Day(x)' = Day(x) /\ DayLogs(x)' = DayLogs(x)
    BY <1>1 DEF Day, TimesOf, DayLogs
<1>4. (\A w, x : (Due(w, x)' <=> Due(w, x)) /\ (Writing(w, x)' <=> Writing(w, x)))
      /\ \A x : InFlight(x)' <=> InFlight(x)
    BY <1>1 DEF Due, Writing, JobAt, InFlight
<1>5. JobsFit'
    BY <1>1, <1>3 DEF AttInv, JobsFit, JobFit
<1>6. Fresh'
    BY <1>1, <1>3, <1>4 DEF AttInv, Fresh
<1>7. HandsKnow'
    BY <1>1, <1>3, <1>4 DEF AttInv, HandsKnow, Corrected
<1>8. ASSUME NEW s \in Slots \ torn' PROVE Told(s)'
  <2>1. Told(s)
      BY <1>1 DEF AttInv
  <2>2. CASE record[s] # Null \/ InFlight(s)
    <3>1. (s[2] \in holidays') = (s[2] \in holidays)
        BY <1>1, <2>2
    <3> QED BY <1>1, <1>3, <1>4, <2>1, <3>1 DEF Told
  <2>3. CASE record[s] = Null /\ ~InFlight(s)
      BY <1>3, <2>1, <2>3 DEF Told
  <2> QED BY <2>2, <2>3
<1> QED BY <1>2, <1>5, <1>6, <1>7, <1>8 DEF AttInv

LEMMA ServerDiesInv == ASSUME AttInv, ServerDies PROVE AttInv'
<1>1. /\ UNCHANGED <<terminal, stored, record, holidays>> /\ \A w \in Workers : job'[w] = Null
      /\ torn' = torn \cup {s \in Slots : InFlight(s)}
    BY DEF ServerDies
<1>2. AttTypeOK'
    BY DEF AttInv, AttTypeOK, ServerDies
<1>3. \A x : Day(x)' = Day(x) /\ DayLogs(x)' = DayLogs(x)
    BY <1>1 DEF Day, TimesOf, DayLogs
<1>4. \A w \in Workers : \A x : ~Due(w, x)' /\ ~Writing(w, x)'
    BY <1>1 DEF Due, Writing, JobAt
<1>5. JobsFit' /\ Fresh'
    BY <1>1, <1>4 DEF JobsFit, Fresh
<1>6. HandsKnow'
    BY <1>1, <1>3, <1>4 DEF AttInv, HandsKnow, Corrected
<1>7. ASSUME NEW s \in Slots \ torn' PROVE Told(s)'
  <2>1. Told(s) /\ ~InFlight(s)
      BY <1>1 DEF AttInv
  <2> QED BY <1>1, <1>3, <2>1 DEF Told
<1> QED BY <1>2, <1>5, <1>6, <1>7 DEF AttInv

\* Somebody punches, or nothing happens here: only the terminal's log changes.
LEMMA PunchInv ==
    ASSUME AttInv, terminal' \subseteq Punches, UNCHANGED <<stored, record, holidays, job, torn>>
    PROVE  AttInv'
<1>1. AttTypeOK'
    BY DEF AttInv, AttTypeOK
<1>2. \A x : Day(x)' = Day(x) /\ DayLogs(x)' = DayLogs(x)
    BY DEF Day, TimesOf, DayLogs
<1>3. (\A w, x : (Due(w, x)' <=> Due(w, x)) /\ (Writing(w, x)' <=> Writing(w, x)))
      /\ \A x : InFlight(x)' <=> InFlight(x)
    BY DEF Due, Writing, JobAt, InFlight
<1>4. JobsFit' /\ Fresh' /\ HandsKnow'
    BY <1>2, <1>3 DEF AttInv, JobsFit, JobFit, Fresh, HandsKnow, Corrected
<1>5. \A s \in Slots \ torn' : Told(s)'
    BY <1>2, <1>3 DEF AttInv, Told
<1> QED BY <1>1, <1>4, <1>5 DEF AttInv

LEMMA AttStepInv == AttInv /\ [AttNext]_attVars => AttInv'
<1> SUFFICES ASSUME AttInv, [AttNext]_attVars PROVE AttInv'
    OBVIOUS
<1>1. Sync \in Workers /\ Clerks \subseteq Workers
    BY DEF Workers
<1>2. CASE StartSync \/ Pull \/ PullFails \/ Load \/ InsertPunches \/ ServerDies
    BY <1>2, StartSyncInv, PullInv, PullFailsInv, LoadInv, InsertPunchesInv, ServerDiesInv
<1>3. ASSUME NEW w \in Workers, (\E s \in Slots : ReadDay(w, s)) \/ WriteDay(w) PROVE AttInv'
    BY <1>3, ReadDayInv, WriteDayInv
<1>4. ASSUME NEW c \in Clerks, NEW e \in Staff, NEW d \in HandDays, NEW t \in HandTimes,
             NEW mode \in HandModes, ManualPunch(c, <<e, d, t>>, mode)
      PROVE  AttInv'
  <2>1. <<e, d, t>> \in Punches /\ mode \in {"IN", "OUT"}
      BY ShiftAssumption DEF Punches
  <2> QED BY <1>4, <2>1, ManualPunchInv
<1>5. ASSUME NEW s \in Staff \X HandDays,
             (\E in, out \in HandTimes : Correct(s, in, out)) \/ (\E approved \in BOOLEAN : Approve(s, approved))
      PROVE  AttInv'
  <2>1. s \in Slots /\ HandTimes \subseteq Times
      BY ShiftAssumption DEF Slots
  <2> QED BY <1>5, <2>1, CorrectInv, ApproveInv
<1>6. CASE \E days \in SUBSET HolidayDays : SetHolidays(days)
    BY <1>6, SetHolidaysInv
<1>7. ASSUME NEW p \in Punches, Punch(p) PROVE AttInv'
    BY <1>7, PunchInv, AttParts DEF Punch
<1>8. CASE UNCHANGED attVars
    BY <1>8, PunchInv, AttParts DEF attVars
<1> QED BY <1>1, <1>2, <1>3, <1>4, <1>5, <1>6, <1>7, <1>8 DEF AttNext, SyncStep, ClerkStep

LEMMA AttInvariant == AttSpec => []AttInv
<1> QED BY AttInitInv, AttStepInv, PTL DEF AttSpec

\* syncFromDevice, manualPunch, processDay, correct and approve, and the process that
\* dies at any await, leave punches, logs, records and jobs of their types.
THEOREM AttendanceTypeCorrect == AttSpec => []AttTypeOK
<1>1. AttInv => AttTypeOK
    BY DEF AttInv
<1> QED BY <1>1, AttInvariant, PTL

\* processDay: a day nobody is at work on shows what its logs and its holiday make of
\* it, or HR's correction, unless a crash or an overlap tore its processing.
THEOREM RecordsTellTheirLogs == AttSpec => []RecordTellsLogs
<1>1. AttInv => RecordTellsLogs
    BY DEF AttInv, Told, Day, RecordTellsLogs
<1> QED BY <1>1, AttInvariant, PTL

LEMMA CorrectionStep ==
    ASSUME AttInv, NEW w \in Workers, WriteDay(w), record[job[w].slot] # Null,
           record[job[w].slot].hand # Null
    PROVE  TimesOf(DayLogs(job[w].slot)) # record[job[w].slot].hand
<1> DEFINE s == job[w].slot
<1>1. job[w] # Null /\ job[w].at = "WRITE" /\ job[w] \in Job
    BY AttParts DEF WriteDay, JobAt
<1>2. s \in job[w].days /\ s \in Slots
    BY <1>1 DEF AttInv, JobsFit, JobFit, Job
<1>3. Corrected(s) /\ Due(w, s)
    BY <1>1, <1>2 DEF Corrected, Due
<1> QED BY <1>1, <1>2, <1>3 DEF AttInv, HandsKnow, Day

\* processDay: it writes over a correction only with a punch the correction did not
\* know, however pulls, manual punches and other processings come between.
THEOREM CorrectionsStand == AttSpec => CorrectionStands
<1> DEFINE Act == \A w \in Workers :
                     LET s == job[w].slot
                     IN  WriteDay(w) /\ record[s] # Null /\ record[s].hand # Null =>
                            TimesOf(DayLogs(s)) # record[s].hand
<1>1. AttInv => Act
    BY CorrectionStep
<1> QED BY <1>1, AttInvariant, PTL DEF CorrectionStands

-----------------------------------------------------------------------------
(* In and out. *)

\* What is pulled, and of an employee without punches by hand what is stored, is
\* the terminal's log up to some punch, with its directions.
Follows(pulled) ==
    \A p \in Punches : pulled[p] # Null =>
        /\ p \in terminal /\ pulled[p] = Direction(p)
        /\ \A q \in terminal : Before(q, p) => pulled[q] # Null

PullsFollow ==
    job[Sync] # Null /\ job[Sync].at \in {"LOAD", "INSERT"} =>
        /\ Follows(job[Sync].pulled)
        /\ job[Sync].at = "INSERT" =>
              \A p \in Punches : job[Sync].pulled[p] # Null /\ stored[p] = Null => p \in job[Sync].new

AllSwiped(e) == \A q \in Punches : q[1] = e /\ stored[q] # Null => ~stored[q].manual

LogsFollow ==
    \A p \in Punches : stored[p] # Null /\ AllSwiped(p[1]) =>
        /\ p \in terminal /\ stored[p].mode = Direction(p)
        /\ \A q \in terminal : Before(q, p) => stored[q] # Null

SwipeInv == AttInv /\ IsFiniteSet(terminal) /\ PullsFollow /\ LogsFollow

LEMMA SwipeInitInv == AttInit => SwipeInv
<1> SUFFICES ASSUME AttInit PROVE SwipeInv
    OBVIOUS
<1>1. terminal = {} /\ (\A p \in Punches : stored[p] = Null) /\ job[Sync] = Null
    BY DEF AttInit, Workers
<1> QED BY <1>1, AttInitInv, FS_EmptySet DEF SwipeInv, PullsFollow, LogsFollow

\* Steps that leave both logs alone and pull nothing.
LEMMA StillSwiped ==
    ASSUME SwipeInv, AttInv', UNCHANGED <<terminal, stored>>,
           job'[Sync] = job[Sync] \/ job'[Sync] = Null \/ job'[Sync].at \notin {"LOAD", "INSERT"}
    PROVE  SwipeInv'
<1>1. LogsFollow'
    BY DEF SwipeInv, LogsFollow, AllSwiped, Direction
<1>2. PullsFollow'
    BY DEF SwipeInv, PullsFollow, Follows, Direction
<1> QED BY <1>1, <1>2 DEF SwipeInv

LEMMA PullSwipes == ASSUME SwipeInv, AttInv', Pull PROVE SwipeInv'
<1> DEFINE pulled == [p \in Punches |-> IF p \in terminal THEN Direction(p) ELSE Null]
           new == [job[Sync] EXCEPT !.at = "LOAD", !.again = FALSE, !.pulled = pulled]
<1>1. Sync \in Workers /\ job[Sync] \in Job /\ terminal \subseteq Punches
    BY AttParts DEF Pull, JobAt, Workers, SwipeInv
<1>2. job'[Sync] = (IF terminal = {} THEN Null ELSE new) /\ UNCHANGED <<terminal, stored>>
    BY <1>1, AttParts DEF Pull, SwipeInv
<1>3. new.at = "LOAD" /\ new.pulled = pulled
    BY <1>1 DEF Job
<1>4. \A p \in Punches : pulled[p] = IF p \in terminal THEN Direction(p) ELSE Null
    OBVIOUS
<1>5. \A p : Direction(p)' = Direction(p) /\ Direction(p) # Null
    BY <1>2, NullLogAssumption DEF Direction
<1> HIDE DEF new, pulled
<1>6. CASE terminal = {}
    BY <1>2, <1>6, StillSwiped
<1>7. CASE terminal # {}
  <2>1. job'[Sync].at = "LOAD" /\ job'[Sync].pulled = pulled
      BY <1>2, <1>3, <1>7
  <2>2. PullsFollow'
      BY <1>1, <1>2, <1>4, <1>5, <2>1 DEF PullsFollow, Follows
  <2>3. LogsFollow'
      BY <1>2 DEF SwipeInv, LogsFollow, AllSwiped, Direction
  <2> QED BY <1>2, <2>2, <2>3 DEF SwipeInv
<1> QED BY <1>6, <1>7

LEMMA LoadSwipes == ASSUME SwipeInv, AttInv', Load PROVE SwipeInv'
<1> DEFINE old == job[Sync]
           fresh == {p \in Received(Sync) : stored[p] = Null}
           new == [old EXCEPT !.at = "INSERT", !.new = fresh, !.days = {SlotOf(p) : p \in fresh}]
<1>1. Sync \in Workers /\ old \in Job /\ old # Null /\ old.at = "LOAD"
    BY AttParts DEF Load, JobAt, Workers, SwipeInv
<1>2. job'[Sync] = new /\ UNCHANGED <<terminal, stored>>
    BY <1>1, AttParts DEF Load, SwipeInv
<1>3. new.at = "INSERT" /\ new.pulled = old.pulled /\ new.new = fresh
    BY <1>1 DEF Job
<1>4. \A p \in Punches : old.pulled[p] # Null /\ stored[p] = Null => p \in fresh
    BY DEF Received
<1>5. Follows(old.pulled)
    BY <1>1 DEF SwipeInv, PullsFollow
<1> HIDE DEF new, fresh
<1>6. PullsFollow'
    BY <1>2, <1>3, <1>4, <1>5 DEF PullsFollow, Follows, Direction
<1>7. LogsFollow'
    BY <1>2 DEF SwipeInv, LogsFollow, AllSwiped, Direction
<1> QED BY <1>2, <1>6, <1>7 DEF SwipeInv

LEMMA InsertSwipes == ASSUME SwipeInv, AttInv', InsertPunches PROVE SwipeInv'
<1> DEFINE old == job[Sync]
<1>1. Sync \in Workers /\ old \in Job /\ old # Null /\ old.at = "INSERT"
    BY AttParts DEF InsertPunches, JobAt, Workers, SwipeInv
<1>2. job'[Sync] = Proceed(old) /\ UNCHANGED terminal
    BY <1>1, AttParts DEF InsertPunches, SwipeInv
<1>3. \A p \in Punches :
         stored'[p] = IF p \in old.new /\ stored[p] = Null
                      THEN [mode |-> old.pulled[p], manual |-> FALSE] ELSE stored[p]
    BY DEF InsertPunches
<1>4. /\ Follows(old.pulled)
      /\ \A p \in Punches : old.pulled[p] # Null /\ stored[p] = Null => p \in old.new
      /\ \A p \in old.new : p \in Punches /\ old.pulled[p] # Null
    BY <1>1 DEF SwipeInv, PullsFollow, AttInv, JobsFit, JobFit, Job
<1>5. \A p \in Punches : stored[p] # Null => stored'[p] = stored[p]
    BY <1>3
<1>6. \A p \in Punches : stored'[p] # Null => stored[p] # Null \/ p \in old.new
    BY <1>3
<1>7. \A p \in Punches : old.pulled[p] # Null => stored'[p] # Null
  <2>1. \A p \in old.new : [mode |-> old.pulled[p], manual |-> FALSE] \in Log
      BY <1>1, <1>4 DEF Job, Log
  <2> QED BY <1>3, <1>4, <2>1, NullLogAssumption
<1>8. PullsFollow'
  <2>1. job'[Sync] = Null \/ job'[Sync].at = "READ"
    <3>1. [Idle EXCEPT !.at = "READ", !.days = old.days].at = "READ"
        BY DEF Idle
    <3> QED BY <1>2, <3>1 DEF Proceed
  <2> QED BY <2>1 DEF PullsFollow
<1>9. LogsFollow'
  <2> SUFFICES ASSUME NEW p \in Punches, stored'[p] # Null, AllSwiped(p[1])'
               PROVE  /\ p \in terminal /\ stored'[p].mode = Direction(p)
                      /\ \A q \in terminal : Before(q, p) => stored'[q] # Null
      BY <1>2 DEF LogsFollow, Direction
  <2>1. \A q \in terminal : q \in Punches
      BY AttParts DEF SwipeInv
  <2>2. CASE stored[p] # Null
    <3>1. AllSwiped(p[1])
        BY <1>5 DEF AllSwiped
    <3>2. /\ p \in terminal /\ stored[p].mode = Direction(p)
          /\ \A q \in terminal : Before(q, p) => stored[q] # Null
        BY <2>2, <3>1 DEF SwipeInv, LogsFollow
    <3> QED BY <1>5, <2>1, <2>2, <3>2
  <2>3. CASE stored[p] = Null
    <3>1. p \in old.new /\ stored'[p] = [mode |-> old.pulled[p], manual |-> FALSE]
        BY <1>3, <1>6, <2>3
    <3>2. /\ p \in terminal /\ old.pulled[p] = Direction(p)
          /\ \A q \in terminal : Before(q, p) => old.pulled[q] # Null
        BY <1>4, <3>1 DEF Follows
    <3> QED BY <1>7, <2>1, <3>1, <3>2
  <2> QED BY <2>2, <2>3
<1> QED BY <1>2, <1>8, <1>9 DEF SwipeInv

LEMMA ManualSwipes ==
    ASSUME SwipeInv, AttInv', NEW c \in Clerks, NEW q \in Punches, NEW mode \in {"IN", "OUT"},
           ManualPunch(c, q, mode)
    PROVE  SwipeInv'
<1>1. /\ c \in Workers /\ Sync \in Workers /\ c # Sync /\ UNCHANGED terminal
      /\ stored[q] = Null /\ stored' = [stored EXCEPT ![q] = [mode |-> mode, manual |-> TRUE]]
    BY ShiftAssumption DEF ManualPunch, Workers
<1>2. job'[Sync] = job[Sync]
    BY <1>1, AttParts DEF ManualPunch, SwipeInv
<1>3. /\ stored'[q] = [mode |-> mode, manual |-> TRUE]
      /\ \A p \in Punches : p # q => stored'[p] = stored[p]
    BY <1>1, AttParts DEF SwipeInv
<1>4. [mode |-> mode, manual |-> TRUE] \in Log
    BY DEF Log
<1>5. stored'[q] # Null /\ stored'[q].manual
  <2>1. stored'[q] # Null
      BY <1>3, <1>4, NullLogAssumption
  <2>2. [mode |-> mode, manual |-> TRUE].manual
      OBVIOUS
  <2> QED BY <1>3, <2>1, <2>2
<1>6. PullsFollow'
    BY <1>1, <1>2, <1>3 DEF SwipeInv, PullsFollow, Follows, Direction
<1>7. LogsFollow'
  <2> SUFFICES ASSUME NEW p \in Punches, stored'[p] # Null, AllSwiped(p[1])'
               PROVE  /\ p \in terminal /\ stored'[p].mode = Direction(p)
                      /\ \A x \in terminal : Before(x, p) => stored'[x] # Null
      BY <1>1 DEF LogsFollow, Direction
  <2>1. p[1] # q[1]
      BY <1>5 DEF AllSwiped
  <2>2. p # q /\ AllSwiped(p[1])
      BY <1>3, <2>1 DEF AllSwiped
  <2>3. /\ p \in terminal /\ stored[p].mode = Direction(p)
        /\ \A x \in terminal : Before(x, p) => stored[x] # Null
      BY <1>3, <2>2 DEF SwipeInv, LogsFollow
  <2>4. \A x \in terminal : x \in Punches
      BY AttParts DEF SwipeInv
  <2> QED BY <1>3, <1>5, <2>2, <2>3, <2>4
<1> QED BY <1>1, <1>6, <1>7 DEF SwipeInv

\* A punch comes after all of its employee's: it changes the direction of none.
LEMMA PunchSwipes == ASSUME SwipeInv, AttInv', NEW p \in Punches, Punch(p) PROVE SwipeInv'
<1>1. /\ terminal' = terminal \cup {p} /\ UNCHANGED <<stored, job>>
      /\ \A q \in terminal : q \in Punches /\ (q[1] = p[1] => Before(q, p))
    BY AttParts DEF Punch, SwipeInv
<1>2. IsFiniteSet(terminal')
    BY <1>1, FS_AddElement DEF SwipeInv
<1>3. \A q \in terminal : ~Before(p, q)
  <2>1. \A q \in Punches : q[2] \in Nat /\ q[3] \in Nat
      BY ShiftAssumption DEF Punches
  <2> QED BY <1>1, <2>1 DEF Before
<1>4. \A q \in terminal : Direction(q)' = Direction(q)
  <2>1. \A q \in terminal : {x \in terminal' : Before(x, q)} = {x \in terminal : Before(x, q)}
      BY <1>1, <1>3
  <2>2. \A q : Before(q, q)' = Before(q, q)
      BY DEF Before
  <2> QED BY <2>1 DEF Direction, Before
<1>5. PullsFollow'
    BY <1>1, <1>3, <1>4 DEF SwipeInv, PullsFollow, Follows, Before
<1>6. LogsFollow'
    BY <1>1, <1>3, <1>4 DEF SwipeInv, LogsFollow, AllSwiped, Before
<1> QED BY <1>2, <1>5, <1>6 DEF SwipeInv

LEMMA SwipeStepInv == SwipeInv /\ [AttNext]_attVars => SwipeInv'
<1> SUFFICES ASSUME SwipeInv, [AttNext]_attVars PROVE SwipeInv'
    OBVIOUS
<1>1. AttInv' /\ Sync \in Workers /\ Clerks \subseteq Workers /\ Sync \notin Clerks
      /\ job \in [Workers -> Job \cup {Null}]
    BY AttStepInv, AttParts, ShiftAssumption DEF SwipeInv, Workers
<1>2. CASE StartSync
    BY <1>1, <1>2, StillSwiped, Jobs DEF StartSync
<1>3. CASE Pull \/ Load \/ InsertPunches
    BY <1>1, <1>3, PullSwipes, LoadSwipes, InsertSwipes
<1>4. CASE PullFails
  <2>1. [job[Sync] EXCEPT !.again = TRUE].at = "PULL"
      BY <1>1, <1>4 DEF PullFails, JobAt, Job
  <2> QED BY <1>1, <1>4, <2>1, StillSwiped DEF PullFails
<1>5. ASSUME NEW w \in Workers, NEW s \in Slots, ReadDay(w, s) PROVE SwipeInv'
  <2>1. [job[w] EXCEPT !.at = "WRITE", !.slot = s, !.logs = DayLogs(s)].at = "WRITE"
      BY <1>1, <1>5 DEF ReadDay, JobAt, Job
  <2> QED BY <1>1, <1>5, <2>1, StillSwiped DEF ReadDay
<1>6. ASSUME NEW w \in Workers, WriteDay(w) PROVE SwipeInv'
  <2>1. \A local : Proceed(local) = Null \/ Proceed(local).at = "READ"
      BY DEF Proceed, Idle
  <2> QED BY <1>1, <1>6, <2>1, StillSwiped DEF WriteDay
<1>7. ASSUME NEW c \in Clerks, NEW e \in Staff, NEW d \in HandDays, NEW t \in HandTimes,
             NEW mode \in HandModes, ManualPunch(c, <<e, d, t>>, mode)
      PROVE  SwipeInv'
  <2>1. <<e, d, t>> \in Punches /\ mode \in {"IN", "OUT"}
      BY ShiftAssumption DEF Punches
  <2> QED BY <1>1, <1>7, <2>1, ManualSwipes
<1>8. ASSUME NEW s, (\E in, out \in HandTimes : Correct(s, in, out)) \/ (\E approved \in BOOLEAN : Approve(s, approved))
      PROVE  SwipeInv'
    BY <1>1, <1>8, StillSwiped DEF Correct, Approve
<1>9. CASE \E days \in SUBSET HolidayDays : SetHolidays(days)
    BY <1>1, <1>9, StillSwiped DEF SetHolidays
<1>10. ASSUME NEW p \in Punches, Punch(p) PROVE SwipeInv'
    BY <1>1, <1>10, PunchSwipes
<1>11. CASE ServerDies
    BY <1>1, <1>11, StillSwiped DEF ServerDies
<1>12. CASE UNCHANGED attVars
    BY <1>1, <1>12, StillSwiped DEF attVars
<1> QED BY <1>1, <1>2, <1>3, <1>4, <1>5, <1>6, <1>7, <1>8, <1>9, <1>10, <1>11, <1>12
        DEF AttNext, SyncStep, ClerkStep

LEMMA SwipeInvariant == AttSpec => []SwipeInv
<1> QED BY SwipeInitInv, SwipeStepInv, PTL DEF AttSpec

\* What the terminal has of an employee before a day.
Earlier(e, d) == {q \in terminal : q[1] = e /\ q[2] < d}

\* Days with an even number of punches each have an even number together: a first
\* day up to which they had not would itself have an odd one.
LEMMA EvenEarlier ==
    ASSUME SwipeInv, NEW s \in Slots, EvenBefore(s)
    PROVE  Cardinality(Earlier(s[1], s[2])) % 2 = 0
<1> DEFINE e == s[1]
           Odd == {d \in 0 .. s[2] : Cardinality(Earlier(e, d)) % 2 # 0}
<1>1. e \in Staff /\ s[2] \in Days /\ s[2] \in Nat
    BY ShiftAssumption DEF Slots
<1>2. terminal \subseteq Punches /\ IsFiniteSet(terminal)
    BY AttParts DEF SwipeInv
<1>3. \A q \in terminal : q[2] \in Nat
    BY <1>2, ShiftAssumption DEF Punches
<1>4. Odd = {}
  <2> SUFFICES ASSUME Odd # {} PROVE FALSE
      OBVIOUS
  <2>1. IsFiniteSet(Odd) /\ Odd \subseteq Nat
    <3>1. IsFiniteSet(0 .. s[2])
        BY <1>1, FS_Interval
    <3>2. Odd \in SUBSET (0 .. s[2])
        OBVIOUS
    <3>3. IsFiniteSet(Odd)
      <4> HIDE DEF Odd
      <4> QED BY <3>1, <3>2, FS_Subset
    <3> QED BY <1>1, <3>3
  <2>2. PICK d \in Odd : \A x \in Odd : d <= x
    <3> HIDE DEF Odd
    <3> QED BY <2>1, MinOf
  <2>3. d \in Nat /\ d <= s[2] /\ Cardinality(Earlier(e, d)) % 2 # 0
      BY <1>1, <2>2
  <2>4. d # 0
    <3>1. Earlier(e, 0) = {}
        BY <1>3 DEF Earlier
    <3>2. CASE d = 0
      <4>1. Cardinality(Earlier(e, d)) = 0
          BY <3>1, <3>2, FS_EmptySet
      <4> QED BY <2>3, <4>1
    <3> QED BY <3>2
  <2> DEFINE before == Earlier(e, d - 1)
             last == FromTerminal(<<e, d - 1>>)
  <2>5. d - 1 \in Nat /\ Cardinality(before) % 2 = 0
    <3>1. d - 1 \notin Odd /\ d - 1 \in 0 .. s[2]
        BY <1>1, <2>2, <2>3, <2>4
    <3> QED BY <3>1
  <2>6. Earlier(e, d) = before \cup last /\ before \cap last = {}
    <3>1. \A q \in terminal : q \in last <=> q[1] = e /\ q[2] = d - 1
        BY <1>2 DEF FromTerminal, SlotOf
    <3>2. \A q \in terminal : q[2] < d <=> q[2] < d - 1 \/ q[2] = d - 1
        BY <1>3, <2>3
    <3>3. last \subseteq terminal
        BY DEF FromTerminal
    <3>4. \A q \in terminal : ~(q[2] < d - 1 /\ q[2] = d - 1)
        BY <1>3, <2>3
    <3> HIDE DEF last
    <3> QED BY <3>1, <3>2, <3>3, <3>4 DEF Earlier
  <2>7. IsFiniteSet(before) /\ IsFiniteSet(last)
      BY <1>2, FS_Subset DEF Earlier, FromTerminal
  <2>8. Cardinality(last) % 2 = 0
    <3>1. CASE d - 1 \in Days
        BY <1>1, <2>3, <3>1 DEF EvenBefore
    <3>2. CASE d - 1 \notin Days
      <4>1. \A q \in terminal : SlotOf(q)[2] \in Days
          BY <1>2, PunchDay
      <4>2. <<e, d - 1>>[2] = d - 1
          OBVIOUS
      <4>3. ASSUME NEW q \in last PROVE FALSE
        <5>1. q \in terminal /\ SlotOf(q) = <<e, d - 1>>
            BY DEF FromTerminal
        <5> QED BY <3>2, <4>1, <4>2, <5>1
      <4>4. last = {}
        <5> HIDE DEF last
        <5> QED BY <4>3
      <4> HIDE DEF last
      <4>5. Cardinality(last) = 0
          BY <4>4, FS_EmptySet
      <4> QED BY <4>5
    <3> QED BY <3>1, <3>2
  <2> HIDE DEF before, last
  <2>9. /\ Cardinality(Earlier(e, d)) = Cardinality(before) + Cardinality(last) - Cardinality({})
        /\ Cardinality({}) = 0
      BY <2>6, <2>7, FS_Union, FS_EmptySet
  <2>10. Cardinality(before) \in Nat /\ Cardinality(last) \in Nat
      BY <2>7, FS_CardinalityType
  <2> QED BY <2>3, <2>5, <2>8, <2>9, <2>10
<1>5. s[2] \notin Odd
    BY <1>4
<1> QED BY <1>1, <1>5

\* Of a day without punches by hand, the first is an IN; an even number ends with an OUT.
LEMMA DayMatched ==
    ASSUME SwipeInv, NEW s \in Slots, Day(s) # {}, EvenBefore(s), Untouched(s)
    PROVE  LET logs == DayLogs(s) IN
           /\ CheckIn(logs) = Min(Day(s))
           /\ Cardinality(Day(s)) % 2 = 0 => CheckOut(logs) = Max(Day(s))
           /\ Cardinality(Day(s)) = 1 => CheckOut(logs) = Null
<1> DEFINE logs == DayLogs(s)
           day == Day(s)
           P(t) == <<s[1], s[2], t>>
           Rest(t) == {q \in FromTerminal(s) : q[3] < t}
<1>1. s[1] \in Staff /\ s[2] \in Days /\ Days \subseteq Nat /\ Times \subseteq Nat
    BY ShiftAssumption DEF Slots
<1>2. terminal \subseteq Punches /\ IsFiniteSet(terminal)
    BY AttParts DEF SwipeInv
<1>3. \A t \in Times : P(t) \in Punches /\ P(t)[1] = s[1] /\ P(t)[2] = s[2] /\ P(t)[3] = t
    BY <1>1 DEF Punches
<1>4. AllSwiped(s[1])
    BY DEF Untouched, AllSwiped
<1>5. \A t \in day : /\ t \in Times /\ stored[P(t)] # Null /\ P(t) \in terminal
                     /\ stored[P(t)].mode = Direction(P(t))
                     /\ \A q \in terminal : Before(q, P(t)) => stored[q] # Null
    BY <1>3, <1>4, DayIs DEF SwipeInv, LogsFollow
<1>6. \A q \in FromTerminal(s) : q \in terminal /\ q \in Punches /\ q = P(q[3]) /\ q[3] \in Times
    BY <1>2, PunchDay DEF FromTerminal, SlotOf
<1>7. \A t \in Times : P(t) \in terminal => P(t) \in FromTerminal(s)
    BY PunchDay DEF FromTerminal
<1>8. \A t \in day : \A q \in Rest(t) : q[3] \in day
  <2> SUFFICES ASSUME NEW t \in day, NEW q \in Rest(t) PROVE q[3] \in day
      OBVIOUS
  <2>1. q \in terminal /\ q = P(q[3]) /\ q[3] \in Times /\ q[3] < t
      BY <1>6
  <2>2. Before(q, P(t))
      BY <1>3, <1>5, <2>1 DEF Before
  <2> QED BY <1>5, <2>1, <2>2, DayIs
<1>9. IsFiniteSet(day) /\ day \subseteq Nat /\ day \subseteq Times
    BY <1>1, DayIs, SomeTimes
<1>10. PICK first \in day : first = Min(day) /\ \A t \in day : first <= t
    BY <1>9, MinOf
<1>11. PICK last \in day : last = Max(day) /\ \A t \in day : last >= t
    BY <1>9, MaxOf
<1>12. ASSUME NEW t \in day
       PROVE  /\ IsFiniteSet(Rest(t))
              /\ Cardinality({q \in terminal : Before(q, P(t))}) % 2 = Cardinality(Rest(t)) % 2
  <2> DEFINE early == Earlier(s[1], s[2])
             rest == Rest(t)
  <2>1. t \in Times
      BY <1>5
  <2>2. {q \in terminal : Before(q, P(t))} = early \cup rest /\ early \cap rest = {}
    <3>1. \A q \in terminal : q \in rest <=> q[1] = s[1] /\ q[2] = s[2] /\ q[3] < t
      <4>1. s = <<s[1], s[2]>>
          BY DEF Slots
      <4>2. \A q : SlotOf(q) = s <=> q[1] = s[1] /\ q[2] = s[2]
          BY <4>1 DEF SlotOf
      <4> QED BY <4>2 DEF FromTerminal
    <3>2. rest \subseteq terminal
        BY <1>6
    <3>3. \A q \in terminal : ~(q[2] < s[2] /\ q[2] = s[2])
      <4>1. s[2] \in Nat
          BY <1>1
      <4>2. ~(s[2] < s[2])
          BY <4>1
      <4> QED BY <4>2
    <3> HIDE DEF rest
    <3> QED BY <1>3, <2>1, <3>1, <3>2, <3>3 DEF Earlier, Before
  <2>3. IsFiniteSet(early) /\ IsFiniteSet(rest)
      BY <1>2, FS_Subset DEF Earlier, FromTerminal
  <2>4. Cardinality(early) % 2 = 0
      BY EvenEarlier
  <2> HIDE DEF early, rest
  <2>5. /\ Cardinality(early \cup rest) = Cardinality(early) + Cardinality(rest) - Cardinality({})
        /\ Cardinality({}) = 0
      BY <2>2, <2>3, FS_Union, FS_EmptySet
  <2>6. Cardinality(early) \in Nat /\ Cardinality(rest) \in Nat
      BY <2>3, FS_CardinalityType
  <2>7. Cardinality(early \cup rest) % 2 = Cardinality(rest) % 2
      BY <2>4, <2>5, <2>6
  <2> QED BY <2>2, <2>3, <2>7 DEF rest
<1>13. logs[first].mode = "IN" /\ logs[first] = stored[P(first)]
  <2>1. Rest(first) = {}
    <3> SUFFICES ASSUME NEW q \in Rest(first) PROVE FALSE
        OBVIOUS
    <3>1. q[3] \in day /\ q[3] < first
        BY <1>8
    <3> QED BY <1>9, <1>10, <3>1
  <2>2. Cardinality(Rest(first)) = 0
      BY <2>1, FS_EmptySet
  <2>3. Direction(P(first)) = "IN"
      BY <1>12, <2>2 DEF Direction
  <2> QED BY <1>5, <2>3 DEF DayLogs
<1>14. CheckIn(logs) = first
  <2> DEFINE ins == TimesIn(logs, "IN")
  <2>1. first \in ins /\ ins \subseteq day /\ ins \subseteq Times
      BY <1>9, <1>13 DEF TimesIn, Day
  <2>2. Min(ins) \in ins /\ \A t \in ins : Min(ins) <= t
      BY <2>1, SomeTimes
  <2>3. Min(ins) = first
    <3> HIDE DEF ins
    <3>1. Min(ins) <= first /\ first <= Min(ins) /\ Min(ins) \in Nat /\ first \in Nat
        BY <1>9, <1>10, <2>1, <2>2
    <3> QED BY <3>1
  <2> QED BY <2>1, <2>3 DEF CheckIn
<1>15. ASSUME Cardinality(day) % 2 = 0 PROVE CheckOut(logs) = last
  <2> DEFINE others == day \ {last}
             rest == Rest(last)
             f == [t \in others |-> P(t)]
  <2>1. IsFiniteSet(others) /\ Cardinality(others) = Cardinality(day) - 1
      BY <1>9, FS_RemoveElement
  <2>2. \A t \in others : P(t) \in rest
    <3> SUFFICES ASSUME NEW t \in others PROVE P(t) \in FromTerminal(s) /\ P(t)[3] < last
        OBVIOUS
    <3>1. t < last
        BY <1>9, <1>11
    <3> QED BY <1>3, <1>5, <1>7, <3>1
  <2>3. \A q \in rest : q[3] \in others /\ P(q[3]) = q
      BY <1>6, <1>8, <1>9
  <2>4. f \in Bijection(others, rest)
    <3>1. f \in [others -> rest] /\ \A q \in rest : \E t \in others : f[t] = q
        BY <2>2, <2>3
    <3>2. \A t, u \in others : f[t] = f[u] => t = u
        BY <1>3, <1>9
    <3> HIDE DEF f, others, rest
    <3> QED BY <3>1, <3>2 DEF Bijection, Injection, Surjection, IsInjective
  <2>5. Cardinality(rest) = Cardinality(day) - 1
    <3> HIDE DEF f, others, rest
    <3> QED BY <2>1, <2>4, FS_Bijection DEF ExistsBijection
  <2>6. Cardinality(day) \in Nat
      BY <1>9, FS_CardinalityType
  <2>7. Cardinality(rest) % 2 # 0
    <3> HIDE DEF rest, day
    <3> QED BY <1>15, <2>5, <2>6
  <2>8. Direction(P(last)) = "OUT"
      BY <1>12, <2>7 DEF Direction
  <2> DEFINE outs == TimesIn(logs, "OUT")
  <2>9. last \in outs /\ outs \subseteq day /\ outs \subseteq Times
      BY <1>5, <1>9, <2>8 DEF TimesIn, Day, DayLogs
  <2>10. Max(outs) \in outs /\ \A t \in outs : Max(outs) >= t
      BY <2>9, SomeTimes
  <2>11. Max(outs) = last
    <3> HIDE DEF outs
    <3>1. Max(outs) >= last /\ last >= Max(outs) /\ Max(outs) \in Nat /\ last \in Nat
        BY <1>9, <1>11, <2>9, <2>10
    <3> QED BY <3>1
  <2> QED BY <2>9, <2>11 DEF CheckOut
<1>16. ASSUME Cardinality(day) = 1 PROVE CheckOut(logs) = Null
  <2>1. day = {first}
      BY <1>9, <1>16, FS_Singleton
  <2>2. TimesIn(logs, "OUT") = {}
      BY <1>13, <2>1 DEF TimesIn, Day
  <2> QED BY <2>2 DEF CheckOut
<1> QED BY <1>10, <1>11, <1>14, <1>15, <1>16

\* getAttendanceLogs and processDay: for an employee whose earlier days have all their
\* swipes, check-in is the day's first punch and, once he has left, check-out its last.
THEOREM InsAndOutsMatch == AttSpec => []InAndOutMatched
<1>1. ASSUME SwipeInv PROVE InAndOutMatched
  <2> SUFFICES ASSUME NEW s \in Slots \ torn, Day(s) # {}, ~InFlight(s), record[s].hand = Null,
                      EvenBefore(s), Untouched(s)
               PROVE  /\ record[s].checkIn = Min(Day(s))
                      /\ Cardinality(Day(s)) % 2 = 0 => record[s].checkOut = Max(Day(s))
                      /\ Cardinality(Day(s)) = 1 => s \in MissingPunches
      BY DEF InAndOutMatched, Day
  <2> DEFINE logs == DayLogs(s)
             holiday == s[2] \in holidays
             computed == DayRecord(logs, holiday)
  <2>1. AttInv
      BY <1>1 DEF SwipeInv
  <2>2. record[s] # Null /\ record[s] \in Record /\ record[s] = Upsert(record[s], computed)
      BY <2>1, AttParts DEF AttInv, Told
  <2>3. /\ computed \in Record
        /\ computed.checkIn = CheckIn(logs) /\ computed.checkOut = CheckOut(logs)
    <3>1. holiday \in BOOLEAN /\ TimesOf(logs) # {} /\ logs \in [Times -> Log \cup {Null}]
        BY <2>1, LogsOf DEF Day
    <3> HIDE DEF holiday, logs
    <3> QED BY <3>1, DayRecordType
  <2> HIDE DEF computed
  <2>4. record[s].checkIn = CheckIn(logs) /\ record[s].checkOut = CheckOut(logs)
      BY <2>2, <2>3 DEF Upsert, Record
  <2> QED BY <1>1, <2>2, <2>4, DayMatched DEF MissingPunches
<1> QED BY <1>1, SwipeInvariant, PTL

-----------------------------------------------------------------------------
(* The duty roster. *)

\* The request has read its duty, and not told of its write yet.
InHand(u) == RequestAt(u, "WRITE") \/ RequestAt(u, "TELL")

\* Two requests have a duty in hand at once only if it is strained.
Alone ==
    \A u, v \in Planners :
        u # v /\ InHand(u) /\ InHand(v) /\ request[u].on = request[v].on =>
            request[u].on \in strained

\* A screen offers what the service allows for the duty it shows.
OfferedIsAllowed ==
    \A u \in Planners :
        RequestAt(u, "READ") => Allows(u, request[u], request[u].shown)

\* What a request that is about to write has read stands, and allows the write.
ReadStands ==
    \A u \in Planners :
        RequestAt(u, "WRITE") /\ request[u].on \notin strained =>
            /\ request[u].existing = duty[request[u].on]
            /\ Allows(u, request[u], duty[request[u].on])

\* An upsert that is about to write has its plan.
PlanInHand ==
    \A u \in Planners :
        request[u] # Null /\ request[u].op = "UPSERT" /\ request[u].at \in {"READ", "WRITE"} =>
            request[u].plan \in Plans

\* The notification that is about to go out says what stands.
SaysWhatStands ==
    \A u \in Planners :
        RequestAt(u, "TELL") /\ request[u].on \notin strained =>
            request[u].says = IF IsApproved(duty[request[u].on])
                              THEN duty[request[u].on].plan ELSE "CLEARED"

\* Also for a duty in hand that is not written yet.
IInv ==
    /\ RosterTypeOK /\ Alone /\ OfferedIsAllowed /\ PlanInHand
    /\ ReadStands /\ SaysWhatStands /\ ToldWhatStands

-----------------------------------------------------------------------------

LEMMA Markers ==
    /\ Null \notin Plans /\ "CLEARED" \notin Plans /\ Null # "CLEARED"
    /\ Null \notin Assignment /\ Null \notin Request /\ Managers \subseteq Planners
BY PlannersAssumption, RosterNullAssumption

LEMMA InvInit == RosterInit => IInv
<1> SUFFICES ASSUME RosterInit PROVE IInv
    OBVIOUS
<1>1. RosterTypeOK
    BY DEF RosterInit, RosterTypeOK, Duty
<1>2. \A u \in Planners : request[u] = Null
    BY DEF RosterInit
<1>3. Alone /\ OfferedIsAllowed /\ PlanInHand /\ ReadStands /\ SaysWhatStands
    BY <1>2 DEF Alone, OfferedIsAllowed, PlanInHand, ReadStands, SaysWhatStands, InHand, RequestAt
<1>4. ToldWhatStands
    BY DEF RosterInit, ToldWhatStands, IsApproved
<1> QED BY <1>1, <1>3, <1>4 DEF IInv

\* A planner's request is the only one his step replaces.
LEMMA OthersStay ==
    ASSUME RosterTypeOK, NEW u \in Planners, NEW r, request' = [request EXCEPT ![u] = r]
    PROVE  /\ request'[u] = r
           /\ \A v \in Planners : v # u => request'[v] = request[v]
BY DEF RosterTypeOK

\* The duties stand, nothing new is in hand, and nothing is written: the parts
\* of the invariant about work in hand are kept by a step that lets go of a
\* request or makes one that has not read.
LEMMA NothingInHand ==
    ASSUME IInv, NEW u \in Planners, NEW r, request' = [request EXCEPT ![u] = r],
           ~RequestAt(u, "TELL"),
           r = Null \/ r \in Request,
           r # Null => r.at \notin {"WRITE", "TELL"},
           r # Null /\ r.at = "READ" => Allows(u, r, r.shown),
           r # Null /\ r.at = "READ" /\ r.op = "UPSERT" => r.plan \in Plans,
           UNCHANGED <<duty, told, strained>>,
           screen' \in [Planners -> [Duties -> Duty]]
    PROVE  IInv'
<1>1. /\ request'[u] = r
      /\ \A v \in Planners : v # u => request'[v] = request[v]
    BY OthersStay DEF IInv
<1>2. RosterTypeOK'
    BY <1>1 DEF IInv, RosterTypeOK
<1>3. \A v \in Planners, at \in {"WRITE", "TELL"} :
          RequestAt(v, at)' => RequestAt(v, at) /\ request'[v] = request[v]
    BY <1>1 DEF RequestAt
<1>4. Alone'
    BY <1>3 DEF IInv, Alone, InHand
<1>5. OfferedIsAllowed' /\ PlanInHand'
    BY <1>1, ZenonT(40) DEF IInv, OfferedIsAllowed, PlanInHand, RequestAt, Allows, IsPending, IsApproved
<1>6. ReadStands'
  <2> SUFFICES ASSUME NEW v \in Planners, RequestAt(v, "WRITE")', request'[v].on \notin strained
               PROVE  /\ request'[v].existing = duty[request'[v].on]
                      /\ Allows(v, request'[v], duty[request'[v].on])
      BY DEF ReadStands, Allows, IsPending, IsApproved
  <2> QED BY <1>3 DEF IInv, ReadStands
<1>8. SaysWhatStands'
    BY <1>3 DEF IInv, SaysWhatStands, IsApproved
<1>7. ToldWhatStands'
    BY <1>1 DEF IInv, ToldWhatStands, RequestAt, IsApproved
<1> QED BY <1>2, <1>4, <1>5, <1>6, <1>7, <1>8 DEF IInv

\* A request alone with its duty writes a row and has the notification to send
\* that says so: the row's plan if it is approved, otherwise that an approved
\* one is cleared, and nothing if there was none.
LEMMA WriteKeeps ==
    ASSUME IInv, NEW u \in Planners, RequestAt(u, "WRITE"),
           NEW row \in Duty, NEW says \in Plans \cup {"CLEARED", Null},
           Written(u, row, says),
           request[u].on \notin strained =>
               says = IF IsApproved(row) THEN row.plan
                      ELSE IF IsApproved(duty[request[u].on]) THEN "CLEARED" ELSE Null
    PROVE  IInv'
<1> USE Markers
<1> DEFINE d == request[u].on
           r == [request[u] EXCEPT !.at = IF says = Null THEN "ANSWER" ELSE "TELL",
                                   !.says = says, !.plan = Null, !.existing = Null]
<1>1. request[u] \in Request /\ request[u] # Null /\ d \in Duties
    BY DEF IInv, RosterTypeOK, RequestAt, Request
<1>2. r \in Request /\ r # Null /\ r.on = d /\ r.says = says
      /\ r.at = (IF says = Null THEN "ANSWER" ELSE "TELL")
    BY <1>1, ZenonT(40) DEF Request, Duty
<1>3. /\ request'[u] = r
      /\ \A v \in Planners : v # u => request'[v] = request[v]
    BY <1>1 DEF Written, IInv, RosterTypeOK
<1>4. duty'[d] = row /\ \A e \in Duties : e # d => duty'[e] = duty[e]
    BY <1>1 DEF Written, IInv, RosterTypeOK
<1> HIDE DEF r
<1>5. RosterTypeOK'
    BY <1>1, <1>2, <1>3 DEF Written, IInv, RosterTypeOK
<1>6. \A v \in Planners : InHand(v)' => InHand(v) /\ request'[v].on = request[v].on
    BY <1>2, <1>3 DEF InHand, RequestAt
<1>7. Alone'
  <2> SUFFICES ASSUME NEW v \in Planners, NEW w \in Planners, v # w,
                      InHand(v)', InHand(w)', request'[v].on = request'[w].on
               PROVE  request'[v].on \in strained
      BY DEF Alone, Written
  <2> QED BY <1>6 DEF IInv, Alone
<1>8. OfferedIsAllowed' /\ PlanInHand'
    BY <1>2, <1>3, ZenonT(40) DEF IInv, OfferedIsAllowed, PlanInHand, RequestAt, Allows, IsPending, IsApproved
\* Whoever else has a duty in hand that is not strained has another.
<1>9. \A v \in Planners :
          v # u /\ InHand(v) /\ request[v].on \notin strained => request[v].on # d
    BY DEF IInv, Alone, InHand
<1>10. ReadStands'
  <2> SUFFICES ASSUME NEW v \in Planners, RequestAt(v, "WRITE")', request'[v].on \notin strained
               PROVE  /\ request'[v].existing = duty'[request'[v].on]
                      /\ Allows(v, request'[v], duty'[request'[v].on])
      BY DEF ReadStands, Allows, IsPending, IsApproved, Written
  <2>1. v # u /\ request'[v] = request[v] /\ RequestAt(v, "WRITE")
      BY <1>2, <1>3 DEF RequestAt
  <2>2. request[v].on \in Duties /\ request[v].on # d
      BY <1>9, <2>1 DEF InHand, RequestAt, IInv, RosterTypeOK, Request
  <2> QED BY <1>4, <2>1, <2>2 DEF IInv, ReadStands
<1>11. SaysWhatStands'
  <2> SUFFICES ASSUME NEW v \in Planners, RequestAt(v, "TELL")', request'[v].on \notin strained
               PROVE  request'[v].says = IF IsApproved(duty'[request'[v].on])
                                         THEN duty'[request'[v].on].plan ELSE "CLEARED"
      BY DEF SaysWhatStands, IsApproved, Written
  <2>1. CASE v = u
      BY <1>2, <1>3, <1>4, <2>1 DEF RequestAt
  <2>2. CASE v # u
    <3>1. request'[v] = request[v] /\ RequestAt(v, "TELL")
        BY <1>3, <2>2 DEF RequestAt
    <3>2. request[v].on \in Duties /\ request[v].on # d
        BY <1>9, <2>2, <3>1 DEF InHand, RequestAt, IInv, RosterTypeOK, Request
    <3> QED BY <1>4, <3>1, <3>2 DEF IInv, SaysWhatStands
  <2> QED BY <2>1, <2>2
<1>12. ToldWhatStands'
  <2> SUFFICES ASSUME NEW e \in Duties \ strained,
                      \A v \in Planners : ~(RequestAt(v, "TELL")' /\ request'[v].on = e)
               PROVE  IF IsApproved(duty'[e]) THEN told[e] = duty'[e].plan
                      ELSE told[e] \in {Null, "CLEARED"}
      BY DEF ToldWhatStands, IsApproved, Written
  <2>1. \A v \in Planners : ~(RequestAt(v, "TELL") /\ request[v].on = e)
      BY <1>3, <1>9 DEF RequestAt, InHand
  <2>2. IF IsApproved(duty[e]) THEN told[e] = duty[e].plan ELSE told[e] \in {Null, "CLEARED"}
      BY <2>1 DEF IInv, ToldWhatStands
  <2>3. CASE e # d
      BY <1>4, <2>2, <2>3
  <2>4. CASE e = d
    <3>1. says = Null
        BY <1>2, <1>3, <2>4 DEF RequestAt
    <3>2. ~IsApproved(row) /\ ~IsApproved(duty[e])
        BY <2>4, <3>1 DEF IsApproved, Duty, Assignment
    <3> QED BY <1>4, <2>2, <2>4, <3>2
  <2> QED BY <2>3, <2>4
<1> QED BY <1>5, <1>7, <1>8, <1>10, <1>11, <1>12 DEF IInv

LEMMA SendKeeps ==
    ASSUME IInv, NEW u \in Planners, NEW op \in {"UPSERT", "APPROVE", "REMOVE"},
           NEW d \in Duties, NEW plan \in Plans \cup {Null}, Send(u, op, d, plan)
    PROVE  IInv'
<1> USE Markers
<1> DEFINE shown == screen[u][d]
           r == [op |-> op, on |-> d, plan |-> plan, at |-> "READ", existing |-> Null,
                 note |-> NeedsNote(u, shown), shown |-> shown, says |-> Null]
<1>1. shown \in Duty
    BY DEF IInv, RosterTypeOK
<1>2. NeedsNote(u, shown) \in BOOLEAN
    BY DEF NeedsNote, IsApproved, IsHrOrAdmin
<1>3. r \in Request
    BY <1>1, <1>2 DEF Request, Duty
<1>4. Allows(u, r, r.shown)
    BY DEF Send, Allows, LockedForManager, NeedsNote
<1>5. r.op = "UPSERT" => r.plan \in Plans
    BY DEF Send, Asks
<1>6. /\ request[u] = Null
      /\ request' = [request EXCEPT ![u] = r]
      /\ UNCHANGED <<duty, told, strained>>
      /\ screen' = screen
    BY DEF Send
<1>7. r.at = "READ"
    OBVIOUS
<1> HIDE DEF r
<1>8. ~RequestAt(u, "TELL") /\ screen' \in [Planners -> [Duties -> Duty]]
    BY <1>6 DEF RequestAt, IInv, RosterTypeOK
<1> QED BY <1>3, <1>4, <1>5, <1>6, <1>7, <1>8, NothingInHand

\* A planner's request is let go, or waits for its answer: NothingThere, Refuse,
\* ApprovalFails, AnswerAndRefetch.
LEMMA LetGoKeeps ==
    ASSUME IInv, NEW u \in Planners,
           NothingThere(u) \/ Refuse(u) \/ ApprovalFails(u) \/ AnswerAndRefetch(u)
    PROVE  IInv'
<1>1. CASE NothingThere(u)
  <2> DEFINE r == [request[u] EXCEPT !.at = "ANSWER", !.shown = Null]
  <2>1. request[u] \in Request /\ ~RequestAt(u, "TELL")
      BY <1>1 DEF NothingThere, RequestAt, IInv, RosterTypeOK
  <2>2. r \in Request /\ r.at = "ANSWER"
      BY <2>1 DEF Request, Duty
  <2>3. /\ request' = [request EXCEPT ![u] = r]
        /\ UNCHANGED <<duty, told, strained>> /\ screen' = screen
      BY <1>1 DEF NothingThere
  <2> HIDE DEF r
  <2>4. screen' \in [Planners -> [Duties -> Duty]]
      BY <2>3 DEF IInv, RosterTypeOK
  <2> QED BY <2>1, <2>2, <2>3, <2>4, NothingInHand
<1>2. CASE Refuse(u) \/ ApprovalFails(u) \/ AnswerAndRefetch(u)
  <2>1. /\ ~RequestAt(u, "TELL")
        /\ request' = [request EXCEPT ![u] = Null]
        /\ UNCHANGED <<duty, told, strained>>
      BY <1>2 DEF Refuse, ApprovalFails, AnswerAndRefetch, RequestAt
  <2>2. screen' \in [Planners -> [Duties -> Duty]]
      BY <1>2 DEF Refuse, ApprovalFails, AnswerAndRefetch, IInv, RosterTypeOK
  <2> QED BY <2>1, <2>2, NothingInHand
<1> QED BY <1>1, <1>2

LEMMA ReadKeeps ==
    ASSUME IInv, NEW u \in Planners, ReadDuty(u)
    PROVE  IInv'
<1> USE Markers
<1> DEFINE d == request[u].on
           r == [request[u] EXCEPT !.at = "WRITE", !.existing = duty[d], !.shown = Null]
<1>1. request[u] \in Request /\ d \in Duties /\ duty[d] \in Duty
    BY DEF ReadDuty, RequestAt, IInv, RosterTypeOK, Request
<1>2. /\ r \in Request /\ r # Null /\ r.on = d /\ r.at = "WRITE" /\ r.existing = duty[d]
      /\ r.op = request[u].op /\ r.note = request[u].note /\ r.plan = request[u].plan
    BY <1>1 DEF Request, Duty
<1>3. /\ request'[u] = r
      /\ \A v \in Planners : v # u => request'[v] = request[v]
    BY <1>1 DEF ReadDuty, IInv, RosterTypeOK
<1> HIDE DEF r
<1>4. duty' = duty /\ told' = told /\ screen' = screen /\ strained \subseteq strained'
    BY DEF ReadDuty
<1>5. RosterTypeOK'
  <2>1. request' \in [Planners -> Request \cup {Null}]
      BY <1>2, <1>3 DEF ReadDuty, IInv, RosterTypeOK
  <2>2. strained' \subseteq Duties
      BY <1>1 DEF ReadDuty, IInv, RosterTypeOK
  <2> QED BY <1>4, <2>1, <2>2 DEF IInv, RosterTypeOK
<1>6. Alone'
  <2> SUFFICES ASSUME NEW v \in Planners, NEW w \in Planners, v # w,
                      InHand(v)', InHand(w)', request'[v].on = request'[w].on
               PROVE  request'[v].on \in strained'
      BY DEF Alone
  <2>1. CASE v # u /\ w # u
      BY <1>3, <1>4, <2>1 DEF IInv, Alone, InHand, RequestAt
  <2>2. CASE v = u \/ w = u
    <3>1. PICK x \in Planners : x # u /\ InHand(x) /\ request[x].on = d
        BY <1>2, <1>3, <2>2 DEF InHand, RequestAt
    <3>2. Underway(u, d)
        BY <3>1 DEF Underway, InHand, RequestAt
    <3>3. request'[v].on = d
        BY <1>2, <1>3, <2>2
    <3> QED BY <3>2, <3>3 DEF ReadDuty
  <2> QED BY <2>1, <2>2
<1>7. OfferedIsAllowed'
  <2> SUFFICES ASSUME NEW v \in Planners, RequestAt(v, "READ")'
               PROVE  Allows(v, request'[v], request'[v].shown)
      BY DEF OfferedIsAllowed, Allows, IsPending, IsApproved
  <2>1. v # u
      BY <1>2, <1>3 DEF RequestAt
  <2> QED BY <1>3, <2>1 DEF IInv, OfferedIsAllowed, RequestAt
<1>8. PlanInHand'
    BY <1>2, <1>3 DEF IInv, PlanInHand, ReadDuty, RequestAt
<1>9. ReadStands'
  <2> SUFFICES ASSUME NEW v \in Planners, RequestAt(v, "WRITE")', request'[v].on \notin strained'
               PROVE  /\ request'[v].existing = duty[request'[v].on]
                      /\ Allows(v, request'[v], duty[request'[v].on])
      BY <1>4 DEF ReadStands, Allows, IsPending, IsApproved
  <2>1. CASE v = u
    <3>1. Allows(u, request[u], duty[d])
        BY DEF ReadDuty
    <3>2. Allows(u, r, duty[d])
        BY <1>2, <3>1 DEF Allows
    <3> QED BY <1>2, <1>3, <2>1, <3>2
  <2>2. CASE v # u
      BY <1>3, <1>4, <2>2 DEF IInv, ReadStands, RequestAt
  <2> QED BY <2>1, <2>2
<1>10. SaysWhatStands'
    BY <1>2, <1>3, <1>4 DEF IInv, SaysWhatStands, RequestAt, IsApproved
<1>11. ToldWhatStands'
  <2>1. \A v \in Planners : RequestAt(v, "TELL") => RequestAt(v, "TELL")' /\ request'[v] = request[v]
      BY <1>2, <1>3 DEF ReadDuty, RequestAt
  <2> QED BY <1>4, <2>1 DEF IInv, ToldWhatStands, IsApproved
<1> QED BY <1>5, <1>6, <1>7, <1>8, <1>9, <1>10, <1>11 DEF IInv

\* upsert, approve and remove satisfy what WriteKeeps asks of a write.
LEMMA WritesKeep ==
    ASSUME IInv, NEW u \in Planners, WritePlan(u) \/ WriteApproval(u) \/ WriteRemoval(u)
    PROVE  IInv'
<1> USE Markers
<1> DEFINE d == request[u].on
<1>1. RequestAt(u, "WRITE")
    BY DEF WritePlan, WriteApproval, WriteRemoval
<1>2. request[u] \in Request /\ request[u] # Null /\ d \in Duties /\ duty[d] \in Duty
    BY <1>1 DEF RequestAt, IInv, RosterTypeOK, Request
<1>3. d \notin strained => /\ request[u].existing = duty[d]
                          /\ Allows(u, request[u], duty[d])
    BY <1>1 DEF IInv, ReadStands
<1>4. CASE WritePlan(u)
  <2> DEFINE new == [plan |-> request[u].plan,
                     status |-> IF IsHrOrAdmin(u) THEN "APPROVED" ELSE "PENDING"]
             row == IF duty[d] = Null THEN new ELSE [duty[d] EXCEPT !.plan = request[u].plan]
  <2>1. request[u].op = "UPSERT" /\ request[u].plan \in Plans
      BY <1>1, <1>2, <1>4 DEF WritePlan, RequestAt, IInv, PlanInHand
  <2>2. row \in Assignment
      BY <1>2, <2>1 DEF Duty, Assignment
  <2>3. IsApproved(duty[d]) => IsApproved(row)
      BY <1>2, <2>2 DEF IsApproved, Duty, Assignment
  <2>4. Written(u, row, Says(request[u], row))
      BY <1>4 DEF WritePlan
  <2> HIDE DEF row
  <2>5. /\ row \in Duty /\ Says(request[u], row) \in Plans \cup {"CLEARED", Null}
        /\ Says(request[u], row) = IF IsApproved(row) THEN row.plan
                                   ELSE IF IsApproved(duty[d]) THEN "CLEARED" ELSE Null
      BY <2>2, <2>3 DEF Says, Duty, Assignment
  <2> QED BY <1>1, <2>4, <2>5, WriteKeeps
<1>5. CASE WriteApproval(u)
  <2> DEFINE row == [duty[d] EXCEPT !.status = "APPROVED"]
  <2>1. row \in Assignment /\ row.status = "APPROVED"
      BY <1>2, <1>5 DEF WriteApproval, Duty, Assignment
  <2>2. Written(u, row, Says(request[u], row))
      BY <1>5 DEF WriteApproval
  <2> HIDE DEF row
  <2>3. IsApproved(row)
      BY <2>1 DEF IsApproved
  <2>4. /\ row \in Duty /\ Says(request[u], row) \in Plans \cup {"CLEARED", Null}
        /\ Says(request[u], row) = row.plan
      BY <2>1, <2>3 DEF Says, Duty, Assignment
  <2> QED BY <1>1, <2>2, <2>3, <2>4, WriteKeeps
<1>6. CASE WriteRemoval(u)
  <2> DEFINE says == IF IsApproved(request[u].existing) THEN "CLEARED" ELSE Null
  <2>1. Written(u, Null, says)
      BY <1>6 DEF WriteRemoval
  <2>2. ~IsApproved(Null) /\ Null \in Duty /\ says \in Plans \cup {"CLEARED", Null}
      BY DEF IsApproved, Duty
  <2>3. d \notin strained => says = IF IsApproved(duty[d]) THEN "CLEARED" ELSE Null
      BY <1>3
  <2> HIDE DEF says
  <2> QED BY <1>1, <2>1, <2>2, <2>3, WriteKeeps
<1> QED BY <1>4, <1>5, <1>6

LEMMA TellKeeps ==
    ASSUME IInv, NEW u \in Planners, Tell(u)
    PROVE  IInv'
<1> USE Markers
<1> DEFINE d == request[u].on
           r == [request[u] EXCEPT !.at = "ANSWER", !.says = Null]
<1>1. request[u] \in Request /\ d \in Duties /\ RequestAt(u, "TELL")
    BY DEF Tell, RequestAt, IInv, RosterTypeOK, Request
<1>2. r \in Request /\ r.at = "ANSWER"
    BY <1>1 DEF Request
<1>3. /\ request'[u] = r
      /\ \A v \in Planners : v # u => request'[v] = request[v]
    BY <1>1 DEF Tell, IInv, RosterTypeOK
<1>4. /\ told'[d] = request[u].says
      /\ \A e \in Duties : e # d => told'[e] = told[e]
      /\ duty' = duty /\ screen' = screen /\ strained' = strained
    BY <1>1 DEF Tell, IInv, RosterTypeOK
<1> HIDE DEF r
<1>5. RosterTypeOK'
  <2>1. request' \in [Planners -> Request \cup {Null}]
      BY <1>2, <1>3 DEF Tell, IInv, RosterTypeOK
  <2>2. told' \in [Duties -> Plans \cup {"CLEARED", Null}]
      BY <1>1, <1>4 DEF Tell, IInv, RosterTypeOK, Request
  <2> QED BY <1>4, <2>1, <2>2 DEF IInv, RosterTypeOK
<1>6. \A v \in Planners, at \in {"READ", "WRITE", "TELL"} :
          RequestAt(v, at)' => RequestAt(v, at) /\ request'[v] = request[v]
    BY <1>2, <1>3 DEF RequestAt
<1>7. Alone'
  <2> SUFFICES ASSUME NEW v \in Planners, NEW w \in Planners, v # w,
                      InHand(v)', InHand(w)', request'[v].on = request'[w].on
               PROVE  request'[v].on \in strained
      BY <1>4 DEF Alone
  <2> QED BY <1>6 DEF IInv, Alone, InHand
<1>8. OfferedIsAllowed'
  <2> SUFFICES ASSUME NEW v \in Planners, RequestAt(v, "READ")'
               PROVE  Allows(v, request'[v], request'[v].shown)
      BY DEF OfferedIsAllowed, Allows, IsPending, IsApproved
  <2> QED BY <1>6 DEF IInv, OfferedIsAllowed
<1>9. PlanInHand'
    BY <1>2, <1>3 DEF IInv, PlanInHand
<1>10. ReadStands'
  <2> SUFFICES ASSUME NEW v \in Planners, RequestAt(v, "WRITE")', request'[v].on \notin strained
               PROVE  /\ request'[v].existing = duty[request'[v].on]
                      /\ Allows(v, request'[v], duty[request'[v].on])
      BY <1>4 DEF ReadStands, Allows, IsPending, IsApproved
  <2> QED BY <1>6 DEF IInv, ReadStands
<1>11. SaysWhatStands'
    BY <1>4, <1>6 DEF IInv, SaysWhatStands, IsApproved
<1>12. ToldWhatStands'
  <2> SUFFICES ASSUME NEW e \in Duties \ strained,
                      \A v \in Planners : ~(RequestAt(v, "TELL")' /\ request'[v].on = e)
               PROVE  IF IsApproved(duty[e]) THEN told'[e] = duty[e].plan
                      ELSE told'[e] \in {Null, "CLEARED"}
      BY <1>4 DEF ToldWhatStands, IsApproved
  <2>1. CASE e = d
      BY <1>1, <1>4, <2>1 DEF IInv, SaysWhatStands
  <2>2. CASE e # d
    <3>1. \A v \in Planners : ~(RequestAt(v, "TELL") /\ request[v].on = e)
        BY <1>3, <2>2 DEF RequestAt
    <3> QED BY <1>4, <2>2, <3>1 DEF IInv, ToldWhatStands
  <2> QED BY <2>1, <2>2
<1> QED BY <1>5, <1>7, <1>8, <1>9, <1>10, <1>11, <1>12 DEF IInv

\* The requests die with the server; what was written and not told is strained.
LEMMA DeathKeeps ==
    ASSUME IInv, ServerDiesPlanning
    PROVE  IInv'
<1> USE Markers
<1>1. \A u \in Planners : request'[u] = Null
    BY DEF ServerDiesPlanning
<1>2. \A u \in Planners : \A at : ~RequestAt(u, at)'
    BY <1>1 DEF RequestAt
<1>3. /\ duty' = duty /\ told' = told /\ screen' = screen /\ strained \subseteq strained'
      /\ \A u \in Planners : RequestAt(u, "TELL") => request[u].on \in strained'
    BY DEF ServerDiesPlanning
<1>4. RosterTypeOK'
    BY DEF ServerDiesPlanning, IInv, RosterTypeOK, RequestAt, Request
<1>5. Alone' /\ OfferedIsAllowed' /\ ReadStands' /\ SaysWhatStands'
    BY <1>2 DEF Alone, OfferedIsAllowed, ReadStands, SaysWhatStands, InHand
<1>6. PlanInHand'
    BY <1>1 DEF PlanInHand
<1>7. ToldWhatStands'
    BY <1>3 DEF IInv, ToldWhatStands, IsApproved
<1> QED BY <1>4, <1>5, <1>6, <1>7 DEF IInv

LEMMA FetchKeeps ==
    ASSUME IInv, NEW u \in Planners, FetchWeek(u)
    PROVE  IInv'
<1>1. duty' = duty /\ told' = told /\ request' = request /\ strained' = strained
    BY DEF FetchWeek
<1>2. RosterTypeOK'
    BY DEF FetchWeek, IInv, RosterTypeOK
<1>3. /\ Alone' /\ OfferedIsAllowed' /\ PlanInHand'
      /\ ReadStands' /\ SaysWhatStands' /\ ToldWhatStands'
    BY <1>1, ZenonT(40) DEF IInv, Alone, OfferedIsAllowed, PlanInHand, ReadStands, SaysWhatStands,
        ToldWhatStands, InHand, RequestAt, Allows, IsPending, IsApproved
<1> QED BY <1>2, <1>3 DEF IInv

LEMMA InvNext == IInv /\ [RosterNext]_rosterVars => IInv'
<1> SUFFICES ASSUME IInv, [RosterNext]_rosterVars PROVE IInv'
    OBVIOUS
<1>1. CASE UNCHANGED rosterVars
    BY <1>1, ZenonT(40) DEF rosterVars, IInv, RosterTypeOK, Alone, OfferedIsAllowed, PlanInHand, ReadStands,
        SaysWhatStands, ToldWhatStands, InHand, RequestAt, Allows, IsPending, IsApproved
<1>2. ASSUME NEW u \in Planners, FetchWeek(u) PROVE IInv'
    BY <1>2, FetchKeeps
<1>3. ASSUME NEW u \in Planners, NEW op \in {"UPSERT", "APPROVE", "REMOVE"}, NEW d \in Duties,
             NEW plan \in Plans \cup {Null}, Send(u, op, d, plan)
      PROVE  IInv'
    BY <1>3, SendKeeps
<1>4. ASSUME NEW u \in Planners, ReadDuty(u) PROVE IInv'
    BY <1>4, ReadKeeps
<1>5. ASSUME NEW u \in Planners,
             NothingThere(u) \/ Refuse(u) \/ ApprovalFails(u) \/ AnswerAndRefetch(u)
      PROVE  IInv'
    BY <1>5, LetGoKeeps
<1>6. ASSUME NEW u \in Planners, WritePlan(u) \/ WriteApproval(u) \/ WriteRemoval(u)
      PROVE  IInv'
    BY <1>6, WritesKeep
<1>7. ASSUME NEW u \in Planners, Tell(u) PROVE IInv'
    BY <1>7, TellKeeps
<1>8. CASE ServerDiesPlanning
    BY <1>8, DeathKeeps
<1> QED BY <1>1, <1>2, <1>3, <1>4, <1>5, <1>6, <1>7, <1>8 DEF RosterNext

LEMMA RosterInvariance == RosterSpec => []IInv
BY InvInit, InvNext, PTL DEF RosterSpec

-----------------------------------------------------------------------------

\* Whatever is planned, approved, cleared and lost with the server, duties,
\* screens, requests and notifications are of their types.
THEOREM RosterTypeCorrect == RosterSpec => []RosterTypeOK
<1>1. IInv => RosterTypeOK
    BY DEF IInv
<1> QED BY <1>1, RosterInvariance, PTL

\* upsert, approve, remove and getMine: unless two requests had a day in hand at
\* once or one died between its write and its notification, the employee was
\* last told what his calendar shows.
THEOREM EmployeeToldWhatStands == RosterSpec => []ToldWhatStands
<1>1. IInv => ToldWhatStands
    BY DEF IInv
<1> QED BY <1>1, RosterInvariance, PTL

\* A step that changes an approved duty which is not strained is a write of HR's
\* or ADMIN's, with a note: upsert and remove allow no other of what they read,
\* and approve none at all.
LEMMA LockedStep ==
    ASSUME IInv, RosterNext, NEW d \in Duties \ strained',
           IsApproved(duty[d]), duty'[d] # duty[d]
    PROVE  \E u \in Planners \ Managers :
               /\ RequestAt(u, "WRITE") /\ request'[u] # request[u]
               /\ request[u].on = d /\ request[u].note
<1> USE Markers
<1>1. PICK u \in Planners : WritePlan(u) \/ WriteApproval(u) \/ WriteRemoval(u)
    BY ZenonT(40) DEF RosterNext, FetchWeek, Send, ReadDuty, NothingThere, Refuse, ApprovalFails, Tell,
        AnswerAndRefetch, ServerDiesPlanning
<1>2. PICK row, says : Written(u, row, says)
    BY <1>1 DEF WritePlan, WriteApproval, WriteRemoval
<1>3. RequestAt(u, "WRITE") /\ request[u] \in Request
    BY <1>1 DEF WritePlan, WriteApproval, WriteRemoval, RequestAt, IInv, RosterTypeOK
<1>4. request[u].on = d /\ d \notin strained
    BY <1>2, <1>3 DEF Written, IInv, RosterTypeOK, Request
<1>5. Allows(u, request[u], duty[d])
    BY <1>3, <1>4 DEF IInv, ReadStands
<1>6. IsHrOrAdmin(u) /\ request[u].note
    BY <1>5 DEF Allows, IsPending, IsApproved
<1>7. request'[u].at # "WRITE"
    BY <1>2, <1>3 DEF Written, IInv, RosterTypeOK, Request
<1> QED BY <1>3, <1>4, <1>6, <1>7 DEF IsHrOrAdmin, RequestAt

\* However old the screen it was asked from, an approved duty is changed or
\* cleared only by HR or ADMIN, with a note (upsert, remove).
THEOREM ApprovedStaysLocked == RosterSpec => ApprovedIsLocked
<1>1. IInv /\ [RosterNext]_rosterVars =>
          [\A d \in Duties \ strained' :
              IsApproved(duty[d]) /\ duty'[d] # duty[d] =>
                 \E u \in Planners \ Managers :
                    /\ RequestAt(u, "WRITE") /\ request'[u] # request[u]
                    /\ request[u].on = d /\ request[u].note]_rosterVars
    BY LockedStep
<1> QED BY <1>1, RosterInvariance, PTL DEF RosterSpec, ApprovedIsLocked

\* RosterProgram offers nothing RosterService refuses of the duty it showed.
THEOREM OnlyStaleIsRefused == RosterSpec => RefusedOnlyStale
<1>1. ASSUME IInv, NEW u \in Planners, Refuse(u)
      PROVE  request[u].shown # duty[request[u].on]
    BY <1>1 DEF IInv, OfferedIsAllowed, Refuse
<1>2. IInv /\ [RosterNext]_rosterVars =>
          [\A u \in Planners : Refuse(u) => request[u].shown # duty[request[u].on]]_rosterVars
    BY <1>1
<1> QED BY <1>2, RosterInvariance, PTL DEF RosterSpec, RefusedOnlyStale
=============================================================================
