------------------------------ MODULE DeskProofs ------------------------------
(***************************************************************************)
(* What HR keeps at its desk, for any number of people, categories,        *)
(* requests and years: logins (Accounts), leave policies (LeavePolicies),  *)
(* the balances of the years (LeaveRollover) and the lists a page shows of *)
(* all that (ScreenCache).  With the modules of AttendanceProofs they are  *)
(* the parts of MCDesk, and a behaviour of it is shown to be one of each.  *)
(*                                                                         *)
(* A login follows its employee's role because whoever is between the two  *)
(* writes holds them, and no new login takes an id that a request still    *)
(* holds. An entitled employee has a row because a row is missing only     *)
(* while a request that will write it is under way, or is lost with a      *)
(* request that died or was overtaken. No day is taken twice because of    *)
(* every year, what was used and what was handed on to the next one stay   *)
(* within what was allocated and carried in; the sum over the years then   *)
(* follows year by year.  A list shows what its page changed because every *)
(* hook names the lists of its screen, or Forgotten has them, and what is  *)
(* named is marked until it is fetched.                                    *)
(***************************************************************************)
EXTENDS MCDesk, AttendanceProofs

-----------------------------------------------------------------------------
(* Employees and their logins. *)

\* What a request has read by the time it needs it.
Shaped(s) ==
    s # Null =>
      /\ s.at = "ROW" => s.code # Null
      /\ s.at \in {"FIND", "CREATE", "CONVERT"} => s.role # Null
      /\ s.at = "CONVERT" => s.code # Null /\ s.found # Null /\ s.was # Null

\* The login a request found is its employee's as long as it is there and anybody's.
Held(s, lg) ==
    s # Null /\ s.found # Null /\ lg[s.found] # Null => lg[s.found].of \in {Null, s.of}

HasLogin(e, row, lg) ==
    \E u \in Logins : lg[u] # Null /\ lg[u].of = e /\ lg[u].role = RoleFor(row.role)

\* How far the request of an employee with whom nothing went wrong has come: until it
\* wrote the row his login fits it, from then on it is to fit the role it was given.
Midway(s, row, lg) ==
    s # Null =>
      /\ row # Null
      /\ s.at \in {"ROW", "RESET"} => HasLogin(s.of, row, lg)
      /\ s.at \in {"FIND", "CREATE", "CONVERT"} => s.role = row.role
      /\ s.at \in {"CONVERT", "RESET"} => s.found # Null /\ lg[s.found] # Null /\ lg[s.found].of = s.of
      /\ s.at = "CONVERT" => lg[s.found].role = s.was

\* A login refers to an employee there is.
Linked(st, lg) == \A u \in Logins : lg[u] # Null /\ lg[u].of # Null => st[lg[u].of] # Null

\* Of an employee with whom nothing went wrong there is one request at most.
Lone(e, sv, ok) ==
    e \notin ok => \A q, r \in Requests :
        sv[q] # Null /\ sv[r] # Null /\ sv[q].of = e /\ sv[r].of = e => q = r


AccountInv ==
    /\ AccountTypeOK
    /\ Linked(staff, login)
    /\ \A r \in Requests : Shaped(save[r]) /\ Held(save[r], login)
    /\ \A e \in Employees : Lone(e, save, odd)
    /\ \A e \in Employees \ odd :
          staff[e] # Null /\ (\A r \in Requests : save[r] # Null => save[r].of # e)
             => HasLogin(e, staff[e], login)
    /\ \A r \in Requests : save[r] # Null /\ save[r].of \notin odd
                               => Midway(save[r], staff[save[r].of], login)

LEMMA AccountInitInv == AccountInit => AccountInv
<1> SUFFICES ASSUME AccountInit PROVE AccountInv
    OBVIOUS
<1>1. AccountTypeOK /\ Linked(staff, login)
    BY DEF AccountInit, AccountTypeOK, Linked
<1>2. \A r \in Requests : save[r] = Null
    BY DEF AccountInit
<1>3. \A r \in Requests : Shaped(save[r]) /\ Held(save[r], login)
    BY <1>2 DEF Shaped, Held
<1>4. \A e \in Employees : Lone(e, save, odd) /\ staff[e] = Null
    BY <1>2 DEF Lone, AccountInit
<1> QED BY <1>1, <1>2, <1>3, <1>4 DEF AccountInv

\* A step of a request: it concerns one employee, and leaves the rows of the others.
LEMMA RequestStep ==
    ASSUME AccountInv, NEW r \in Requests, NEW e \in Employees, NEW s \in Save \cup {Null},
           save' = [save EXCEPT ![r] = s], save[r] = Null \/ save[r].of = e, s # Null => s.of = e,
           AccountTypeOK', Linked(staff', login'), Shaped(s), Held(s, login'),
           \A q \in Requests \ {r} : Held(save[q], login'),
           \A f \in Employees \ {e} : staff'[f] = staff[f],
           \A u \in Logins : \/ login'[u] = login[u]
                             \/ /\ login[u] = Null \/ login[u].of \notin Employees \ {e}
                                /\ login'[u] = Null \/ login'[u].of \notin Employees \ {e},
           odd \subseteq odd', odd' \subseteq odd \cup {e},
           \/ e \in odd'
           \/ /\ \A q \in Requests \ {r} : save[q] # Null => save[q].of # e
              /\ s = Null /\ staff'[e] # Null => HasLogin(e, staff'[e], login')
              /\ s # Null => Midway(s, staff'[e], login')
    PROVE  AccountInv'
<1>1. save'[r] = s /\ \A q \in Requests \ {r} : save'[q] = save[q]
    BY DEF AccountInv, AccountTypeOK
<1>2. \A q \in Requests : Shaped(save'[q]) /\ Held(save'[q], login')
    BY <1>1 DEF AccountInv
<1>3. ASSUME NEW f \in Employees \ {e}, NEW row, HasLogin(f, row, login)
      PROVE  HasLogin(f, row, login')
    BY <1>3 DEF HasLogin
<1>4. ASSUME NEW f \in Employees PROVE Lone(f, save', odd')
  <2>1. CASE f = e
      BY <1>1, <2>1 DEF Lone
  <2>2. CASE f # e
    <3>1. Lone(f, save, odd)
        BY DEF AccountInv
    <3>2. \A q \in Requests : save'[q] # Null /\ save'[q].of = f => save[q] # Null /\ save[q].of = f
        BY <1>1, <2>2
    <3> QED BY <2>2, <3>1, <3>2 DEF Lone
  <2> QED BY <2>1, <2>2
<1>5. ASSUME NEW f \in Employees \ odd', staff'[f] # Null,
             \A q \in Requests : save'[q] # Null => save'[q].of # f
      PROVE  HasLogin(f, staff'[f], login')
  <2>1. CASE f = e
      BY <1>1, <1>5, <2>1
  <2>2. CASE f # e
    <3>1. \A q \in Requests : save[q] # Null => save[q].of # f
        BY <1>1, <1>5, <2>2
    <3>2. HasLogin(f, staff[f], login)
        BY <1>5, <2>2, <3>1 DEF AccountInv
    <3> QED BY <1>3, <2>2, <3>2
  <2> QED BY <2>1, <2>2
<1>6. ASSUME NEW q \in Requests, save'[q] # Null, save'[q].of \notin odd'
      PROVE  Midway(save'[q], staff'[save'[q].of], login')
  <2>1. CASE q = r
      BY <1>1, <1>6, <2>1
  <2>2. CASE q # r
    <3> DEFINE j == save[q]
    <3>1. j \in Save /\ j # Null /\ save'[q] = j /\ j.of \in Employees /\ j.of \notin odd
        BY <1>1, <1>6, <2>2 DEF AccountInv, AccountTypeOK, Save
    <3>2. j.of # e
        BY <1>6, <2>2, <3>1
    <3>3. Midway(j, staff[j.of], login)
        BY <3>1 DEF AccountInv
    <3> HIDE DEF j
    <3>4. staff'[j.of] = staff[j.of]
        BY <3>1, <3>2
    <3>5. j.found \in Logins /\ login[j.found] # Null /\ login[j.found].of = j.of
              => login'[j.found] = login[j.found]
        BY <3>1, <3>2
    <3>6. j.found \in Logins \cup {Null}
        BY <3>1 DEF Save
    <3>7. HasLogin(j.of, staff[j.of], login) => HasLogin(j.of, staff[j.of], login')
        BY <1>3, <3>1, <3>2
    <3>8. Midway(j, staff[j.of], login')
        BY <3>3, <3>5, <3>6, <3>7 DEF Midway
    <3> QED BY <3>1, <3>4, <3>8
  <2> QED BY <2>1, <2>2
<1> QED BY <1>2, <1>4, <1>5, <1>6 DEF AccountInv

\* The same, of the parts a step of a request starts from.
LEMMA AccountParts ==
    AccountInv =>
      /\ staff \in [Employees -> StaffRow \cup {Null}] /\ login \in [Logins -> Login \cup {Null}]
      /\ save \in [Requests -> Save \cup {Null}] /\ odd \subseteq Employees
      /\ Linked(staff, login)
BY DEF AccountInv, AccountTypeOK

LEMMA NewSaveFields ==
    ASSUME NEW e \in Employees, NEW role \in EmployeeRoles \cup {Null}, NEW code \in Codes \cup {Null},
           NEW username \in Usernames \cup {Null}, NEW at \in {"ROW", "CREATE", "RESET"}
    PROVE  LET s == NewSave(e, role, code, username, at)
           IN  /\ s \in Save /\ s.of = e /\ s.role = role /\ s.code = code /\ s.at = at
               /\ s.found = Null
BY DEF NewSave, Save

\* A request that begins finds no other of its employee, or they overlap.
LEMMA BeginAlone ==
    ASSUME AccountInv, NEW r \in Requests, NEW s \in Save, Begin(r, s)
    PROVE  /\ save' = [save EXCEPT ![r] = s] /\ save[r] = Null
           /\ odd \subseteq odd' /\ odd' \subseteq odd \cup {s.of} /\ s.of \in Employees
           /\ s.of \in odd' \/ \A q \in Requests : save[q] # Null => save[q].of # s.of
BY DEF Begin, Others, Save

\* One that is under way has no other beside it, or is among the odd ones.
LEMMA UnderWayAlone ==
    ASSUME AccountInv, NEW r \in Requests, save[r] # Null
    PROVE  /\ save[r] \in Save /\ save[r].of \in Employees
           /\ Shaped(save[r]) /\ Held(save[r], login)
           /\ \/ save[r].of \in odd
              \/ /\ \A q \in Requests \ {r} : save[q] # Null => save[q].of # save[r].of
                 /\ Midway(save[r], staff[save[r].of], login)
<1>1. save[r] \in Save /\ Shaped(save[r]) /\ Held(save[r], login)
    BY DEF AccountInv, AccountTypeOK
<1>2. save[r].of \in Employees
    BY <1>1 DEF Save
<1>3. Lone(save[r].of, save, odd)
    BY <1>2 DEF AccountInv
<1>4. save[r].of \notin odd => Midway(save[r], staff[save[r].of], login)
    BY DEF AccountInv
<1> QED BY <1>1, <1>2, <1>3, <1>4 DEF Lone

LEMMA CreateEmployeeInv ==
    ASSUME AccountInv, NEW r \in Requests, NEW e \in Employees, NEW code \in Codes,
           NEW role \in EmployeeRoles, NEW name \in Usernames \cup {Null},
           CreateEmployee(r, e, code, role, name)
    PROVE  AccountInv'
<1> DEFINE s == NewSave(e, role, Null, name, "CREATE")
           row == [code |-> code, role |-> role]
<1>1. staff[e] = Null /\ staff' = [staff EXCEPT ![e] = row] /\ Begin(r, s) /\ login' = login
    BY DEF CreateEmployee
<1>2. s \in Save /\ s.of = e /\ s.role = role /\ s.at = "CREATE" /\ s.found = Null
    BY NewSaveFields
<1>3. row \in StaffRow /\ row.role = role
    BY DEF StaffRow
<1> HIDE DEF s, row
<1>4. row # Null /\ role # Null
    BY <1>3, NullRowsAssumption
<1>5. /\ save' = [save EXCEPT ![r] = s] /\ save[r] = Null
      /\ odd \subseteq odd' /\ odd' \subseteq odd \cup {e}
      /\ e \in odd' \/ \A q \in Requests : save[q] # Null => save[q].of # e
    BY <1>1, <1>2, BeginAlone
<1>6. AccountTypeOK'
    BY <1>1, <1>2, <1>3, <1>5 DEF AccountInv, AccountTypeOK
<1>7. Linked(staff', login') /\ staff'[e] = row /\ \A f \in Employees \ {e} : staff'[f] = staff[f]
    BY <1>1, <1>3, <1>4, AccountParts DEF Linked, Login
<1>8. Shaped(s) /\ Held(s, login') /\ Midway(s, row, login')
    BY <1>2, <1>3, <1>4 DEF Shaped, Held, Midway
<1>9. \A q \in Requests : Held(save[q], login')
    BY <1>1 DEF AccountInv
<1>10. s # Null
    BY <1>2, NullRowsAssumption
<1>11. s \in Save \cup {Null} /\ s.of = e /\ Midway(s, staff'[e], login')
    BY <1>2, <1>7, <1>8
<1>12. \A u \in Logins : login'[u] = login[u]
    BY <1>1
<1> QED BY <1>5, <1>6, <1>7, <1>8, <1>9, <1>10, <1>11, <1>12, RequestStep

LEMMA StartUpdateInv ==
    ASSUME AccountInv, NEW r \in Requests, NEW e \in Employees, NEW code \in Codes,
           NEW role \in EmployeeRoles \cup {Null}, NEW name \in Usernames \cup {Null},
           StartUpdate(r, e, code, role, name)
    PROVE  AccountInv'
<1> DEFINE s == NewSave(e, role, code, name, "ROW")
<1>1. staff[e] # Null /\ Begin(r, s) /\ UNCHANGED <<staff, login>>
    BY DEF StartUpdate
<1>2. s \in Save /\ s.of = e /\ s.code = code /\ s.at = "ROW" /\ s.found = Null
    BY NewSaveFields
<1> HIDE DEF s
<1>3. s # Null /\ code # Null
    BY <1>2, NullRowsAssumption, NamesAssumption
<1>5. /\ save' = [save EXCEPT ![r] = s] /\ save[r] = Null
      /\ odd \subseteq odd' /\ odd' \subseteq odd \cup {e}
      /\ e \in odd' \/ \A q \in Requests : save[q] # Null => save[q].of # e
    BY <1>1, <1>2, BeginAlone
<1>6. AccountTypeOK'
    BY <1>1, <1>2, <1>5 DEF AccountInv, AccountTypeOK
<1>7. Linked(staff', login') /\ \A q \in Requests : Held(save[q], login')
    BY <1>1 DEF AccountInv
<1>8. Shaped(s) /\ Held(s, login')
    BY <1>2, <1>3 DEF Shaped, Held
<1>9. e \in odd' \/ HasLogin(e, staff[e], login)
    BY <1>1, <1>5 DEF AccountInv
<1>10. e \in odd' \/ Midway(s, staff[e], login)
    BY <1>1, <1>2, <1>9 DEF Midway
<1> QED BY <1>1, <1>2, <1>3, <1>5, <1>6, <1>7, <1>8, <1>10, RequestStep

LEMMA FailInv ==
    ASSUME AccountInv, NEW r \in Requests, save[r] # Null, Fail(r)
    PROVE  AccountInv'
<1> DEFINE e == save[r].of
<1>1. save' = [save EXCEPT ![r] = Null] /\ odd' = odd \cup {e} /\ UNCHANGED <<staff, login>>
    BY DEF Fail, Done
<1>2. e \in Employees
    BY UnderWayAlone
<1> HIDE DEF e
<1>3. AccountTypeOK'
    BY <1>1, <1>2 DEF AccountInv, AccountTypeOK
<1>4. Linked(staff', login') /\ \A q \in Requests : Held(save[q], login')
    BY <1>1 DEF AccountInv
<1>5. Shaped(Null) /\ Held(Null, login')
    BY DEF Shaped, Held
<1> QED BY <1>1, <1>2, <1>3, <1>4, <1>5, RequestStep DEF e

LEMMA WriteRowInv ==
    ASSUME AccountInv, NEW r \in Requests, WriteRow(r)
    PROVE  AccountInv'
<1> DEFINE j == save[r]
           e == j.of
           row == [code |-> j.code, role |-> IF j.role = Null THEN staff[e].role ELSE j.role]
           s == IF j.role = Null THEN Null ELSE [j EXCEPT !.at = "FIND", !.code = Null]
<1>1. j # Null /\ j.at = "ROW"
    BY DEF WriteRow, SaveAt
<1>2. CASE Fail(r)
    BY <1>1, <1>2, FailInv
<1>3. CASE ~Fail(r)
  <2>1. /\ staff[e] # Null /\ staff' = [staff EXCEPT ![e] = row]
        /\ save' = [save EXCEPT ![r] = s] /\ UNCHANGED <<login, odd>>
      BY <1>3 DEF WriteRow, Done
  <2>2. /\ j \in Save /\ e \in Employees /\ Shaped(j) /\ Held(j, login)
        /\ \/ e \in odd
           \/ /\ \A q \in Requests \ {r} : save[q] # Null => save[q].of # e
              /\ Midway(j, staff[e], login)
      BY <1>1, UnderWayAlone
  <2> HIDE DEF j
  <2>3. j.code \in Codes /\ j.role \in EmployeeRoles \cup {Null} /\ staff[e] \in StaffRow
      BY <1>1, <2>1, <2>2, AccountParts DEF Save, Shaped
  <2>4. row \in StaffRow /\ row.role = IF j.role = Null THEN staff[e].role ELSE j.role
      BY <2>3 DEF StaffRow
  <2>5. staff'[e] = row /\ \A f \in Employees \ {e} : staff'[f] = staff[f]
      BY <2>1, <2>2, AccountParts
  <2>6. j.role # Null => /\ s \in Save /\ s.at = "FIND" /\ s.of = e /\ s.role = j.role /\ s.found = j.found
      BY <2>2 DEF Save
  <2>7. j.role = Null => s = Null
      OBVIOUS
  <2> HIDE DEF e, row, s
  <2>8. row # Null
      BY <2>4, NullRowsAssumption
  <2>9. AccountTypeOK'
      BY <2>1, <2>2, <2>4, <2>6, <2>7 DEF AccountInv, AccountTypeOK
  <2>10. Linked(staff', login')
      BY <2>1, <2>5, <2>8, AccountParts DEF Linked, Login
  <2>0. j.of = e
      BY DEF e
  <2>11. Shaped(s) /\ Held(s, login')
    <3>1. Shaped(s)
        BY <2>6, <2>7 DEF Shaped
    <3>2. Held(s, login')
        BY <1>1, <2>0, <2>1, <2>2, <2>6, <2>7 DEF Held
    <3> QED BY <3>1, <3>2
  <2>12. \A q \in Requests : Held(save[q], login')
      BY <2>1 DEF AccountInv
  <2>13. e \in odd \/ HasLogin(e, staff[e], login)
      BY <1>1, <2>2 DEF Midway, e
  <2>14. s = Null => (e \in odd \/ HasLogin(e, row, login'))
      BY <2>1, <2>4, <2>6, <2>7, <2>13, NullRowsAssumption DEF HasLogin
  <2>15. s # Null => Midway(s, row, login')
      BY <2>4, <2>6, <2>7, <2>8 DEF Midway
  <2>16. s \in Save \cup {Null} /\ (s # Null => s.of = e)
      BY <2>6, <2>7
  <2>17. /\ \A u \in Logins : login'[u] = login[u]
         /\ save[r] = Null \/ save[r].of = e
      BY <2>0, <2>1 DEF j
  <2>18. \/ e \in odd'
         \/ /\ \A q \in Requests \ {r} : save[q] # Null => save[q].of # e
            /\ s = Null /\ staff'[e] # Null => HasLogin(e, staff'[e], login')
            /\ s # Null => Midway(s, staff'[e], login')
      BY <2>1, <2>2, <2>5, <2>14, <2>15
  <2>19. odd \subseteq odd' /\ odd' \subseteq odd \cup {e} /\ save' = [save EXCEPT ![r] = s]
      BY <2>1
  <2> QED BY <2>2, <2>5, <2>9, <2>10, <2>11, <2>12, <2>16, <2>17, <2>18, <2>19, RequestStep
<1> QED BY <1>2, <1>3

LEMMA FindLoginInv ==
    ASSUME AccountInv, NEW r \in Requests, FindLogin(r)
    PROVE  AccountInv'
<1> DEFINE j == save[r]
           e == j.of
<1>1. j # Null /\ j.at = "FIND"
    BY DEF FindLogin, SaveAt
<1>2. CASE Fail(r)
    BY <1>1, <1>2, FailInv
<1>3. CASE ~Fail(r)
  <2> DEFINE u == CHOOSE u \in LoginsOf(e) : TRUE
             s == IF LoginsOf(e) = {} THEN [j EXCEPT !.at = "CREATE"]
                  ELSE [j EXCEPT !.at = "CONVERT", !.code = staff[e].code, !.found = u, !.was = login[u].role]
  <2>1. staff[e] # Null /\ save' = [save EXCEPT ![r] = s] /\ UNCHANGED <<staff, login, odd>>
      BY <1>3 DEF FindLogin
  <2>2. /\ j \in Save /\ e \in Employees /\ Shaped(j) /\ Held(j, login)
        /\ \/ e \in odd
           \/ /\ \A q \in Requests \ {r} : save[q] # Null => save[q].of # e
              /\ Midway(j, staff[e], login)
      BY <1>1, UnderWayAlone
  <2>3. LoginsOf(e) # {} => u \in Logins /\ login[u] # Null /\ login[u].of = e
    <3>1. LoginsOf(e) # {} => u \in LoginsOf(e)
        OBVIOUS
    <3> HIDE DEF u
    <3> QED BY <3>1 DEF LoginsOf
  <2>0. j.of = e /\ (save[r] = Null \/ save[r].of = e)
      OBVIOUS
  <2> HIDE DEF j, u, e
  <2>4. login[u] # Null /\ u \in Logins => login[u] \in Login /\ login[u].role \in Roles
      BY AccountParts DEF Login
  <2>5. staff[e] \in StaffRow /\ staff[e].code \in Codes
      BY <2>1, <2>2, AccountParts DEF StaffRow
  <2>6. CASE LoginsOf(e) = {}
    <3>1. s \in Save /\ s.at = "CREATE" /\ s.of = e /\ s.role = j.role /\ s.found = j.found
        BY <2>0, <2>2, <2>6 DEF Save
    <3> HIDE DEF s
    <3>2. s # Null
        BY <3>1, NullRowsAssumption
    <3>3. Shaped(s)
        BY <1>1, <2>2, <3>1 DEF Shaped
    <3>4. Held(s, login')
        BY <1>1, <2>0, <2>1, <2>2, <3>1 DEF Held
    <3>5. Midway(j, staff[e], login) => Midway(s, staff'[e], login')
        BY <1>1, <2>1, <3>1 DEF Midway
    <3>6. AccountTypeOK'
        BY <2>1, <3>1 DEF AccountInv, AccountTypeOK
    <3>7. Linked(staff', login') /\ \A q \in Requests : Held(save[q], login')
        BY <2>1 DEF AccountInv
    <3>8. /\ \A v \in Logins : login'[v] = login[v]
          /\ \A f \in Employees : staff'[f] = staff[f]
          /\ odd \subseteq odd' /\ odd' \subseteq odd \cup {e} /\ save' = [save EXCEPT ![r] = s]
        BY <2>1
    <3> QED BY <2>0, <2>1, <2>2, <3>1, <3>2, <3>3, <3>4, <3>5, <3>6, <3>7, <3>8, RequestStep
  <2>7. CASE LoginsOf(e) # {}
    <3>1. s \in Save /\ s.at = "CONVERT" /\ s.of = e /\ s.role = j.role /\ s.found = u
          /\ s.code = staff[e].code /\ s.was = login[u].role
        BY <2>0, <2>2, <2>3, <2>4, <2>5, <2>7 DEF Save
    <3> HIDE DEF s
    <3>2. s # Null /\ u # Null /\ staff[e].code # Null /\ login[u].role # Null
        BY <2>3, <2>4, <2>5, <2>7, <3>1, NullRowsAssumption, NamesAssumption DEF Login
    <3>3. Shaped(s)
        BY <1>1, <2>2, <3>1, <3>2 DEF Shaped
    <3>4. Held(s, login')
        BY <2>1, <2>3, <2>7, <3>1 DEF Held
    <3>5. Midway(j, staff[e], login) => Midway(s, staff'[e], login')
        BY <1>1, <2>1, <2>3, <2>7, <3>1, <3>2 DEF Midway
    <3>6. AccountTypeOK'
        BY <2>1, <3>1 DEF AccountInv, AccountTypeOK
    <3>7. Linked(staff', login') /\ \A q \in Requests : Held(save[q], login')
        BY <2>1 DEF AccountInv
    <3>8. /\ \A v \in Logins : login'[v] = login[v]
          /\ \A f \in Employees : staff'[f] = staff[f]
          /\ odd \subseteq odd' /\ odd' \subseteq odd \cup {e} /\ save' = [save EXCEPT ![r] = s]
        BY <2>1
    <3> QED BY <2>0, <2>1, <2>2, <3>1, <3>2, <3>3, <3>4, <3>5, <3>6, <3>7, <3>8, RequestStep
  <2> QED BY <2>6, <2>7
<1> QED BY <1>2, <1>3

\* A request ends by writing a login, a new one or one of its employee.
LEMMA LoginStep ==
    ASSUME AccountInv, NEW r \in Requests, save[r] # Null, NEW u \in Logins, NEW new \in Login,
           Done(r), login' = [login EXCEPT ![u] = new], UNCHANGED <<staff, odd>>,
           \/ u \in FreeLogins /\ new.of = save[r].of /\ staff[save[r].of] # Null
           \/ login[u] # Null /\ login[u].of \in {Null, save[r].of} /\ new.of = login[u].of,
           \/ save[r].of \in odd
           \/ new.of = save[r].of /\ new.role = RoleFor(staff[save[r].of].role)
           \/ HasLogin(save[r].of, staff[save[r].of], login) /\ login[u] # Null /\ new.role = login[u].role
    PROVE  AccountInv'
<1> DEFINE e == save[r].of
<1>1. e \in Employees
    BY UnderWayAlone
<1>2. e \in odd \/ \A q \in Requests \ {r} : save[q] # Null => save[q].of # e
    BY UnderWayAlone
<1>3. /\ login' \in [Logins -> Login \cup {Null}] /\ login'[u] = new
      /\ \A v \in Logins : v # u => login'[v] = login[v]
    BY AccountParts
<1>4. save' = [save EXCEPT ![r] = Null] /\ staff' = staff /\ odd' = odd
    BY DEF Done
<1>5. new # Null
    BY NullRowsAssumption
<1>6. /\ \/ u \in FreeLogins /\ new.of = e /\ staff[e] # Null
         \/ login[u] # Null /\ login[u].of \in {Null, e} /\ new.of = login[u].of
      /\ \/ e \in odd
         \/ new.of = e /\ new.role = RoleFor(staff[e].role)
         \/ HasLogin(e, staff[e], login) /\ login[u] # Null /\ new.role = login[u].role
      /\ save[r].of = e
    OBVIOUS
<1> HIDE DEF e
<1>7. u \in FreeLogins => login[u] = Null /\ \A q \in Requests : save[q] # Null => save[q].found # u
    BY DEF FreeLogins
<1>8. AccountTypeOK'
    BY <1>3, <1>4 DEF AccountInv, AccountTypeOK
<1>9. Linked(staff', login')
    BY <1>3, <1>4, <1>5, <1>6, AccountParts DEF Linked
<1>10. ASSUME NEW q \in Requests PROVE Held(save[q], login')
  <2>1. Held(save[q], login) /\ save[q] \in Save \cup {Null}
      BY DEF AccountInv, AccountTypeOK
  <2>2. CASE save[q] = Null
      BY <2>2 DEF Held
  <2>3. CASE save[q] # Null
    <3>1. save[q].found \in Logins \cup {Null}
        BY <2>1, <2>3 DEF Save
    <3> QED BY <1>3, <1>6, <1>7, <2>1, <3>1 DEF Held
  <2> QED BY <2>2, <2>3
<1>11. e \in odd \/ HasLogin(e, staff[e], login')
  <2>1. CASE new.of = e /\ new.role = RoleFor(staff[e].role)
      BY <1>3, <1>5, <2>1 DEF HasLogin
  <2>2. CASE HasLogin(e, staff[e], login) /\ login[u] # Null /\ new.role = login[u].role
    <3>1. PICK v \in Logins : login[v] # Null /\ login[v].of = e /\ login[v].role = RoleFor(staff[e].role)
        BY <2>2 DEF HasLogin
    <3>2. CASE v = u
        BY <1>3, <1>5, <1>6, <1>7, <2>2, <3>1, <3>2 DEF HasLogin
    <3>3. CASE v # u
        BY <1>3, <3>1, <3>3 DEF HasLogin
    <3> QED BY <3>2, <3>3
  <2> QED BY <1>6, <2>1, <2>2
<1>12. \A v \in Logins : \/ login'[v] = login[v]
                         \/ /\ login[v] = Null \/ login[v].of \notin Employees \ {e}
                            /\ login'[v] = Null \/ login'[v].of \notin Employees \ {e}
  <2>1. login[u] = Null \/ login[u].of \notin Employees \ {e}
      BY <1>6, <1>7, NamesAssumption
  <2>2. new.of \notin Employees \ {e}
      BY <1>6, NamesAssumption
  <2> QED BY <1>3, <2>1, <2>2
<1>13. Shaped(Null) /\ Held(Null, login')
    BY DEF Shaped, Held
<1>14. \/ e \in odd'
       \/ /\ \A q \in Requests \ {r} : save[q] # Null => save[q].of # e
          /\ HasLogin(e, staff'[e], login')
    BY <1>2, <1>4, <1>11
<1>15. /\ \A f \in Employees : staff'[f] = staff[f]
       /\ odd \subseteq odd' /\ odd' \subseteq odd \cup {e}
    BY <1>4
<1> QED BY <1>1, <1>4, <1>6, <1>8, <1>9, <1>10, <1>12, <1>13, <1>14, <1>15, RequestStep, ZenonT(40)

\* A role of an employee and a new login are of their types.
LEMMA RoleForType == \A role \in EmployeeRoles : RoleFor(role) \in Roles
BY DEF RoleFor, EmployeeRoles, Roles

LEMMA NewLoginFields ==
    ASSUME NEW e \in Employees, staff[e] \in StaffRow, NEW role \in Roles, NEW username \in Usernames \cup {Null},
           role = "ADMIN" => username # Null
    PROVE  LET l == NewLogin(e, role, username)
           IN  l \in Login /\ l.of = e /\ l.role = role
BY DEF NewLogin, Login, StaffRow

LEMMA CreateLoginInv ==
    ASSUME AccountInv, NEW r \in Requests, CreateLogin(r)
    PROVE  AccountInv'
<1> DEFINE j == save[r]
           e == j.of
           u == FreeLogin
           role == RoleFor(j.role)
           new == NewLogin(e, role, j.username)
<1>1. j # Null /\ j.at = "CREATE" /\ FreeLogins # {}
    BY DEF CreateLogin, SaveAt
<1>2. CASE Fail(r)
    BY <1>1, <1>2, FailInv
<1>3. CASE ~Fail(r)
  <2>1. /\ staff[e] # Null /\ (role = "ADMIN" => j.username # Null)
        /\ login' = [login EXCEPT ![u] = new] /\ Done(r) /\ UNCHANGED <<staff, odd>>
      BY <1>3 DEF CreateLogin
  <2>2. /\ j \in Save /\ e \in Employees /\ Shaped(j)
        /\ e \in odd \/ Midway(j, staff[e], login)
      BY <1>1, UnderWayAlone
  <2>3. u \in FreeLogins
      BY <1>1 DEF FreeLogin
  <2>4. u \in Logins
      BY <2>3 DEF FreeLogins
  <2>5. j.username \in Usernames \cup {Null} /\ j.role \in EmployeeRoles
      BY <1>1, <2>2 DEF Save, Shaped
  <2>6. role \in Roles /\ staff[e] \in StaffRow
      BY <2>1, <2>2, <2>5, RoleForType, AccountParts
  <2>7. e \in odd \/ j.role = staff[e].role
      BY <1>1, <2>2 DEF Midway
  <2> HIDE DEF u
  <2>8. new \in Login /\ new.of = e /\ new.role = role
    <3> HIDE DEF j, e, role
    <3>1. \A n \in Usernames \cup {Null} : (role = "ADMIN" => n # Null) =>
             /\ NewLogin(e, role, n) \in Login /\ NewLogin(e, role, n).of = e
             /\ NewLogin(e, role, n).role = role
        BY <2>2, <2>6, NewLoginFields
    <3> QED BY <2>1, <2>5, <3>1
  <2>9. e \in odd \/ new.role = RoleFor(staff[e].role)
      BY <2>7, <2>8
  <2> HIDE DEF new
  <2> QED BY <1>1, <2>1, <2>3, <2>4, <2>8, <2>9, LoginStep
<1> QED BY <1>2, <1>3

\* What a login is converted to: of the employee it was of, and of the role asked for.
LEMMA ConvertedFields ==
    ASSUME NEW l \in Login, NEW was \in Roles, NEW role \in Roles, NEW code \in Codes,
           NEW username \in Usernames \cup {Null},
           ~(role = "ADMIN" /\ was # "ADMIN" /\ username = Null)
    PROVE  /\ Converted(l, was, role, code, username) \in Login
           /\ Converted(l, was, role, code, username).of = l.of
           /\ l.role = was => Converted(l, was, role, code, username).role = role
<1>1. CASE role = "ADMIN" /\ username # Null
    BY <1>1 DEF Converted, Login, Roles
<1>2. CASE role = "ADMIN" /\ username = Null
    BY <1>2 DEF Converted, Login, Roles
<1>3. CASE role # "ADMIN" /\ was = "ADMIN"
    BY <1>3 DEF Converted, Login, Roles
<1>4. CASE role # "ADMIN" /\ was # "ADMIN"
    BY <1>4 DEF Converted, Login, Roles
<1> QED BY <1>1, <1>2, <1>3, <1>4

LEMMA ConvertLoginInv ==
    ASSUME AccountInv, NEW r \in Requests, ConvertLogin(r)
    PROVE  AccountInv'
<1> DEFINE j == save[r]
           e == j.of
           u == j.found
           role == RoleFor(j.role)
           new == Converted(login[u], j.was, role, j.code, j.username)
<1>1. j # Null /\ j.at = "CONVERT"
    BY DEF ConvertLogin, SaveAt
<1>2. CASE Fail(r)
    BY <1>1, <1>2, FailInv
<1>3. CASE ~Fail(r)
  <2>1. /\ login[u] # Null /\ ~(role = "ADMIN" /\ j.was # "ADMIN" /\ j.username = Null)
        /\ login' = [login EXCEPT ![u] = new] /\ Done(r) /\ UNCHANGED <<staff, odd>>
      BY <1>3 DEF ConvertLogin
  <2>2. /\ j \in Save /\ e \in Employees /\ Shaped(j) /\ Held(j, login)
        /\ e \in odd \/ Midway(j, staff[e], login)
      BY <1>1, UnderWayAlone
  <2>3. /\ u \in Logins /\ j.was \in Roles /\ j.role \in EmployeeRoles /\ j.code \in Codes
        /\ j.username \in Usernames \cup {Null} /\ role \in Roles
      BY <1>1, <2>2, RoleForType DEF Save, Shaped
  <2>4. login[u] \in Login
      BY <2>1, <2>3, AccountParts
  <2>5. login[u].of \in {Null, e}
      BY <1>1, <2>1, <2>2, <2>3, NamesAssumption DEF Held
  <2>6. e \in odd \/ (j.role = staff[e].role /\ login[u].of = e /\ login[u].role = j.was)
      BY <1>1, <2>2 DEF Midway
  <2>7. /\ new \in Login /\ new.of = login[u].of
        /\ login[u].role = j.was => new.role = role
    <3> HIDE DEF j, role, u
    <3> QED BY <2>1, <2>3, <2>4, ConvertedFields
  <2> HIDE DEF new, u
  <2>8. e \in odd \/ (new.of = e /\ new.role = RoleFor(staff[e].role))
      BY <2>6, <2>7
  <2>9. \/ e \in odd
        \/ new.of = save[r].of /\ new.role = RoleFor(staff[save[r].of].role)
      BY <2>8
  <2> HIDE DEF role
  <2> QED BY <1>1, <2>1, <2>3, <2>5, <2>7, <2>9, LoginStep
<1> QED BY <1>2, <1>3

LEMMA StartResetInv ==
    ASSUME AccountInv, NEW r \in Requests, NEW e \in Employees, StartReset(r, e)
    PROVE  AccountInv'
<1> DEFINE j == NewSave(e, Null, Null, Null, "RESET")
           found == IF LoginsOf(e) = {} THEN Null ELSE CHOOSE u \in LoginsOf(e) : TRUE
           s == [j EXCEPT !.found = found]
<1>1. staff[e] # Null /\ Begin(r, s) /\ UNCHANGED <<staff, login>>
    BY DEF StartReset
<1>2. found = Null \/ (found \in Logins /\ login[found] # Null /\ login[found].of = e)
    BY DEF LoginsOf
<1>3. LoginsOf(e) # {} => found \in LoginsOf(e)
    OBVIOUS
<1> HIDE DEF found
<1>4. j \in Save /\ j.of = e /\ j.at = "RESET"
    BY DEF NewSave, Save
<1> HIDE DEF j
<1>5. s \in Save /\ s.of = e /\ s.at = "RESET" /\ s.found = found
    BY <1>2, <1>4 DEF Save
<1> HIDE DEF s
<1>6. s # Null
    BY <1>5, NullRowsAssumption
<1>7. /\ save' = [save EXCEPT ![r] = s] /\ save[r] = Null
      /\ odd \subseteq odd' /\ odd' \subseteq odd \cup {e}
      /\ e \in odd' \/ \A q \in Requests : save[q] # Null => save[q].of # e
    BY <1>1, <1>5, BeginAlone
<1>8. AccountTypeOK'
    BY <1>1, <1>5, <1>7 DEF AccountInv, AccountTypeOK
<1>9. Linked(staff', login') /\ \A q \in Requests : Held(save[q], login')
    BY <1>1 DEF AccountInv
<1>10. Shaped(s) /\ Held(s, login')
    BY <1>1, <1>2, <1>5 DEF Shaped, Held
<1>11. e \in odd' \/ HasLogin(e, staff[e], login)
    BY <1>1, <1>7 DEF AccountInv
<1>12. HasLogin(e, staff[e], login) => found # Null
    BY <1>3, NamesAssumption DEF HasLogin, LoginsOf
<1>13. e \in odd' \/ Midway(s, staff[e], login)
    BY <1>1, <1>2, <1>5, <1>11, <1>12 DEF Midway
<1> QED BY <1>1, <1>5, <1>6, <1>7, <1>8, <1>9, <1>10, <1>13, RequestStep

LEMMA ResetPasswordInv ==
    ASSUME AccountInv, NEW r \in Requests, ResetPassword(r)
    PROVE  AccountInv'
<1> DEFINE j == save[r]
           e == j.of
           u == j.found
           new == [login[u] EXCEPT !.password = "CHOSEN", !.must = TRUE]
<1>1. j # Null /\ j.at = "RESET" /\ u # Null
    BY DEF ResetPassword, SaveAt
<1>2. CASE Fail(r)
    BY <1>1, <1>2, FailInv
<1>3. CASE ~Fail(r)
  <2>1. login[u] # Null /\ Done(r) /\ UNCHANGED <<staff, odd>>
      BY <1>3 DEF ResetPassword
  <2>2. /\ j \in Save /\ e \in Employees /\ Held(j, login)
        /\ e \in odd \/ Midway(j, staff[e], login)
      BY <1>1, UnderWayAlone
  <2>3. u \in Logins
      BY <1>1, <2>2 DEF Save
  <2>4. login[u] \in Login /\ login[u].of \in {Null, e}
      BY <1>1, <2>1, <2>2, <2>3, AccountParts DEF Held
  <2>5. e \in odd \/ HasLogin(e, staff[e], login)
      BY <1>1, <2>2 DEF Midway
  <2>6. login' = [login EXCEPT ![u] = new]
      BY <1>3, <2>3, AccountParts DEF ResetPassword
  <2>7. new \in Login /\ new.of = login[u].of /\ new.role = login[u].role
      BY <2>4 DEF Login
  <2> HIDE DEF new
  <2> QED BY <1>1, <2>1, <2>3, <2>4, <2>5, <2>6, <2>7, LoginStep
<1> QED BY <1>2, <1>3

LEMMA ResetCreatesInv ==
    ASSUME AccountInv, NEW r \in Requests, ResetCreates(r)
    PROVE  AccountInv'
<1> DEFINE j == save[r]
           e == j.of
           u == FreeLogin
           l == NewLogin(e, "EMPLOYEE", Null)
           new == [l EXCEPT !.password = "CHOSEN"]
<1>1. j # Null /\ j.at = "RESET" /\ j.found = Null /\ FreeLogins # {}
    BY DEF ResetCreates, SaveAt
<1>2. CASE Fail(r)
    BY <1>1, <1>2, FailInv
<1>3. CASE ~Fail(r)
  <2>1. /\ staff[e] # Null
        /\ login' = [login EXCEPT ![u] = new] /\ Done(r) /\ UNCHANGED <<staff, odd>>
      BY <1>3 DEF ResetCreates
  <2>2. /\ j \in Save /\ e \in Employees
        /\ e \in odd \/ Midway(j, staff[e], login)
      BY <1>1, UnderWayAlone
  <2>3. u \in FreeLogins
      BY <1>1 DEF FreeLogin
  <2>4. u \in Logins
      BY <2>3 DEF FreeLogins
  <2>5. e \in odd
      BY <1>1, <2>2 DEF Midway
  <2>6. staff[e] \in StaffRow
      BY <2>1, <2>2, AccountParts
  <2> HIDE DEF u
  <2>7. l \in Login /\ l.of = e
      BY <2>2, <2>6 DEF NewLogin, Login, StaffRow, Roles
  <2> HIDE DEF l
  <2>8. new \in Login /\ new.of = e
      BY <2>7 DEF Login
  <2> HIDE DEF new
  <2> QED BY <1>1, <2>1, <2>3, <2>4, <2>5, <2>8, LoginStep
<1> QED BY <1>2, <1>3

-----------------------------------------------------------------------------
(* What happens to an employee's rows beside the requests. *)

\* A login changes, or goes, without a request: its employee is an odd one from then
\* on, unless it keeps its role.
LEMMA ChangedLoginStep ==
    ASSUME AccountInv, NEW u \in Logins, NEW new \in Login \cup {Null}, login[u] # Null,
           login' = [login EXCEPT ![u] = new], UNCHANGED <<staff, save>>,
           new # Null => new.of = login[u].of,
           \/ odd' = odd /\ new # Null /\ new.role = login[u].role
           \/ odd' = odd \cup ({login[u].of} \ {Null})
    PROVE  AccountInv'
<1>1. /\ login' \in [Logins -> Login \cup {Null}] /\ login'[u] = new
      /\ \A v \in Logins : v # u => login'[v] = login[v]
    BY AccountParts
<1>2. login[u] \in Login /\ login[u].of \in Employees \cup {Null}
    BY AccountParts DEF Login
<1>3. AccountTypeOK'
    BY <1>1, <1>2 DEF AccountInv, AccountTypeOK
<1>4. Linked(staff', login')
    BY <1>1, AccountParts DEF Linked
<1>5. ASSUME NEW r \in Requests PROVE Shaped(save'[r]) /\ Held(save'[r], login')
  <2>1. Shaped(save[r]) /\ Held(save[r], login) /\ save[r] \in Save \cup {Null}
      BY DEF AccountInv, AccountTypeOK
  <2>2. save[r] # Null => save[r].found \in Logins \cup {Null}
      BY <2>1 DEF Save
  <2> QED BY <1>1, <2>1, <2>2 DEF Held
<1>6. odd \subseteq odd'
    OBVIOUS
<1>7. \A e \in Employees : Lone(e, save', odd')
    BY <1>6 DEF AccountInv, Lone
<1>8. ASSUME NEW e \in Employees \ odd', NEW row, HasLogin(e, row, login)
      PROVE  HasLogin(e, row, login')
  <2>1. PICK v \in Logins : login[v] # Null /\ login[v].of = e /\ login[v].role = RoleFor(row.role)
      BY <1>8 DEF HasLogin
  <2>2. CASE v = u
      BY <1>1, <2>1, <2>2, NamesAssumption DEF HasLogin
  <2>3. CASE v # u
      BY <1>1, <2>1, <2>3 DEF HasLogin
  <2> QED BY <2>2, <2>3
<1>9. ASSUME NEW e \in Employees \ odd', staff[e] # Null,
             \A r \in Requests : save[r] # Null => save[r].of # e
      PROVE  HasLogin(e, staff[e], login')
  <2>1. HasLogin(e, staff[e], login)
      BY <1>6, <1>9 DEF AccountInv
  <2> QED BY <1>8, <2>1
<1>10. ASSUME NEW r \in Requests, save[r] # Null, save[r].of \notin odd'
       PROVE  Midway(save[r], staff[save[r].of], login')
  <2> DEFINE j == save[r]
  <2>1. j \in Save /\ j.of \in Employees \ odd' /\ j.of \notin odd
      BY <1>6, <1>10 DEF AccountInv, AccountTypeOK, Save
  <2>2. Midway(j, staff[j.of], login)
      BY <1>10, <2>1 DEF AccountInv
  <2> HIDE DEF j
  <2>3. HasLogin(j.of, staff[j.of], login) => HasLogin(j.of, staff[j.of], login')
      BY <1>8, <2>1
  <2>4. j.found \in Logins \cup {Null}
      BY <2>1 DEF Save
  <2>5. j.found \in Logins /\ login[j.found] # Null /\ login[j.found].of = j.of
           => login'[j.found] # Null /\ login'[j.found].of = j.of /\ login'[j.found].role = login[j.found].role
      BY <1>1, <2>1, NamesAssumption
  <2>6. Midway(j, staff[j.of], login')
      BY <2>2, <2>3, <2>4, <2>5 DEF Midway
  <2> QED BY <2>6 DEF j
<1>11. (\A e \in Employees \ odd :
          staff[e] # Null /\ (\A r \in Requests : save[r] # Null => save[r].of # e)
             => HasLogin(e, staff[e], login))'
    BY <1>9
<1>12. (\A r \in Requests : save[r] # Null /\ save[r].of \notin odd
                               => Midway(save[r], staff[save[r].of], login))'
    BY <1>10
<1> QED BY <1>3, <1>4, <1>5, <1>7, <1>11, <1>12 DEF AccountInv

LEMMA OwnLoginInv ==
    ASSUME AccountInv, NEW u \in Logins,
           ChangePassword(u) \/ RemoveLogin(u) \/ \E role \in Edits : EditLogin(u, role)
    PROVE  AccountInv'
<1>1. login[u] # Null
    BY DEF ChangePassword, RemoveLogin, EditLogin
<1>2. login[u] \in Login
    BY <1>1, AccountParts
<1>3. CASE ChangePassword(u)
  <2> DEFINE new == [login[u] EXCEPT !.password = "CHOSEN", !.must = FALSE]
  <2>1. login' = [login EXCEPT ![u] = new] /\ UNCHANGED <<staff, save>> /\ odd' = odd
      BY <1>3, AccountParts DEF ChangePassword
  <2>2. new \in Login /\ new.of = login[u].of /\ new.role = login[u].role
      BY <1>2 DEF Login
  <2> HIDE DEF new
  <2>3. new # Null
      BY <2>2, NullRowsAssumption
  <2> QED BY <1>1, <2>1, <2>2, <2>3, ChangedLoginStep
<1>4. CASE RemoveLogin(u)
    BY <1>1, <1>4, ChangedLoginStep DEF RemoveLogin
<1>5. ASSUME NEW role \in Edits, EditLogin(u, role) PROVE AccountInv'
  <2> DEFINE new == [login[u] EXCEPT !.role = role]
  <2>1. login' = [login EXCEPT ![u] = new] /\ UNCHANGED <<staff, save>>
        /\ odd' = odd \cup ({login[u].of} \ {Null})
      BY <1>5, AccountParts DEF EditLogin
  <2>2. new \in Login /\ new.of = login[u].of
      BY <1>2, NamesAssumption DEF Login, Roles
  <2> HIDE DEF new
  <2> QED BY <1>1, <2>1, <2>2, ChangedLoginStep
<1> QED BY <1>3, <1>4, <1>5

LEMMA RemoveEmployeeInv ==
    ASSUME AccountInv, NEW e \in Employees, RemoveEmployee(e)
    PROVE  AccountInv'
<1>1. /\ staff[e] # Null /\ staff' = [staff EXCEPT ![e] = Null] /\ save' = save
      /\ login' = [u \in Logins |-> IF u \in LoginsOf(e) THEN [login[u] EXCEPT !.of = Null] ELSE login[u]]
      /\ odd' = IF \E r \in Requests : save[r] # Null /\ save[r].of = e THEN odd \cup {e} ELSE odd \ {e}
    BY DEF RemoveEmployee
<1>2. ASSUME NEW u \in Logins, login[u] # Null, login[u].of = e
      PROVE  login'[u] \in Login /\ login'[u].of = Null
  <2>1. login'[u] = [login[u] EXCEPT !.of = Null] /\ login[u] \in Login
      BY <1>1, <1>2, AccountParts DEF LoginsOf
  <2> QED BY <2>1 DEF Login
<1>3. \A u \in Logins : login[u] = Null \/ login[u].of # e => login'[u] = login[u]
    BY <1>1 DEF LoginsOf
<1>4. login' \in [Logins -> Login \cup {Null}]
  <2>1. \A u \in Logins : login'[u] \in Login \cup {Null}
      BY <1>2, <1>3, AccountParts
  <2>2. login' = [u \in Logins |-> login'[u]]
      BY <1>1
  <2> QED BY <2>1, <2>2
<1>5. staff'[e] = Null /\ \A f \in Employees : f # e => staff'[f] = staff[f]
    BY <1>1, AccountParts
<1>6. AccountTypeOK'
    BY <1>1, <1>4 DEF AccountInv, AccountTypeOK
<1>7. Linked(staff', login')
    BY <1>2, <1>3, <1>5, AccountParts DEF Linked, Login
<1>8. ASSUME NEW r \in Requests PROVE Shaped(save'[r]) /\ Held(save'[r], login')
  <2>1. Shaped(save[r]) /\ Held(save[r], login) /\ save[r] \in Save \cup {Null}
      BY DEF AccountInv, AccountTypeOK
  <2>2. save[r] # Null => save[r].found \in Logins \cup {Null}
      BY <2>1 DEF Save
  <2> QED BY <1>1, <1>2, <1>3, <2>1, <2>2 DEF Held
<1>9. \A f \in Employees : Lone(f, save', odd')
    BY <1>1 DEF AccountInv, Lone
<1>10. ASSUME NEW f \in Employees, f # e, NEW row, HasLogin(f, row, login)
       PROVE  HasLogin(f, row, login')
    BY <1>3, <1>10 DEF HasLogin
<1>11. ASSUME NEW f \in Employees \ odd', staff'[f] # Null,
              \A r \in Requests : save[r] # Null => save[r].of # f
       PROVE  HasLogin(f, staff'[f], login')
  <2>1. f # e /\ f \notin odd
      BY <1>1, <1>5, <1>11
  <2>2. HasLogin(f, staff[f], login)
      BY <1>5, <1>11, <2>1 DEF AccountInv
  <2> QED BY <1>5, <1>10, <2>1, <2>2
<1>12. ASSUME NEW r \in Requests, save[r] # Null, save[r].of \notin odd'
       PROVE  Midway(save[r], staff'[save[r].of], login')
  <2> DEFINE j == save[r]
  <2>1. j \in Save /\ j.of \in Employees /\ j.of # e /\ j.of \notin odd
      BY <1>1, <1>12 DEF AccountInv, AccountTypeOK, Save
  <2>2. Midway(j, staff[j.of], login)
      BY <1>12, <2>1 DEF AccountInv
  <2> HIDE DEF j
  <2>3. HasLogin(j.of, staff[j.of], login) => HasLogin(j.of, staff[j.of], login')
      BY <1>10, <2>1
  <2>4. j.found \in Logins \cup {Null}
      BY <2>1 DEF Save
  <2>5. j.found \in Logins /\ login[j.found] # Null /\ login[j.found].of = j.of
           => login'[j.found] = login[j.found]
      BY <1>3, <2>1
  <2>6. Midway(j, staff[j.of], login')
      BY <2>2, <2>3, <2>4, <2>5 DEF Midway
  <2>7. staff'[j.of] = staff[j.of]
      BY <1>5, <2>1
  <2> QED BY <2>6, <2>7 DEF j
<1>13. (\A f \in Employees \ odd :
          staff[f] # Null /\ (\A r \in Requests : save[r] # Null => save[r].of # f)
             => HasLogin(f, staff[f], login))'
    BY <1>1, <1>11
<1>14. (\A r \in Requests : save[r] # Null /\ save[r].of \notin odd
                               => Midway(save[r], staff[save[r].of], login))'
    BY <1>1, <1>12
<1> QED BY <1>6, <1>7, <1>8, <1>9, <1>13, <1>14 DEF AccountInv

LEMMA ServerDiesSavingInv ==
    ASSUME AccountInv, ServerDiesSaving
    PROVE  AccountInv'
<1>1. /\ save' = [r \in Requests |-> Null] /\ UNCHANGED <<staff, login>>
      /\ odd' = odd \cup {save[r].of : r \in {q \in Requests : save[q] # Null}}
    BY DEF ServerDiesSaving
<1>2. \A r \in Requests : save[r] # Null => save[r].of \in Employees /\ save[r].of \in odd'
    BY <1>1, UnderWayAlone
<1>3. odd \subseteq odd' /\ odd' \subseteq Employees
    BY <1>1, <1>2, AccountParts
<1>4. \A r \in Requests : save'[r] = Null
    BY <1>1
<1>5. AccountTypeOK' /\ Linked(staff', login')
    BY <1>1, <1>3 DEF AccountInv, AccountTypeOK
<1>6. \A r \in Requests : Shaped(save'[r]) /\ Held(save'[r], login')
    BY <1>4 DEF Shaped, Held
<1>7. \A e \in Employees : Lone(e, save', odd')
    BY <1>4 DEF Lone
<1>8. ASSUME NEW e \in Employees \ odd', staff[e] # Null
      PROVE  HasLogin(e, staff[e], login)
    BY <1>2, <1>3, <1>8 DEF AccountInv
<1>9. (\A e \in Employees \ odd :
          staff[e] # Null /\ (\A r \in Requests : save[r] # Null => save[r].of # e)
             => HasLogin(e, staff[e], login))'
    BY <1>1, <1>8
<1>10. (\A r \in Requests : save[r] # Null /\ save[r].of \notin odd
                               => Midway(save[r], staff[save[r].of], login))'
    BY <1>4
<1> QED BY <1>5, <1>6, <1>7, <1>9, <1>10 DEF AccountInv

LEMMA AccountStepInv == AccountInv /\ [AccountNext]_accountVars => AccountInv'
<1> SUFFICES ASSUME AccountInv, [AccountNext]_accountVars PROVE AccountInv'
    OBVIOUS
<1>1. Savers \subseteq Requests /\ Resetters \subseteq Requests
    BY DEF Requests
<1>2. ASSUME NEW r \in Savers, NEW e \in Employees, NEW code \in Codes, NEW name \in Usernames \cup {Null},
             NEW role \in EmployeeRoles, CreateEmployee(r, e, code, role, name)
      PROVE  AccountInv'
    BY <1>1, <1>2, CreateEmployeeInv
<1>3. ASSUME NEW r \in Savers, NEW e \in Employees, NEW code \in Codes, NEW name \in Usernames \cup {Null},
             NEW role \in EmployeeRoles \cup {Null}, StartUpdate(r, e, code, role, name)
      PROVE  AccountInv'
    BY <1>1, <1>3, StartUpdateInv
<1>4. ASSUME NEW r \in Savers, WriteRow(r) \/ FindLogin(r) \/ CreateLogin(r) \/ ConvertLogin(r)
      PROVE  AccountInv'
    BY <1>1, <1>4, WriteRowInv, FindLoginInv, CreateLoginInv, ConvertLoginInv
<1>5. ASSUME NEW r \in Resetters,
             (\E e \in Employees : StartReset(r, e)) \/ ResetPassword(r) \/ ResetCreates(r)
      PROVE  AccountInv'
    BY <1>1, <1>5, StartResetInv, ResetPasswordInv, ResetCreatesInv
<1>6. ASSUME NEW e \in Employees, RemoveEmployee(e) PROVE AccountInv'
    BY <1>6, RemoveEmployeeInv
<1>7. ASSUME NEW u \in Logins,
             ChangePassword(u) \/ RemoveLogin(u) \/ \E role \in Edits : EditLogin(u, role)
      PROVE  AccountInv'
    BY <1>7, OwnLoginInv
<1>8. CASE ServerDiesSaving
    BY <1>8, ServerDiesSavingInv
<1>9. CASE UNCHANGED accountVars
  <2>1. UNCHANGED <<staff, login, save, odd>>
      BY <1>9 DEF accountVars
  <2> QED BY <2>1 DEF AccountInv, AccountTypeOK
<1> QED BY <1>2, <1>3, <1>4, <1>5, <1>6, <1>7, <1>8, <1>9 DEF AccountNext

LEMMA AccountInvariant == AccountSpec => []AccountInv
<1> QED BY AccountInitInv, AccountStepInv, PTL DEF AccountSpec

\* EmployeesService, UsersService and AuthService leave rows, logins and the requests
\* that save them of their types.
THEOREM AccountsTypeCorrect == AccountSpec => []AccountTypeOK
<1>1. AccountInv => AccountTypeOK
    BY DEF AccountInv
<1> QED BY <1>1, AccountInvariant, PTL

\* syncLoginForEmployeeRole: an employee nobody is saving has a login of the role his
\* Employee Role stands for, unless a request of his failed, died or was overlapped.
THEOREM LoginsFollowRoles == AccountSpec => []LoginFollowsRole
<1>1. AccountInv => LoginFollowsRole
    BY DEF AccountInv, LoginFollowsRole, Saving, HasLogin, LoginsOf
<1> QED BY <1>1, AccountInvariant, PTL

-----------------------------------------------------------------------------
(* Policies, categories and the rows they entitle to. *)

\* What the rows, requests and leave types refer to is there.
Known == {t \in Types : offered[t] # Null}

Fits(j, known) ==
    j # Null =>
      /\ j.at \in {"FIND_TYPE", "CREATE_TYPE", "FIND_POLICY", "CREATE_POLICY", "WRITE_EMPLOYEE"}
            => j.of \in Categories
      /\ j.at \in {"FIND_POLICY", "CREATE_POLICY", "READ_STAFF", "READ_POLICIES", "CREATE_BALANCE"}
            => j.kinds \subseteq known
      /\ j.at \in {"FIND_TYPE", "CREATE_TYPE"} => \E t \in Types : j.kinds = {t}
      /\ j.todo \subseteq People \X known

\* A request that is going to look at a row: one that has read the employees goes
\* by the category it read, so what it will look at is sure only while that is his.
Sure(j, cat, p, t) ==
    /\ j # Null
    /\ \/ j.at \in {"READ_TYPES", "READ_STAFF"} /\ p \in j.who /\ t \in j.kinds
       \/ j.at = "READ_POLICIES" /\ p \in j.who /\ t \in j.kinds /\ j.staff[p] = cat[p]
       \/ j.at \in {"FIND_BALANCE", "CREATE_BALANCE"} /\ <<p, t>> \in j.todo

Minded(p, t, rs, ms, ask, cat) ==
    \/ <<p, t>> \in rs \cup ms
    \/ \E d \in Desks : Sure(ask[d], cat, p, t)

Granted(p, t, off, cat, pol) == off[t] = TRUE /\ <<cat[p], t>> \in pol

PolicyInv ==
    /\ PolicyTypeOK
    /\ \A d \in Desks : Fits(asking[d], Known)
    /\ \A p \in People, t \in Types :
          Granted(p, t, offered, category, policies) => Minded(p, t, rows, missed, asking, category)

-----------------------------------------------------------------------------


Steps == {"FIND_TYPE", "CREATE_TYPE", "FIND_POLICY", "CREATE_POLICY", "WRITE_EMPLOYEE",
          "READ_TYPES", "READ_STAFF", "READ_POLICIES", "FIND_BALANCE", "CREATE_BALANCE"}

\* A request is built with fields of their types.
LEMMA NewAskType ==
    ASSUME NEW at \in Steps, NEW who \in SUBSET People, NEW kinds \in SUBSET Types,
           NEW of \in Categories \cup {Null}
    PROVE  NewAsk(at, who, kinds, of) \in Ask
<1>1. Nobody \in [People -> Categories \cup {Null}]
    BY DEF Nobody
<1> QED BY <1>1 DEF NewAsk, Ask, Steps

\* A change of one request keeps what the others are sure to look at.
LEMMA OthersMind ==
    ASSUME NEW ask \in [Desks -> Ask \cup {Null}], NEW d \in Desks, NEW s,
           NEW cat, NEW cat2, NEW p \in People, NEW t \in Types, cat2[p] = cat[p],
           NEW rs, NEW ms, NEW rs2, NEW ms2, rs \subseteq rs2, ms \subseteq ms2 \cup rs2,
           Minded(p, t, rs, ms, ask, cat), ~Sure(ask[d], cat, p, t)
    PROVE  Minded(p, t, rs2, ms2, [ask EXCEPT ![d] = s], cat2)
<1> DEFINE ask2 == [ask EXCEPT ![d] = s]
<1>1. CASE <<p, t>> \in rs \cup ms
    BY <1>1 DEF Minded
<1>2. ASSUME NEW q \in Desks, Sure(ask[q], cat, p, t)
      PROVE  Minded(p, t, rs2, ms2, ask2, cat2)
  <2>1. q # d
      BY <1>2
  <2>2. ask2[q] = ask[q]
      BY <2>1
  <2> HIDE DEF ask2
  <2>3. Sure(ask2[q], cat2, p, t)
      BY <1>2, <2>2 DEF Sure
  <2> QED BY <2>3 DEF Minded
<1> QED BY <1>1, <1>2 DEF Minded

LEMMA PolicyInitInv == PolicyInit => PolicyInv
<1> SUFFICES ASSUME PolicyInit PROVE PolicyInv
    OBVIOUS
<1>1. PolicyTypeOK
    BY DEF PolicyInit, PolicyTypeOK, Nobody
<1>2. \A d \in Desks : Fits(asking[d], Known)
    BY DEF PolicyInit, Fits
<1>3. \A p \in People, t \in Types : ~Granted(p, t, offered, category, policies)
    BY DEF PolicyInit, Granted
<1> QED BY <1>1, <1>2, <1>3 DEF PolicyInv

\* A step of one request: a row that now matters is sure to be looked at in the
\* state it goes on to, or already mattered when it was not its business.
LEMMA DeskStep ==
    ASSUME PolicyInv, NEW d \in Desks, NEW s, asking' = [asking EXCEPT ![d] = s],
           PolicyTypeOK', Known \subseteq Known', Fits(s, Known'),
           rows \subseteq rows', missed \subseteq missed' \cup rows',
           \A p \in People, t \in Types :
              Granted(p, t, offered', category', policies') =>
                \/ Sure(s, category', p, t) \/ <<p, t>> \in rows' \cup missed'
                \/ /\ Granted(p, t, offered, category, policies) /\ category'[p] = category[p]
                   /\ ~Sure(asking[d], category, p, t)
    PROVE  PolicyInv'
<1>1. asking \in [Desks -> Ask \cup {Null}] /\ asking'[d] = s
    BY DEF PolicyInv, PolicyTypeOK
<1>2. ASSUME NEW q \in Desks PROVE Fits(asking'[q], Known')
  <2>1. asking'[q] = asking[q] \/ asking'[q] = s
      BY <1>1
  <2>2. Fits(asking[q], Known)
      BY DEF PolicyInv
  <2> HIDE DEF Known
  <2>3. Fits(asking[q], Known')
      BY <2>2 DEF Fits
  <2> QED BY <2>1, <2>3
<1>3. ASSUME NEW p \in People, NEW t \in Types, Granted(p, t, offered', category', policies')
      PROVE  Minded(p, t, rows', missed', asking', category')
  <2>1. CASE Sure(s, category', p, t) \/ <<p, t>> \in rows' \cup missed'
      BY <2>1, <1>1 DEF Minded
  <2>2. CASE /\ Granted(p, t, offered, category, policies) /\ category'[p] = category[p]
             /\ ~Sure(asking[d], category, p, t)
    <3>1. Minded(p, t, rows, missed, asking, category)
        BY <2>2 DEF PolicyInv
    <3> QED BY <1>1, <2>2, <3>1, OthersMind
  <2> QED BY <1>3, <2>1, <2>2
<1>4. (\A q \in Desks : Fits(asking[q], Known))'
    BY <1>2
<1>5. (\A p \in People, t \in Types : Granted(p, t, offered, category, policies)
          => Minded(p, t, rows, missed, asking, category))'
    BY <1>3
<1> QED BY <1>4, <1>5 DEF PolicyInv

\* One that leaves the tables of HR alone.
LEMMA QuietStep ==
    ASSUME PolicyInv, NEW d \in Desks, NEW s, asking' = [asking EXCEPT ![d] = s],
           s \in Ask \cup {Null}, Fits(s, Known),
           UNCHANGED <<offered, policies, category>>,
           rows \subseteq rows', rows' \subseteq People \X Known,
           missed \subseteq missed' \cup rows', missed' \subseteq Balances,
           \A p \in People, t \in Types :
              Granted(p, t, offered, category, policies) /\ Sure(asking[d], category, p, t)
                 => Sure(s, category, p, t) \/ <<p, t>> \in rows' \cup missed'
    PROVE  PolicyInv'
<1>1. PolicyTypeOK'
    BY DEF PolicyInv, PolicyTypeOK, Known
<1>2. Known' = Known
    BY DEF Known
<1> HIDE DEF Known
<1> QED BY <1>1, <1>2, DeskStep

-----------------------------------------------------------------------------
(* The steps of one request. *)

\* The rows and what they refer to, as a step that leaves them alone needs them.
LEMMA TablesFit ==
    PolicyInv => /\ asking \in [Desks -> Ask \cup {Null}] /\ \A d \in Desks : Fits(asking[d], Known)
                 /\ rows \subseteq People \X Known /\ missed \subseteq Balances
BY DEF PolicyInv, PolicyTypeOK, Known

LEMMA FillingSure ==
    ASSUME NEW who \in SUBSET People, NEW kinds \in SUBSET Types
    PROVE  /\ Filling(who, kinds) \in Ask
           /\ Fits(Filling(who, kinds), Known)
           /\ \A cat : \A p \in who, t \in kinds : Sure(Filling(who, kinds), cat, p, t)
<1> DEFINE j == Filling(who, kinds)
<1>1. "READ_TYPES" \in Steps
    BY DEF Steps
<1>2. j \in Ask
    BY <1>1, NewAskType DEF Filling
<1>3. j.at = "READ_TYPES" /\ j.who = who /\ j.kinds = kinds /\ j.todo = {}
    BY DEF Filling, NewAsk
<1> HIDE DEF j
<1>4. j # Null
    BY <1>2, NullAskAssumption
<1>5. Fits(j, Known) /\ \A cat : \A p \in who, t \in kinds : Sure(j, cat, p, t)
    BY <1>3, <1>4 DEF Fits, Sure
<1> QED BY <1>2, <1>5 DEF j

\* Whatever a request before its fill has been for, it is not sure of any row.
LEMMA EarlyUnsure ==
    ASSUME NEW j, j # Null =>
              j.at \in {"FIND_TYPE", "CREATE_TYPE", "FIND_POLICY", "CREATE_POLICY", "WRITE_EMPLOYEE"},
           NEW cat, NEW p, NEW t
    PROVE  ~Sure(j, cat, p, t)
BY DEF Sure

LEMMA StartPolicyInv ==
    ASSUME PolicyInv, NEW d \in Desks, NEW c \in Categories, NEW t \in Types,
           StartQuickAdd(d, c, t) \/ StartCreatePolicy(d, c, t)
    PROVE  PolicyInv'
<1>1. PICK at \in {"FIND_TYPE", "FIND_POLICY"} :
        /\ asking[d] = Null /\ (at = "FIND_POLICY" => offered[t] # Null)
        /\ asking' = [asking EXCEPT ![d] = NewAsk(at, People, {t}, c)]
        /\ UNCHANGED <<offered, policies, category, rows, missed>>
    BY DEF StartQuickAdd, StartCreatePolicy, Goes
<1> DEFINE s == NewAsk(at, People, {t}, c)
<1>2. at \in Steps /\ {t} \in SUBSET Types
    BY DEF Steps
<1>3. asking' = [asking EXCEPT ![d] = s] /\ s.at = at /\ s.kinds = {t} /\ s.of = c /\ s.todo = {}
    BY <1>1 DEF NewAsk
<1>7. s \in Ask
    BY <1>2, NewAskType
<1> HIDE DEF s
<1>4. Fits(s, Known)
    BY <1>1, <1>3 DEF Fits, Known
<1>5. \A p \in People, u \in Types : ~Sure(asking[d], category, p, u)
    BY <1>1, EarlyUnsure
<1>6. rows \subseteq People \X Known /\ missed \subseteq Balances
    BY TablesFit
<1> QED BY <1>1, <1>2, <1>3, <1>4, <1>5, <1>6, <1>7, QuietStep

LEMMA StartInitializeInv ==
    ASSUME PolicyInv, NEW d \in Desks, StartInitialize(d)
    PROVE  PolicyInv'
<1> DEFINE s == Filling(People, Types)
<1>1. /\ asking[d] = Null /\ asking' = [asking EXCEPT ![d] = s]
      /\ UNCHANGED <<offered, policies, category, rows, missed>>
    BY DEF StartInitialize, Goes
<1>2. s \in Ask /\ Fits(s, Known)
    BY FillingSure
<1> HIDE DEF s
<1>3. \A p \in People, u \in Types : ~Sure(asking[d], category, p, u)
    BY <1>1, EarlyUnsure
<1>4. rows \subseteq People \X Known /\ missed \subseteq Balances
    BY TablesFit
<1> QED BY <1>1, <1>2, <1>3, <1>4, QuietStep


\* A request goes on to its next step, and keeps what it is for.
LEMMA NextStepFields ==
    ASSUME NEW j \in Ask, NEW at \in Steps
    PROVE  LET s == [j EXCEPT !.at = at]
           IN  /\ s \in Ask /\ s.at = at /\ s.who = j.who /\ s.kinds = j.kinds
               /\ s.of = j.of /\ s.todo = j.todo /\ s.staff = j.staff
BY DEF Ask, Steps

\* The steps before the fill keep what they are for, and are not sure of any row.
LEMMA EarlyStep ==
    ASSUME PolicyInv, NEW d \in Desks, asking[d] # Null,
           asking[d].at \in {"FIND_TYPE", "CREATE_TYPE", "FIND_POLICY"},
           NEW at \in {"CREATE_TYPE", "FIND_POLICY", "CREATE_POLICY"}, GoesTo(d, at),
           at # "CREATE_TYPE" => asking[d].kinds \subseteq Known,
           at = "CREATE_TYPE" => asking[d].at = "FIND_TYPE",
           UNCHANGED <<offered, policies, category, rows, missed>>
    PROVE  PolicyInv'
<1> DEFINE j == asking[d]
           s == [j EXCEPT !.at = at]
<1>1. j \in Ask /\ at \in Steps /\ Fits(j, Known)
    BY TablesFit DEF Steps
<1>2. asking' = [asking EXCEPT ![d] = s]
    BY DEF GoesTo
<1> HIDE DEF j
<1>3. s \in Ask /\ s.at = at /\ s.kinds = j.kinds /\ s.of = j.of /\ s.todo = j.todo
    BY <1>1, NextStepFields
<1> HIDE DEF s
<1>4. j # Null /\ j.at \in {"FIND_TYPE", "CREATE_TYPE", "FIND_POLICY"}
      /\ (at # "CREATE_TYPE" => j.kinds \subseteq Known) /\ (at = "CREATE_TYPE" => j.at = "FIND_TYPE")
    BY DEF j
<1>5. Fits(s, Known)
    BY <1>1, <1>3, <1>4 DEF Fits
<1>6. \A p \in People, u \in Types : ~Sure(asking[d], category, p, u)
    BY EarlyUnsure
<1>7. rows \subseteq People \X Known /\ missed \subseteq Balances
    BY TablesFit
<1> QED BY <1>2, <1>3, <1>5, <1>6, <1>7, QuietStep

\* A request ends before its fill, or when no row is left.
LEMMA EndStep ==
    ASSUME PolicyInv, NEW d \in Desks, asking[d] # Null, asking' = [asking EXCEPT ![d] = Null],
           asking[d].at \in {"FIND_TYPE", "CREATE_TYPE", "FIND_POLICY", "CREATE_POLICY", "WRITE_EMPLOYEE"},
           UNCHANGED <<offered, policies, category, rows, missed>>
    PROVE  PolicyInv'
<1>1. Fits(Null, Known)
    BY DEF Fits
<1>2. \A p \in People, u \in Types : ~Sure(asking[d], category, p, u)
    BY EarlyUnsure
<1>3. rows \subseteq People \X Known /\ missed \subseteq Balances
    BY TablesFit
<1> QED BY <1>1, <1>2, <1>3, QuietStep

LEMMA FindTypeInv ==
    ASSUME PolicyInv, NEW d \in Desks, FindType(d)
    PROVE  PolicyInv'
<1>1. PICK t \in asking[d].kinds :
        /\ GoesTo(d, IF offered[t] = Null THEN "CREATE_TYPE" ELSE "FIND_POLICY")
        /\ asking[d] # Null /\ asking[d].at = "FIND_TYPE"
        /\ UNCHANGED <<offered, policies, category, rows, missed>>
    BY DEF FindType, AskAt
<1>2. \E u \in Types : asking[d].kinds = {u}
    BY <1>1, TablesFit DEF Fits
<1>3. asking[d].kinds = {t} /\ t \in Types
    BY <1>1, <1>2
<1>4. CASE offered[t] = Null
    BY <1>1, <1>4, EarlyStep
<1>5. CASE offered[t] # Null
  <2>1. asking[d].kinds \subseteq Known
      BY <1>3, <1>5 DEF Known
  <2> QED BY <1>1, <1>5, <2>1, EarlyStep
<1> QED BY <1>4, <1>5

LEMMA CreateTypeInv ==
    ASSUME PolicyInv, NEW d \in Desks, CreateType(d)
    PROVE  PolicyInv'
<1>1. PICK t \in asking[d].kinds :
        /\ IF offered[t] # Null THEN Goes(d, Null) /\ UNCHANGED offered
           ELSE GoesTo(d, "FIND_POLICY") /\ offered' = [offered EXCEPT ![t] = TRUE]
        /\ asking[d] # Null /\ asking[d].at = "CREATE_TYPE"
        /\ UNCHANGED <<policies, category, rows, missed>>
    BY DEF CreateType, AskAt
<1>2. \E u \in Types : asking[d].kinds = {u}
    BY <1>1, TablesFit DEF Fits
<1>3. asking[d].kinds = {t} /\ t \in Types
    BY <1>1, <1>2
<1>4. CASE offered[t] # Null
    BY <1>1, <1>4, EndStep DEF Goes
<1>5. CASE offered[t] = Null
  <2> DEFINE j == asking[d]
             s == [j EXCEPT !.at = "FIND_POLICY"]
  <2>1. j \in Ask /\ j # Null /\ "FIND_POLICY" \in Steps /\ Fits(j, Known) /\ j.at = "CREATE_TYPE"
        /\ j.kinds = {t}
      BY <1>1, <1>3, TablesFit DEF Steps
  <2>2. asking' = [asking EXCEPT ![d] = s] /\ offered' = [offered EXCEPT ![t] = TRUE]
        /\ UNCHANGED <<policies, category, rows, missed>>
      BY <1>1, <1>5 DEF GoesTo
  <2>3. \A p \in People, u \in Types : ~Sure(j, category, p, u)
      BY <2>1, EarlyUnsure
  <2> HIDE DEF j
  <2>4. s \in Ask /\ s.at = "FIND_POLICY" /\ s.kinds = j.kinds /\ s.of = j.of /\ s.todo = j.todo
      BY <2>1, NextStepFields
  <2> HIDE DEF s
  <2>5. PolicyTypeOK
      BY DEF PolicyInv
  <2>6. offered' \in [Types -> BOOLEAN \cup {Null}] /\ offered'[t] # Null
        /\ \A u \in Types : u # t => offered'[u] = offered[u]
      BY <1>3, <1>5, <2>2, <2>5, NullAskAssumption DEF PolicyTypeOK
  <2>7. Known \subseteq Known' /\ t \in Known'
      BY <1>3, <1>5, <2>6 DEF Known
  <2>8. PolicyTypeOK'
      BY <2>2, <2>4, <2>5, <2>6 DEF PolicyTypeOK
  <2>9. Fits(s, Known')
    <3> HIDE DEF Known
    <3> QED BY <2>1, <2>4, <2>7 DEF Fits
  <2>10. ASSUME NEW p \in People, NEW u \in Types, Granted(p, u, offered', category', policies')
         PROVE  Granted(p, u, offered, category, policies)
    <3>1. u # t
        BY <1>5, <2>2, <2>5, <2>10 DEF PolicyTypeOK, Granted
    <3> QED BY <2>2, <2>6, <2>10, <3>1 DEF Granted
  <2>11. /\ rows \subseteq rows' /\ missed \subseteq missed' \cup rows'
         /\ \A p \in People : category'[p] = category[p]
      BY <2>2
  <2> QED BY <2>2, <2>3, <2>7, <2>8, <2>9, <2>10, <2>11, DeskStep DEF j
<1> QED BY <1>4, <1>5

LEMMA FindPolicyInv ==
    ASSUME PolicyInv, NEW d \in Desks, FindPolicy(d)
    PROVE  PolicyInv'
<1>1. PICK t \in asking[d].kinds :
        /\ IF <<asking[d].of, t>> \in policies THEN Goes(d, Null) ELSE GoesTo(d, "CREATE_POLICY")
        /\ asking[d] # Null /\ asking[d].at = "FIND_POLICY"
        /\ UNCHANGED <<offered, policies, category, rows, missed>>
    BY DEF FindPolicy, AskAt
<1>2. asking[d].kinds \subseteq Known
    BY <1>1, TablesFit DEF Fits
<1>3. CASE Goes(d, Null)
    BY <1>1, <1>3, EndStep DEF Goes
<1>4. CASE GoesTo(d, "CREATE_POLICY")
    BY <1>1, <1>2, <1>4, EarlyStep
<1> QED BY <1>1, <1>3, <1>4

\* The new policy's fill looks at everybody's row of its type.
LEMMA CreatePolicyInv ==
    ASSUME PolicyInv, NEW d \in Desks, CreatePolicy(d)
    PROVE  PolicyInv'
<1>1. PICK t \in asking[d].kinds :
        /\ IF <<asking[d].of, t>> \in policies THEN Goes(d, Null) /\ UNCHANGED policies
           ELSE /\ policies' = policies \cup {<<asking[d].of, t>>}
                /\ Goes(d, Filling(People, {t}))
        /\ asking[d] # Null /\ asking[d].at = "CREATE_POLICY"
        /\ UNCHANGED <<offered, category, rows, missed>>
    BY DEF CreatePolicy, AskAt
<1>2. CASE <<asking[d].of, t>> \in policies
    BY <1>1, <1>2, EndStep DEF Goes
<1>3. CASE <<asking[d].of, t>> \notin policies
  <2> DEFINE s == Filling(People, {t})
             c == asking[d].of
  <2>1. t \in Known /\ c \in Categories
      BY <1>1, TablesFit DEF Fits
  <2>2. People \in SUBSET People /\ {t} \in SUBSET Types
      BY <2>1 DEF Known
  <2>3. s \in Ask /\ Fits(s, Known) /\ \A p \in People : Sure(s, category, p, t)
      BY <2>2, FillingSure
  <2>4. asking' = [asking EXCEPT ![d] = s] /\ policies' = policies \cup {<<c, t>>}
        /\ UNCHANGED <<offered, category, rows, missed>>
      BY <1>1, <1>3 DEF Goes
  <2>5. \A p \in People, u \in Types : ~Sure(asking[d], category, p, u)
      BY <1>1, EarlyUnsure
  <2> HIDE DEF s, c
  <2>6. PolicyTypeOK
      BY DEF PolicyInv
  <2>7. PolicyTypeOK'
      BY <2>1, <2>3, <2>4, <2>6 DEF PolicyTypeOK, Known
  <2>8. Known' = Known
      BY <2>4 DEF Known
  <2> HIDE DEF Known
  <2>9. ASSUME NEW p \in People, NEW u \in Types, Granted(p, u, offered', category', policies')
        PROVE  Granted(p, u, offered, category, policies) \/ Sure(s, category', p, u)
      BY <2>3, <2>4, <2>9 DEF Granted
  <2> QED BY <2>3, <2>4, <2>5, <2>7, <2>8, <2>9, DeskStep
<1> QED BY <1>2, <1>3

-----------------------------------------------------------------------------
(* The steps without a request. *)

\* What no longer matters needs no row, and what a step makes matter is missed.
LEMMA TableStep ==
    ASSUME PolicyInv, PolicyTypeOK', Known \subseteq Known', UNCHANGED <<category, rows, asking>>,
           missed \subseteq missed',
           \A p \in People, t \in Types :
              Granted(p, t, offered', category, policies') =>
                Granted(p, t, offered, category, policies) \/ <<p, t>> \in rows \cup missed'
    PROVE  PolicyInv'
<1>1. ASSUME NEW d \in Desks PROVE Fits(asking[d], Known')
  <2>1. Fits(asking[d], Known)
      BY DEF PolicyInv
  <2> HIDE DEF Known
  <2> QED BY <2>1 DEF Fits
<1>2. ASSUME NEW p \in People, NEW t \in Types, Granted(p, t, offered', category, policies')
      PROVE  Minded(p, t, rows, missed', asking, category)
  <2>1. CASE <<p, t>> \in rows \cup missed'
      BY <2>1 DEF Minded
  <2>2. CASE Granted(p, t, offered, category, policies)
      BY <2>2 DEF PolicyInv, Minded
  <2> QED BY <1>2, <2>1, <2>2
<1> QED BY <1>1, <1>2 DEF PolicyInv

LEMMA RemovePolicyInv ==
    ASSUME PolicyInv, NEW c \in Categories, NEW t \in Types, RemovePolicy(c, t)
    PROVE  PolicyInv'
<1>1. policies' \subseteq policies /\ UNCHANGED <<offered, category, rows, asking, missed>>
    BY DEF RemovePolicy
<1>2. PolicyTypeOK'
    BY <1>1 DEF PolicyInv, PolicyTypeOK
<1>3. Known \subseteq Known'
    BY <1>1 DEF Known
<1>4. \A p \in People, u \in Types :
          Granted(p, u, offered', category, policies') => Granted(p, u, offered, category, policies)
    BY <1>1 DEF Granted
<1> QED BY <1>1, <1>2, <1>3, <1>4, TableStep

LEMMA RemoveTypeInv ==
    ASSUME PolicyInv, NEW t \in Types, RemoveType(t)
    PROVE  PolicyInv'
<1>1. /\ offered' = [offered EXCEPT ![t] = FALSE] /\ offered[t] # Null
      /\ UNCHANGED <<policies, category, rows, asking, missed>>
    BY DEF RemoveType, RemovedType
<1>2. PolicyTypeOK
    BY DEF PolicyInv
<1>3. /\ offered' \in [Types -> BOOLEAN \cup {Null}] /\ offered'[t] = FALSE
      /\ \A u \in Types : u # t => offered'[u] = offered[u]
    BY <1>1, <1>2 DEF PolicyTypeOK
<1>4. {u \in Types : offered[u] # Null} \subseteq {u \in Types : offered'[u] # Null}
    BY <1>3, NullAskAssumption
<1>5. PolicyTypeOK'
    BY <1>1, <1>2, <1>3, <1>4 DEF PolicyTypeOK
<1>6. \A p \in People, u \in Types :
          Granted(p, u, offered', category, policies') => Granted(p, u, offered, category, policies)
    BY <1>1, <1>3 DEF Granted
<1>7. Known \subseteq Known'
    BY <1>4 DEF Known
<1> QED BY <1>1, <1>5, <1>6, <1>7, TableStep

LEMMA OfferTypeInv ==
    ASSUME PolicyInv, NEW t \in Types, OfferType(t)
    PROVE  PolicyInv'
<1>1. /\ offered' = [offered EXCEPT ![t] = TRUE]
      /\ missed' = missed \cup ((People \X {t}) \ rows)
      /\ UNCHANGED <<policies, category, rows, asking>>
    BY DEF OfferType
<1>2. PolicyTypeOK
    BY DEF PolicyInv
<1>3. /\ offered' \in [Types -> BOOLEAN \cup {Null}] /\ offered'[t] = TRUE
      /\ \A u \in Types : u # t => offered'[u] = offered[u]
    BY <1>1, <1>2 DEF PolicyTypeOK
<1>4. {u \in Types : offered[u] # Null} \subseteq {u \in Types : offered'[u] # Null}
    BY <1>3, NullAskAssumption
<1>5. missed' \subseteq Balances
    BY <1>1, <1>2 DEF PolicyTypeOK, Balances
<1>6. PolicyTypeOK'
    BY <1>1, <1>2, <1>3, <1>4, <1>5 DEF PolicyTypeOK
<1>7. ASSUME NEW p \in People, NEW u \in Types, Granted(p, u, offered', category, policies')
      PROVE  Granted(p, u, offered, category, policies) \/ <<p, u>> \in rows \cup missed'
    BY <1>1, <1>3, <1>7 DEF Granted
<1>8. Known \subseteq Known'
    BY <1>4 DEF Known
<1> QED BY <1>1, <1>6, <1>7, <1>8, TableStep

-----------------------------------------------------------------------------
(* Employees. *)

\* The category of one employee is written, and either a fill of his rows follows,
\* or the category was his already, or his rows are missed.
LEMMA CategoryStep ==
    ASSUME PolicyInv, NEW d \in Desks, NEW s \in Ask \cup {Null}, NEW p \in People, NEW c \in Categories,
           asking' = [asking EXCEPT ![d] = s], category' = [category EXCEPT ![p] = c],
           Fits(s, Known), UNCHANGED <<offered, policies, rows>>,
           missed \subseteq missed', missed' \subseteq Balances,
           \A q \in People, u \in Types : ~Sure(asking[d], category, q, u),
           \A u \in Types : \/ Sure(s, category', p, u) \/ category[p] = c
                            \/ <<p, u>> \in rows \cup missed'
    PROVE  PolicyInv'
<1>1. PolicyTypeOK
    BY DEF PolicyInv
<1>2. PolicyTypeOK'
    BY <1>1 DEF PolicyTypeOK
<1>3. category'[p] = c /\ \A q \in People : q # p => category'[q] = category[q]
    BY <1>1 DEF PolicyTypeOK
<1>4. Known' = Known
    BY DEF Known
<1> HIDE DEF Known
<1>5. ASSUME NEW q \in People, NEW u \in Types, Granted(q, u, offered', category', policies')
      PROVE  \/ Sure(s, category', q, u) \/ <<q, u>> \in rows' \cup missed'
             \/ Granted(q, u, offered, category, policies) /\ category'[q] = category[q]
  <2>1. CASE q = p /\ category[p] # c
      BY <2>1
  <2>2. CASE q # p \/ category[p] = c
      BY <1>3, <1>5, <2>2 DEF Granted
  <2> QED BY <2>1, <2>2
<1> QED BY <1>2, <1>4, <1>5, DeskStep

LEMMA HireInv ==
    ASSUME PolicyInv, NEW d \in Desks, NEW p \in People, NEW c \in Categories, Hire(d, p, c)
    PROVE  PolicyInv'
<1> DEFINE s == Filling({p}, Types)
<1>1. /\ asking[d] = Null /\ category' = [category EXCEPT ![p] = c]
      /\ asking' = [asking EXCEPT ![d] = s]
      /\ UNCHANGED <<offered, policies, rows, missed>>
    BY DEF Hire, Goes
<1>2. {p} \in SUBSET People /\ Types \in SUBSET Types
    OBVIOUS
<1>3. s \in Ask /\ Fits(s, Known) /\ \A u \in Types : Sure(s, category', p, u)
    BY <1>2, FillingSure
<1> HIDE DEF s
<1>4. \A q \in People, u \in Types : ~Sure(asking[d], category, q, u)
    BY <1>1, EarlyUnsure
<1>5. missed \subseteq Balances
    BY TablesFit
<1> QED BY <1>1, <1>3, <1>4, <1>5, CategoryStep

LEMMA StartMoveInv ==
    ASSUME PolicyInv, NEW d \in Desks, NEW p \in People, NEW c \in Categories, StartMove(d, p, c)
    PROVE  PolicyInv'
<1> DEFINE j == NewAsk("WRITE_EMPLOYEE", {p}, Types, c)
           s == [j EXCEPT !.changed = (c # category[p])]
<1>1. /\ asking[d] = Null /\ asking' = [asking EXCEPT ![d] = s]
      /\ UNCHANGED <<offered, policies, category, rows, missed>>
    BY DEF StartMove, Goes
<1>2. "WRITE_EMPLOYEE" \in Steps /\ {p} \in SUBSET People /\ Types \in SUBSET Types
    BY DEF Steps
<1>3. j \in Ask
    BY <1>2, NewAskType
<1>4. j.at = "WRITE_EMPLOYEE" /\ j.of = c /\ j.todo = {}
    BY DEF NewAsk
<1> HIDE DEF j
<1>5. s \in Ask /\ s.at = "WRITE_EMPLOYEE" /\ s.of = c /\ s.todo = {}
    BY <1>3, <1>4 DEF Ask
<1> HIDE DEF s
<1>6. Fits(s, Known)
    BY <1>5 DEF Fits
<1>7. \A q \in People, u \in Types : ~Sure(asking[d], category, q, u)
    BY <1>1, EarlyUnsure
<1>8. rows \subseteq People \X Known /\ missed \subseteq Balances
    BY TablesFit
<1> QED BY <1>1, <1>5, <1>6, <1>7, <1>8, QuietStep

LEMMA WriteEmployeeInv ==
    ASSUME PolicyInv, NEW d \in Desks, WriteEmployee(d)
    PROVE  PolicyInv'
<1> DEFINE c == asking[d].of
           changed == asking[d].changed
<1>1. PICK p \in asking[d].who :
        /\ category' = [category EXCEPT ![p] = c]
        /\ Goes(d, IF changed THEN Filling({p}, Types) ELSE Null)
        /\ missed' = IF ~changed /\ category[p] # c
                     THEN missed \cup (({p} \X Types) \ rows) ELSE missed
        /\ asking[d] # Null /\ asking[d].at = "WRITE_EMPLOYEE"
        /\ UNCHANGED <<offered, policies, rows>>
    BY DEF WriteEmployee, AskAt
<1>2. asking[d] \in Ask /\ Fits(asking[d], Known) /\ missed \subseteq Balances
    BY <1>1, TablesFit
<1>3. p \in People /\ c \in Categories /\ changed \in BOOLEAN
    BY <1>1, <1>2 DEF Ask, Fits
<1>4. \A q \in People, u \in Types : ~Sure(asking[d], category, q, u)
    BY <1>1, EarlyUnsure
<1> HIDE DEF c, changed
<1>5. missed \subseteq missed' /\ missed' \subseteq Balances
    BY <1>1, <1>2, <1>3 DEF Balances
<1>6. CASE changed
  <2> DEFINE s == Filling({p}, Types)
  <2>1. asking' = [asking EXCEPT ![d] = s]
      BY <1>1, <1>6 DEF Goes
  <2>2. {p} \in SUBSET People /\ Types \in SUBSET Types
      BY <1>3
  <2>3. s \in Ask /\ Fits(s, Known) /\ \A u \in Types : Sure(s, category', p, u)
      BY <2>2, FillingSure
  <2> HIDE DEF s
  <2> QED BY <1>1, <1>3, <1>4, <1>5, <2>1, <2>3, CategoryStep
<1>7. CASE ~changed
  <2>1. asking' = [asking EXCEPT ![d] = Null]
      BY <1>1, <1>7 DEF Goes
  <2>2. Fits(Null, Known)
      BY DEF Fits
  <2>3. \A u \in Types : category[p] = c \/ <<p, u>> \in rows \cup missed'
      BY <1>1, <1>7
  <2> QED BY <1>1, <1>3, <1>4, <1>5, <2>1, <2>2, <2>3, CategoryStep
<1> QED BY <1>3, <1>6, <1>7

-----------------------------------------------------------------------------
(* initializeBalances. *)

LEMMA ReadTypesInv ==
    ASSUME PolicyInv, NEW d \in Desks, ReadTypes(d)
    PROVE  PolicyInv'
<1> DEFINE j == asking[d]
           kinds == {t \in j.kinds : offered[t] = TRUE}
           s == [j EXCEPT !.at = "READ_STAFF", !.kinds = kinds]
<1>1. /\ j # Null /\ j.at = "READ_TYPES" /\ asking' = [asking EXCEPT ![d] = s]
      /\ UNCHANGED <<offered, policies, category, rows, missed>>
    BY DEF ReadTypes, AskAt
<1>2. j \in Ask /\ Fits(j, Known) /\ rows \subseteq People \X Known /\ missed \subseteq Balances
    BY <1>1, TablesFit
<1> HIDE DEF j
<1>3. kinds \subseteq Known
    BY <1>2, NullAskAssumption DEF Known, Ask
<1>4. s \in Ask /\ s.at = "READ_STAFF" /\ s.kinds = kinds /\ s.who = j.who /\ s.todo = j.todo
    BY <1>2 DEF Ask
<1>5. ASSUME NEW p \in People, NEW t \in Types, Granted(p, t, offered, category, policies),
             Sure(j, category, p, t)
      PROVE  p \in s.who /\ t \in s.kinds
    BY <1>1, <1>4, <1>5 DEF Sure, Granted
<1> HIDE DEF s, kinds
<1>6. Fits(s, Known)
    BY <1>1, <1>2, <1>3, <1>4 DEF Fits
<1>7. s # Null
    BY <1>4, NullAskAssumption
<1>8. ASSUME NEW p \in People, NEW t \in Types, Granted(p, t, offered, category, policies),
             Sure(j, category, p, t)
      PROVE  Sure(s, category, p, t)
    BY <1>4, <1>5, <1>7, <1>8 DEF Sure
<1> QED BY <1>1, <1>2, <1>4, <1>6, <1>8, QuietStep DEF j

LEMMA ReadStaffInv ==
    ASSUME PolicyInv, NEW d \in Desks, ReadStaff(d)
    PROVE  PolicyInv'
<1> DEFINE j == asking[d]
           members == [p \in People |-> IF p \in j.who THEN category[p] ELSE Null]
           s == [j EXCEPT !.at = "READ_POLICIES", !.staff = members]
<1>1. /\ j # Null /\ j.at = "READ_STAFF" /\ asking' = [asking EXCEPT ![d] = s]
      /\ UNCHANGED <<offered, policies, category, rows, missed>>
    BY DEF ReadStaff, AskAt
<1>2. j \in Ask /\ Fits(j, Known) /\ rows \subseteq People \X Known /\ missed \subseteq Balances
    BY <1>1, TablesFit
<1> HIDE DEF j
<1>3. members \in [People -> Categories \cup {Null}]
    BY DEF PolicyInv, PolicyTypeOK
<1>4. \A p \in j.who : p \in People => members[p] = category[p]
    OBVIOUS
<1> HIDE DEF members
<1>5. s \in Ask /\ s.at = "READ_POLICIES" /\ s.kinds = j.kinds /\ s.who = j.who /\ s.todo = j.todo
      /\ s.staff = members
    BY <1>2, <1>3 DEF Ask
<1> HIDE DEF s
<1>6. Fits(s, Known)
    BY <1>1, <1>2, <1>5 DEF Fits
<1>7. s # Null
    BY <1>5, NullAskAssumption
<1>8. ASSUME NEW p \in People, NEW t \in Types, Sure(j, category, p, t)
      PROVE  Sure(s, category, p, t)
    BY <1>1, <1>4, <1>5, <1>7, <1>8 DEF Sure
<1> QED BY <1>1, <1>2, <1>5, <1>6, <1>8, QuietStep DEF j

\* The fill goes on with these rows.
LEMMA LookAtSure ==
    ASSUME NEW d \in Desks, asking \in [Desks -> Ask \cup {Null}],
           NEW todo \in SUBSET (People \X Known), LookAt(d, todo)
    PROVE  \E s \in Ask \cup {Null} :
              /\ asking' = [asking EXCEPT ![d] = s] /\ Fits(s, Known)
              /\ \A cat, p, t : <<p, t>> \in todo => Sure(s, cat, p, t)
<1> DEFINE j == NewAsk("FIND_BALANCE", {}, {}, Null)
           s == [j EXCEPT !.todo = todo]
<1>1. CASE todo = {}
  <2>1. asking' = [asking EXCEPT ![d] = Null] /\ Fits(Null, Known)
      BY <1>1 DEF LookAt, Goes, Fits
  <2> QED BY <1>1, <2>1
<1>2. CASE todo # {}
  <2>1. asking' = [asking EXCEPT ![d] = s]
      BY <1>2 DEF LookAt, Goes
  <2>2. "FIND_BALANCE" \in Steps
      BY DEF Steps
  <2>3. j \in Ask
      BY <2>2, NewAskType
  <2>4. j.at = "FIND_BALANCE"
      BY DEF NewAsk
  <2>5. todo \subseteq Balances
      BY DEF Known, Balances
  <2> HIDE DEF j
  <2>6. s \in Ask /\ s.at = "FIND_BALANCE" /\ s.todo = todo
      BY <2>3, <2>4, <2>5 DEF Ask
  <2> HIDE DEF s
  <2>7. s # Null
      BY <2>6, NullAskAssumption
  <2>8. Fits(s, Known) /\ \A cat, p, t : <<p, t>> \in todo => Sure(s, cat, p, t)
    <3> HIDE DEF Known
    <3> QED BY <2>6, <2>7 DEF Fits, Sure
  <2> QED BY <2>1, <2>6, <2>8
<1> QED BY <1>1, <1>2

LEMMA ReadPoliciesInv ==
    ASSUME PolicyInv, NEW d \in Desks, ReadPolicies(d)
    PROVE  PolicyInv'
<1> DEFINE j == asking[d]
           todo == {b \in j.who \X j.kinds : <<j.staff[b[1]], b[2]>> \in policies}
<1>1. /\ j # Null /\ j.at = "READ_POLICIES" /\ LookAt(d, todo)
      /\ UNCHANGED <<offered, policies, category, rows, missed>>
    BY DEF ReadPolicies, AskAt
<1>2. /\ j \in Ask /\ Fits(j, Known) /\ rows \subseteq People \X Known /\ missed \subseteq Balances
      /\ asking \in [Desks -> Ask \cup {Null}]
    BY <1>1, TablesFit
<1>3. ASSUME NEW p \in People, NEW t \in Types, Granted(p, t, offered, category, policies),
             Sure(j, category, p, t)
      PROVE  <<p, t>> \in todo
    BY <1>1, <1>3 DEF Sure, Granted
<1> HIDE DEF j
<1>4. todo \subseteq People \X Known
    BY <1>1, <1>2 DEF Fits, Ask
<1> HIDE DEF todo
<1>5. PICK s \in Ask \cup {Null} :
         /\ asking' = [asking EXCEPT ![d] = s] /\ Fits(s, Known)
         /\ \A cat, p, t : <<p, t>> \in todo => Sure(s, cat, p, t)
    BY <1>1, <1>2, <1>4, LookAtSure
<1> QED BY <1>1, <1>2, <1>3, <1>5, QuietStep DEF j

LEMMA FindBalanceInv ==
    ASSUME PolicyInv, NEW d \in Desks, FindBalance(d)
    PROVE  PolicyInv'
<1> DEFINE j == asking[d]
<1>1. PICK b \in j.todo :
         /\ j # Null /\ j.at = "FIND_BALANCE"
         /\ IF b \in rows THEN LookAt(d, j.todo \ {b})
            ELSE Goes(d, [j EXCEPT !.at = "CREATE_BALANCE", !.who = {b[1]}, !.kinds = {b[2]}])
         /\ missed' = missed \ ({b} \cap rows)
         /\ UNCHANGED <<offered, policies, category, rows>>
    BY DEF FindBalance, AskAt
<1>2. /\ j \in Ask /\ Fits(j, Known) /\ rows \subseteq People \X Known /\ missed \subseteq Balances
      /\ asking \in [Desks -> Ask \cup {Null}]
    BY <1>1, TablesFit
<1>3. j.todo \subseteq People \X Known
    BY <1>1, <1>2 DEF Fits
<1>4. missed \subseteq missed' \cup rows' /\ missed' \subseteq Balances
    BY <1>1, <1>2
<1>5. \A p, t : Sure(j, category, p, t) => <<p, t>> \in j.todo
    BY <1>1 DEF Sure
<1>6. CASE b \in rows
  <2>1. LookAt(d, j.todo \ {b}) /\ j.todo \ {b} \in SUBSET (People \X Known)
      BY <1>1, <1>3, <1>6
  <2>2. PICK s \in Ask \cup {Null} :
         /\ asking' = [asking EXCEPT ![d] = s] /\ Fits(s, Known)
         /\ \A cat, p, t : <<p, t>> \in j.todo \ {b} => Sure(s, cat, p, t)
      BY <1>2, <2>1, LookAtSure
  <2>3. \A p \in People, t \in Types : Sure(j, category, p, t) => Sure(s, category, p, t) \/ <<p, t>> \in rows'
      BY <1>1, <1>5, <1>6, <2>2
  <2> QED BY <1>1, <1>2, <1>4, <2>2, <2>3, QuietStep DEF j
<1>7. CASE b \notin rows
  <2> DEFINE s == [j EXCEPT !.at = "CREATE_BALANCE", !.who = {b[1]}, !.kinds = {b[2]}]
  <2>1. asking' = [asking EXCEPT ![d] = s]
      BY <1>1, <1>7 DEF Goes
  <2>2. b[1] \in People /\ b[2] \in Known /\ b[2] \in Types
      BY <1>1, <1>3 DEF Known
  <2> HIDE DEF j, Known
  <2>3. s \in Ask /\ s.at = "CREATE_BALANCE" /\ s.kinds = {b[2]} /\ s.todo = j.todo
      BY <1>2, <2>2 DEF Ask
  <2> HIDE DEF s
  <2>4. s # Null
      BY <2>3, NullAskAssumption
  <2>5. Fits(s, Known)
      BY <1>3, <2>2, <2>3 DEF Fits
  <2>6. \A p \in People, t \in Types : Sure(j, category, p, t) => Sure(s, category, p, t)
      BY <1>5, <2>3, <2>4 DEF Sure
  <2> QED BY <1>1, <1>2, <1>4, <2>1, <2>3, <2>5, <2>6, QuietStep DEF j
<1> QED BY <1>6, <1>7

LEMMA CreateBalanceInv ==
    ASSUME PolicyInv, NEW d \in Desks, CreateBalance(d)
    PROVE  PolicyInv'
<1> DEFINE j == asking[d]
<1>1. PICK b \in j.who \X j.kinds :
         /\ j # Null /\ j.at = "CREATE_BALANCE"
         /\ IF b \in rows THEN Goes(d, Null) /\ missed' = (missed \cup (j.todo \ {b})) \ {b}
            ELSE LookAt(d, j.todo \ {b}) /\ missed' = missed \ {b}
         /\ rows' = rows \cup {b}
         /\ UNCHANGED <<offered, policies, category>>
    BY DEF CreateBalance, AskAt
<1>2. /\ j \in Ask /\ Fits(j, Known) /\ rows \subseteq People \X Known /\ missed \subseteq Balances
      /\ asking \in [Desks -> Ask \cup {Null}]
    BY <1>1, TablesFit
<1>3. j.todo \subseteq People \X Known /\ b \in People \X Known
    BY <1>1, <1>2 DEF Fits, Ask
<1>4. j.todo \subseteq Balances
    BY <1>3 DEF Known, Balances
<1>5. /\ rows \subseteq rows' /\ rows' \subseteq People \X Known
      /\ missed \subseteq missed' \cup rows' /\ missed' \subseteq Balances
    BY <1>1, <1>2, <1>3, <1>4
<1>6. \A p, t : Sure(j, category, p, t) => <<p, t>> \in j.todo
    BY <1>1 DEF Sure
<1>7. CASE b \in rows
  <2>1. asking' = [asking EXCEPT ![d] = Null] /\ Fits(Null, Known)
      BY <1>1, <1>7 DEF Goes, Fits
  <2>2. \A p \in People, t \in Types : Sure(j, category, p, t) => <<p, t>> \in rows' \cup missed'
      BY <1>1, <1>6, <1>7
  <2> QED BY <1>1, <1>5, <2>1, <2>2, QuietStep DEF j
<1>8. CASE b \notin rows
  <2>1. LookAt(d, j.todo \ {b}) /\ j.todo \ {b} \in SUBSET (People \X Known)
      BY <1>1, <1>3, <1>8
  <2>2. PICK s \in Ask \cup {Null} :
         /\ asking' = [asking EXCEPT ![d] = s] /\ Fits(s, Known)
         /\ \A cat, p, t : <<p, t>> \in j.todo \ {b} => Sure(s, cat, p, t)
      BY <1>2, <2>1, LookAtSure
  <2>3. \A p \in People, t \in Types : Sure(j, category, p, t) => Sure(s, category, p, t) \/ <<p, t>> \in rows'
      BY <1>1, <1>6, <2>2
  <2> QED BY <1>1, <1>5, <2>2, <2>3, QuietStep DEF j
<1> QED BY <1>7, <1>8

\* What a request is sure to look at is among what it may look at.
LEMMA SureIsCovered ==
    ASSUME NEW d \in Desks, NEW cat, NEW p, NEW t, Sure(asking[d], cat, p, t)
    PROVE  <<p, t>> \in Covered(d)
<1>1. asking[d] # Null
    BY DEF Sure
<1>2. CASE asking[d].at \in {"READ_TYPES", "READ_STAFF", "READ_POLICIES"}
  <2>1. Covered(d) = asking[d].who \X asking[d].kinds
      BY <1>1, <1>2 DEF Covered, AskAt
  <2>2. p \in asking[d].who /\ t \in asking[d].kinds
      BY <1>2 DEF Sure
  <2> QED BY <2>1, <2>2
<1>3. CASE asking[d].at \in {"FIND_BALANCE", "CREATE_BALANCE"}
  <2>1. Covered(d) = asking[d].todo
      BY <1>1, <1>3 DEF Covered, AskAt
  <2> QED BY <1>3, <2>1 DEF Sure
<1> QED BY <1>2, <1>3 DEF Sure

LEMMA CoveredType ==
    ASSUME PolicyInv, NEW d \in Desks
    PROVE  Covered(d) \subseteq Balances
<1>1. CASE asking[d] = Null
    BY <1>1 DEF Covered, AskAt
<1>2. CASE asking[d] # Null
  <2>1. asking[d] \in Ask
      BY <1>2, TablesFit
  <2>2. asking[d].at \in Steps /\ asking[d].todo \subseteq Balances
        /\ asking[d].who \X asking[d].kinds \subseteq Balances
      BY <2>1 DEF Ask, Steps, Balances
  <2> QED BY <1>2, <2>2 DEF Covered, AskAt, Steps
<1> QED BY <1>1, <1>2

LEMMA ServerDiesAskingInv ==
    ASSUME PolicyInv, ServerDiesAsking
    PROVE  PolicyInv'
<1> DEFINE all == UNION {Covered(d) : d \in Desks}
<1>1. asking' = [d \in Desks |-> Null] /\ UNCHANGED <<offered, policies, category, rows>>
    BY DEF ServerDiesAsking
<1>3. missed' = missed \cup (all \ rows)
    BY DEF ServerDiesAsking
<1>2. all \subseteq Balances
    BY CoveredType
<1>0. ASSUME NEW d \in Desks, NEW b \in Covered(d) PROVE b \in all
    BY <1>0
<1> HIDE DEF all
<1>8. PolicyTypeOK'
    BY <1>1, <1>2, <1>3 DEF PolicyInv, PolicyTypeOK
<1>4. \A d \in Desks : Fits(asking'[d], Known')
    BY <1>1 DEF Fits
<1>5. ASSUME NEW p \in People, NEW t \in Types, Granted(p, t, offered', category', policies')
      PROVE  <<p, t>> \in rows' \cup missed'
  <2>1. Minded(p, t, rows, missed, asking, category)
      BY <1>1, <1>5 DEF PolicyInv
  <2>2. CASE <<p, t>> \in rows \cup missed
      BY <1>1, <1>3, <2>2
  <2>3. ASSUME NEW d \in Desks, Sure(asking[d], category, p, t)
        PROVE  <<p, t>> \in rows' \cup missed'
    <3>1. <<p, t>> \in Covered(d)
        BY <2>3, SureIsCovered
    <3>2. <<p, t>> \in all
        BY <1>0, <3>1
    <3> QED BY <1>1, <1>3, <3>2
  <2> QED BY <2>1, <2>2, <2>3 DEF Minded
<1>6. (\A p \in People, t \in Types : Granted(p, t, offered, category, policies)
          => Minded(p, t, rows, missed, asking, category))'
    BY <1>5 DEF Minded
<1>7. (\A d \in Desks : Fits(asking[d], Known))'
    BY <1>4
<1> QED BY <1>6, <1>7, <1>8 DEF PolicyInv

LEMMA PolicyStepInv == PolicyInv /\ [PolicyNext]_policyVars => PolicyInv'
<1> SUFFICES ASSUME PolicyInv, [PolicyNext]_policyVars PROVE PolicyInv'
    OBVIOUS
<1>1. PolicyDesks \subseteq Desks /\ StaffDesks \subseteq Desks
    BY DEF Desks
<1>2. ASSUME NEW d \in PolicyDesks, NEW c \in Categories, NEW t \in Types,
             StartQuickAdd(d, c, t) \/ StartCreatePolicy(d, c, t)
      PROVE  PolicyInv'
    BY <1>1, <1>2, StartPolicyInv
<1>3. ASSUME NEW d \in PolicyDesks,
             FindType(d) \/ CreateType(d) \/ FindPolicy(d) \/ CreatePolicy(d) \/ StartInitialize(d)
      PROVE  PolicyInv'
    BY <1>1, <1>3, FindTypeInv, CreateTypeInv, FindPolicyInv, CreatePolicyInv, StartInitializeInv
<1>4. ASSUME NEW d \in StaffDesks, NEW p \in People, NEW c \in Categories,
             Hire(d, p, c) \/ StartMove(d, p, c)
      PROVE  PolicyInv'
    BY <1>1, <1>4, HireInv, StartMoveInv
<1>5. ASSUME NEW d \in StaffDesks, WriteEmployee(d)
      PROVE  PolicyInv'
    BY <1>1, <1>5, WriteEmployeeInv
<1>6. ASSUME NEW d \in Desks,
             ReadTypes(d) \/ ReadStaff(d) \/ ReadPolicies(d) \/ FindBalance(d) \/ CreateBalance(d)
      PROVE  PolicyInv'
    BY <1>6, ReadTypesInv, ReadStaffInv, ReadPoliciesInv, FindBalanceInv, CreateBalanceInv
<1>7. ASSUME NEW t \in Types, RemoveType(t) \/ OfferType(t) \/ \E c \in Categories : RemovePolicy(c, t)
      PROVE  PolicyInv'
    BY <1>7, RemoveTypeInv, OfferTypeInv, RemovePolicyInv
<1>8. CASE ServerDiesAsking
    BY <1>8, ServerDiesAskingInv
<1>9. CASE UNCHANGED policyVars
  <2>1. UNCHANGED <<offered, policies, category, rows, asking, missed>>
      BY <1>9 DEF policyVars
  <2>2. PolicyTypeOK' /\ Known' = Known
      BY <2>1 DEF PolicyInv, PolicyTypeOK, Known
  <2> HIDE DEF Known
  <2> QED BY <2>1, <2>2 DEF PolicyInv, Minded
<1> QED BY <1>2, <1>3, <1>4, <1>5, <1>6, <1>7, <1>8, <1>9 DEF PolicyNext

LEMMA PolicyInvariant == PolicySpec => []PolicyInv
<1> QED BY PolicyInitInv, PolicyStepInv, PTL DEF PolicySpec

\* quickAdd, create, initializeBalances and the saving of employees leave policies, types,
\* balance rows and requests of their types.
THEOREM PoliciesTypeCorrect == PolicySpec => []PolicyTypeOK
<1>1. PolicyInv => PolicyTypeOK
    BY DEF PolicyInv
<1> QED BY <1>1, PolicyInvariant, PTL

\* quickAdd, create and update with their fills: who is entitled has a balance row, or a
\* request that is going to look is under way, or one that was to look did not.
THEOREM EntitledStaffHaveRows == PolicySpec => []EntitledHaveRows
<1>1. PolicyInv => EntitledHaveRows
  <2> SUFFICES ASSUME PolicyInv, NEW b \in Entitled
               PROVE  b \in rows \cup missed \cup UNION {Covered(d) : d \in Desks}
      BY DEF EntitledHaveRows
  <2>1. PICK p \in People, t \in Types : b = <<p, t>>
      BY DEF Entitled, Balances
  <2>2. Granted(p, t, offered, category, policies)
      BY <2>1 DEF Entitled, Granted
  <2>3. Minded(p, t, rows, missed, asking, category)
      BY <2>2 DEF PolicyInv
  <2> QED BY <2>1, <2>3, SureIsCovered DEF Minded
<1> QED BY <1>1, PolicyInvariant, PTL

-----------------------------------------------------------------------------
(* Balances over the years. *)

\* What a year's row got from the year before.
Handed(kept, y) == IF y \in Years /\ kept[y] # Null THEN kept[y].carried ELSE 0

\* What a row has left covers what was taken of it and what the next year got of it.
Sound(kept) ==
    /\ Handed(kept, 0) = 0
    /\ \A y \in Years :
          /\ kept[y] = Null => Handed(kept, y + 1) = 0
          /\ kept[y] # Null => kept[y].used + Handed(kept, y + 1) <= kept[y].allocated + kept[y].carried

\* What the rollover is about to carry is there in the year before.
Covers(kept, y, carry) ==
    carry = 0 \/ (y - 1 \in Years /\ kept[y - 1] # Null /\
                  kept[y - 1].used + carry <= kept[y - 1].allocated + kept[y - 1].carried)

AtWork(roll, fill) ==
    /\ roll # Null /\ roll.at # "FIND" => roll.kind # Null
    /\ fill # Null /\ fill.at = "FIND" => fill.rest # {}
    /\ fill # Null /\ fill.at = "CREATE" => fill.kind # Null

RolloverInv ==
    /\ RolloverTypeOK
    /\ AtWork(rollover, filling)
    /\ \A k \in Kinds \ late : Sound(balance[k])
    /\ rollover # Null /\ rollover.at = "CREATE" /\ rollover.kind \notin late =>
          Covers(balance[rollover.kind], Year(rollover.day), rollover.carry)

\* The years of the days there are.
LEMMA YearInYears ==
    ASSUME NEW day \in 0 .. LastDay
    PROVE  Year(day) \in Years
<1> DEFINE n == DaysPerYear
           a == day \div n
           b == LastDay \div n
<1>1. n \in Nat \ {0} /\ LastDay \in Nat /\ day \in Nat /\ day <= LastDay
    BY PolicyAssumption
<1>2. /\ a \in Int /\ n * a <= day /\ day < n * (a + 1)
      /\ b \in Int /\ n * b <= LastDay /\ LastDay < n * (b + 1)
    BY <1>1
<1> HIDE DEF n, a, b
<1>3. a >= 0
    BY <1>1, <1>2
<1>4. a <= b
    BY <1>1, <1>2
<1>5. Year(day) = a /\ Year(LastDay) = b
    BY DEF Year, a, b, n
<1> QED BY <1>2, <1>3, <1>4, <1>5 DEF Years

\* A new row for a year without one, with no more carried than the year before has left.
LEMMA SoundNewRow ==
    ASSUME NEW kept \in [Years -> Balance \cup {Null}], NEW y \in Years, kept[y] = Null,
           NEW a \in Nat, NEW c \in Nat, Sound(kept), Covers(kept, y, c)
    PROVE  Sound([kept EXCEPT ![y] = Row(a, c)])
<1> DEFINE row == Row(a, c)
           new == [kept EXCEPT ![y] = row]
<1>1. row \in Balance /\ row.allocated = a /\ row.carried = c /\ row.used = 0
    BY DEF Row, Balance
<1> HIDE DEF row
<1>2. row # Null
    BY <1>1, NullBalanceAssumption
<1>3. new[y] = row /\ \A z \in Years : z # y => new[z] = kept[z]
    OBVIOUS
<1> HIDE DEF new
<1>4. Years \subseteq Int /\ \A z \in Years : z >= 0
    BY DEF Years
<1>5. Handed(new, y) = c /\ \A z : z # y => Handed(new, z) = Handed(kept, z)
    BY <1>1, <1>2, <1>3 DEF Handed
<1>6. Handed(kept, y) = 0 /\ Handed(kept, y + 1) = 0
    BY DEF Sound, Handed
<1>7. y = 0 => c = 0
    BY <1>4 DEF Covers
<1>8. Handed(new, 0) = 0
    BY <1>5, <1>7 DEF Sound
<1>9. ASSUME NEW z \in Years
      PROVE  /\ new[z] = Null => Handed(new, z + 1) = 0
             /\ new[z] # Null => new[z].used + Handed(new, z + 1) <= new[z].allocated + new[z].carried
  <2>1. CASE z = y
    <3>1. y + 1 # y /\ y \in Int
        BY <1>4
    <3>2. Handed(new, z + 1) = 0
        BY <1>5, <1>6, <2>1, <3>1
    <3> QED BY <1>1, <1>2, <1>3, <2>1, <3>2
  <2>2. CASE z + 1 = y
    <3>1. z # y /\ z = y - 1
        BY <1>4, <2>2
    <3>2. new[z] = kept[z] /\ Handed(new, z + 1) = c /\ Handed(kept, z + 1) = 0
        BY <1>3, <1>5, <1>6, <2>2, <3>1
    <3>3. kept[z] # Null => kept[z] \in Balance
        OBVIOUS
    <3>4. kept[z] # Null => kept[z].used + 0 <= kept[z].allocated + kept[z].carried
        BY <3>2 DEF Sound
    <3>5. c = 0 \/ (kept[z] # Null /\ kept[z].used + c <= kept[z].allocated + kept[z].carried)
        BY <3>1 DEF Covers
    <3> QED BY <3>2, <3>3, <3>4, <3>5
  <2>3. CASE z # y /\ z + 1 # y
    <3>1. new[z] = kept[z] /\ Handed(new, z + 1) = Handed(kept, z + 1)
        BY <1>3, <1>5, <2>3
    <3> QED BY <3>1 DEF Sound
  <2> QED BY <2>1, <2>2, <2>3
<1>10. Sound(new)
    BY <1>8, <1>9 DEF Sound
<1> QED BY <1>10 DEF new, row

\* A row whose days change, and not by more than it has left.
LEMMA SoundUsed ==
    ASSUME NEW kept \in [Years -> Balance \cup {Null}], NEW y \in Years, kept[y] # Null,
           NEW used \in Nat, Sound(kept),
           used + Handed(kept, y + 1) <= kept[y].allocated + kept[y].carried
    PROVE  Sound([kept EXCEPT ![y] = [kept[y] EXCEPT !.used = used]])
<1> DEFINE old == kept[y]
           row == [old EXCEPT !.used = used]
           new == [kept EXCEPT ![y] = row]
<1>1. old \in Balance
    OBVIOUS
<1>2. /\ row \in Balance /\ row.allocated = old.allocated /\ row.carried = old.carried
      /\ row.used = used
    BY <1>1 DEF Balance
<1>3. used + Handed(kept, y + 1) <= old.allocated + old.carried
    OBVIOUS
<1>4. old # Null
    OBVIOUS
<1> HIDE DEF row
<1>5. row # Null
    BY <1>2, NullBalanceAssumption
<1>6. new[y] = row /\ (\A z \in Years : z # y => new[z] = kept[z]) /\ kept[y] = old
    OBVIOUS
<1> HIDE DEF new, old
<1>7. \A z : Handed(new, z) = Handed(kept, z)
    BY <1>2, <1>4, <1>5, <1>6 DEF Handed
<1>8. Sound(new)
    BY <1>2, <1>3, <1>5, <1>6, <1>7 DEF Sound
<1> QED BY <1>8 DEF new, row, old

LEMMA RolloverInitInv == RolloverInit => RolloverInv
<1> SUFFICES ASSUME RolloverInit PROVE RolloverInv
    OBVIOUS
<1>1. RolloverTypeOK
    BY PolicyAssumption DEF RolloverInit, RolloverTypeOK
<1>2. AtWork(rollover, filling) /\ rollover = Null
    BY DEF RolloverInit, AtWork
<1>3. \A k \in Kinds : Sound(balance[k])
    BY DEF RolloverInit, Sound, Handed
<1> QED BY <1>1, <1>2, <1>3 DEF RolloverInv

\* A step that leaves the balances alone, and carries what it read.
LEMMA WorkStep ==
    ASSUME RolloverInv, RolloverTypeOK', AtWork(rollover', filling'), UNCHANGED <<balance, late>>,
           \/ rollover' = rollover
           \/ rollover' # Null /\ rollover'.at = "CREATE" /\ rollover'.kind \notin late =>
                 Covers(balance[rollover'.kind], Year(rollover'.day), rollover'.carry)
    PROVE  RolloverInv'
BY DEF RolloverInv

LEMMA StartRolloverInv == ASSUME RolloverInv, StartRollover PROVE RolloverInv'
<1> DEFINE s == [rest |-> Kinds, at |-> "FIND", kind |-> Null, day |-> today, carry |-> 0]
<1>1. rollover' = s /\ UNCHANGED <<today, since, balance, filling, late>>
    BY DEF StartRollover
<1>2. RolloverTypeOK'
    BY <1>1 DEF RolloverInv, RolloverTypeOK
<1>3. s.at = "FIND"
    OBVIOUS
<1> HIDE DEF s
<1>4. AtWork(rollover', filling')
    BY <1>1, <1>3 DEF RolloverInv, AtWork
<1> QED BY <1>1, <1>2, <1>3, <1>4, WorkStep

LEMMA FirstIn == \A kinds : kinds # {} => First(kinds) \in kinds
BY DEF First

\* The jobs are of their types.
Rolling == [rest : SUBSET Kinds, at : {"FIND", "PREVIOUS", "CREATE"}, kind : Kinds \cup {Null},
            day : 0 .. LastDay, carry : Nat]
FillingJob == [rest : SUBSET Kinds, at : {"FIND", "CREATE"}, kind : Kinds \cup {Null}, year : Years]

LEMMA RolloverParts ==
    RolloverInv =>
      /\ today \in 0 .. LastDay /\ since \in Nat /\ late \subseteq Kinds
      /\ balance \in [Kinds -> [Years -> Balance \cup {Null}]]
      /\ rollover \in {Null} \cup Rolling /\ filling \in {Null} \cup FillingJob
      /\ AtWork(rollover, filling)
BY DEF RolloverInv, RolloverTypeOK, Rolling, FillingJob

\* The rollover goes to its next type.
LEMMA NextKindFields ==
    ASSUME NEW k, rollover \in Rolling
    PROVE  LET s == NextKind(k)
           IN  s \in Rolling /\ s.at = "FIND"
BY DEF NextKind, Rolling

LEMMA FindRowInv == ASSUME RolloverInv, FindRow PROVE RolloverInv'
<1> DEFINE k == First(rollover.rest)
           s == [rollover EXCEPT !.at = "PREVIOUS", !.kind = k]
<1>1. /\ rollover # Null /\ rollover.rest # {}
      /\ rollover' = NextKind(k) \/ rollover' = s
      /\ UNCHANGED <<today, since, balance, filling, late>>
    BY DEF FindRow
<1>2. rollover \in Rolling /\ k \in Kinds
  <2>1. rollover \in Rolling
      BY <1>1, RolloverParts
  <2>2. rollover.rest \in SUBSET Kinds
      BY <2>1 DEF Rolling
  <2> QED BY <1>1, <2>1, <2>2, FirstIn
<1> HIDE DEF k
<1>3. s \in Rolling /\ s.at = "PREVIOUS" /\ s.kind = k /\ k # Null
    BY <1>2, PolicyAssumption DEF Rolling
<1> HIDE DEF s
<1>4. NextKind(k) \in Rolling /\ NextKind(k).at = "FIND"
    BY <1>2, NextKindFields
<1>5. rollover' \in Rolling /\ rollover'.at # "CREATE" /\ (rollover'.at # "FIND" => rollover'.kind # Null)
    BY <1>1, <1>3, <1>4
<1>6. RolloverTypeOK'
    BY <1>1, <1>5 DEF RolloverInv, RolloverTypeOK, Rolling
<1>7. AtWork(rollover', filling')
    BY <1>1, <1>5, RolloverParts DEF AtWork
<1> QED BY <1>1, <1>5, <1>6, <1>7, WorkStep

LEMMA MinOfTwo == \A a, b \in Int : Min({a, b}) \in {a, b} /\ Min({a, b}) <= a /\ Min({a, b}) <= b
<1> SUFFICES ASSUME NEW a \in Int, NEW b \in Int
             PROVE  Min({a, b}) \in {a, b} /\ Min({a, b}) <= a /\ Min({a, b}) <= b
    OBVIOUS
<1>1. \E x \in {a, b} : \A y \in {a, b} : x <= y
    OBVIOUS
<1>2. Min({a, b}) \in {a, b} /\ \A y \in {a, b} : Min({a, b}) <= y
    BY <1>1 DEF Min
<1> QED BY <1>2

\* No more is carried than a year has left.
LEMMA LeftoverCovers ==
    ASSUME NEW k \in Kinds, balance \in [Kinds -> [Years -> Balance \cup {Null}]],
           NEW y \in Years, NEW c \in Nat, c <= Leftover(k, y - 1)
    PROVE  Covers(balance[k], y, c)
<1> DEFINE kept == balance[k]
           row == kept[y - 1]
<1>1. CASE y - 1 \notin Years \/ row = Null
  <2>1. Leftover(k, y - 1) = 0
      BY <1>1 DEF Leftover
  <2> QED BY <2>1 DEF Covers
<1>2. CASE y - 1 \in Years /\ row # Null
  <2>1. row \in Balance
      BY <1>2
  <2>2. Leftover(k, y - 1) = IF Remaining(row) > 0 THEN Remaining(row) ELSE 0
      BY <1>2 DEF Leftover
  <2>3. Remaining(row) = row.allocated + row.carried - row.used
      BY DEF Remaining
  <2>4. row.allocated \in Nat /\ row.carried \in Nat /\ row.used \in Nat
      BY <2>1 DEF Balance
  <2> HIDE DEF row
  <2>5. c = 0 \/ row.used + c <= row.allocated + row.carried
      BY <2>2, <2>3, <2>4
  <2> QED BY <1>2, <2>5 DEF Covers, row
<1> QED BY <1>1, <1>2

LEMMA LeftoverType ==
    ASSUME balance \in [Kinds -> [Years -> Balance \cup {Null}]], NEW k \in Kinds, NEW y
    PROVE  Leftover(k, y) \in Nat
<1>1. CASE y \notin Years \/ balance[k][y] = Null
    BY <1>1 DEF Leftover
<1>2. CASE y \in Years /\ balance[k][y] # Null
  <2> DEFINE row == balance[k][y]
  <2>1. row \in Balance
      BY <1>2
  <2>2. Leftover(k, y) = IF Remaining(row) > 0 THEN Remaining(row) ELSE 0
      BY <1>2 DEF Leftover
  <2>3. Remaining(row) \in Int
      BY <2>1 DEF Remaining, Balance
  <2> HIDE DEF row
  <2> QED BY <2>2, <2>3
<1> QED BY <1>1, <1>2

LEMMA ReadPreviousInv == ASSUME RolloverInv, ReadPrevious PROVE RolloverInv'
<1> DEFINE k == rollover.kind
           y == Year(rollover.day)
           left == Leftover(k, y - 1)
           c == IF ~Policy[k].forward THEN 0
                ELSE IF Policy[k].max = Null THEN left ELSE Min({left, Policy[k].max})
           s == [rollover EXCEPT !.at = "CREATE", !.carry = c]
<1>1. /\ rollover # Null /\ rollover.at = "PREVIOUS" /\ rollover' = s
      /\ UNCHANGED <<today, since, balance, filling, late>>
    BY DEF ReadPrevious
<1>2. rollover \in Rolling /\ k \in Kinds /\ rollover.day \in 0 .. LastDay /\ y \in Years
      /\ balance \in [Kinds -> [Years -> Balance \cup {Null}]]
    BY <1>1, RolloverParts, YearInYears DEF Rolling, AtWork
<1>3. left \in Nat
    BY <1>2, LeftoverType
<1>4. c \in Nat /\ c <= left
  <2>1. Policy[k].max \in Nat \cup {Null}
      BY <1>2, PolicyAssumption
  <2>2. CASE ~Policy[k].forward
      BY <1>3, <2>2
  <2>3. CASE Policy[k].forward /\ Policy[k].max = Null
      BY <1>3, <2>3
  <2>4. CASE Policy[k].forward /\ Policy[k].max # Null
    <3> DEFINE m == Policy[k].max
    <3>1. m \in Nat /\ c = Min({left, m})
        BY <2>1, <2>4
    <3> HIDE DEF m, left, c
    <3>2. Min({left, m}) \in {left, m} /\ Min({left, m}) <= left
        BY <1>3, <3>1, MinOfTwo
    <3> QED BY <1>3, <3>1, <3>2
  <2> QED BY <2>2, <2>3, <2>4
<1>5. Covers(balance[k], y, c)
  <2> HIDE DEF c, k, y
  <2> QED BY <1>2, <1>3, <1>4, LeftoverCovers
<1> HIDE DEF c
<1>6. s \in Rolling /\ s.at = "CREATE" /\ s.carry = c /\ s.kind = k /\ s.day = rollover.day
    BY <1>2, <1>4 DEF Rolling
<1> HIDE DEF s
<1>7. RolloverTypeOK'
    BY <1>1, <1>6 DEF RolloverInv, RolloverTypeOK, Rolling
<1>8. AtWork(rollover', filling')
    BY <1>1, <1>2, <1>6, RolloverParts, PolicyAssumption DEF AtWork
<1>9. Covers(balance[rollover'.kind], Year(rollover'.day), rollover'.carry)
    BY <1>1, <1>5, <1>6
<1> QED BY <1>1, <1>7, <1>8, <1>9, WorkStep

LEMMA EndRolloverInv ==
    ASSUME RolloverInv, EndRollover \/ ServerDiesRolling PROVE RolloverInv'
<1>1. /\ rollover' = Null /\ (filling' = filling \/ filling' = Null)
      /\ UNCHANGED <<today, since, balance, late>>
    BY DEF EndRollover, ServerDiesRolling
<1>2. RolloverTypeOK'
    BY <1>1 DEF RolloverInv, RolloverTypeOK
<1>3. AtWork(rollover', filling')
    BY <1>1, RolloverParts DEF AtWork
<1> QED BY <1>1, <1>2, <1>3, WorkStep

\* A step that changes the balances of one type.
LEMMA BalanceStep ==
    ASSUME RolloverInv, NEW k \in Kinds, NEW new \in [Years -> Balance \cup {Null}],
           balance' = [balance EXCEPT ![k] = new], UNCHANGED <<today, since>>,
           late \subseteq late', late' \subseteq Kinds,
           rollover' \in {Null} \cup Rolling, filling' \in {Null} \cup FillingJob,
           AtWork(rollover', filling'),
           k \notin late' => Sound(new),
           \/ rollover' # Null => rollover'.at # "CREATE"
           \/ /\ rollover' = rollover
              /\ \A c \in Nat : Covers(balance[k], Year(rollover.day), c) /\ rollover # Null
                                /\ rollover.at = "CREATE" /\ rollover.kind = k /\ k \notin late'
                                     => Covers(new, Year(rollover.day), c)
    PROVE  RolloverInv'
<1>1. balance'[k] = new /\ (\A q \in Kinds : q # k => balance'[q] = balance[q])
      /\ balance' \in [Kinds -> [Years -> Balance \cup {Null}]]
    BY RolloverParts
<1>2. RolloverTypeOK'
    BY <1>1 DEF RolloverInv, RolloverTypeOK, Rolling, FillingJob
<1>3. ASSUME NEW q \in Kinds \ late' PROVE Sound(balance'[q])
    BY <1>1 DEF RolloverInv
<1>4. ASSUME rollover' # Null, rollover'.at = "CREATE", rollover'.kind \notin late'
      PROVE  Covers(balance'[rollover'.kind], Year(rollover'.day), rollover'.carry)
  <2>1. rollover' = rollover /\ rollover.kind \notin late
      BY <1>4
  <2>2. rollover \in Rolling /\ rollover.kind \in Kinds /\ rollover.carry \in Nat
      BY <1>4, <2>1, RolloverParts DEF Rolling, AtWork
  <2>3. Covers(balance[rollover.kind], Year(rollover.day), rollover.carry)
      BY <1>4, <2>1 DEF RolloverInv
  <2>4. CASE rollover.kind = k
      BY <1>1, <1>4, <2>1, <2>2, <2>3, <2>4
  <2>5. CASE rollover.kind # k
      BY <1>1, <2>1, <2>2, <2>3, <2>5
  <2> QED BY <2>4, <2>5
<1> QED BY <1>2, <1>3, <1>4 DEF RolloverInv

LEMMA CoversNewRow ==
    ASSUME NEW kept \in [Years -> Balance \cup {Null}], NEW y \in Years, kept[y] = Null, NEW row,
           NEW z, NEW c, Covers(kept, z, c)
    PROVE  Covers([kept EXCEPT ![y] = row], z, c)
BY DEF Covers

LEMMA CreateRowInv == ASSUME RolloverInv, CreateRow PROVE RolloverInv'
<1> DEFINE k == rollover.kind
           y == Year(rollover.day)
           kept == balance[k]
           new == [kept EXCEPT ![y] = Row(Policy[k].days, rollover.carry)]
<1>1. /\ rollover # Null /\ rollover.at = "CREATE"
      /\ UNCHANGED <<today, since, filling, late>>
    BY DEF CreateRow
<1>2. /\ rollover \in Rolling /\ k \in Kinds /\ rollover.day \in 0 .. LastDay /\ y \in Years
      /\ rollover.carry \in Nat /\ kept \in [Years -> Balance \cup {Null}]
      /\ balance \in [Kinds -> [Years -> Balance \cup {Null}]] /\ AtWork(rollover, filling)
    BY <1>1, RolloverParts, YearInYears DEF Rolling, AtWork
<1>3. CASE kept[y] # Null
  <2>1. rollover' = Null /\ balance' = balance
      BY <1>3 DEF CreateRow
  <2>2. RolloverTypeOK'
      BY <1>1, <2>1 DEF RolloverInv, RolloverTypeOK
  <2>3. AtWork(rollover', filling')
      BY <1>1, <1>2, <2>1 DEF AtWork
  <2> QED BY <1>1, <2>1, <2>2, <2>3, WorkStep
<1>4. CASE kept[y] = Null
  <2>1. rollover' = NextKind(k) /\ balance' = [balance EXCEPT ![k] = new]
      BY <1>2, <1>4 DEF CreateRow, Put
  <2>2. rollover' \in Rolling /\ rollover'.at = "FIND"
    <3> HIDE DEF k
    <3> QED BY <1>2, <2>1, NextKindFields
  <2>3. Policy[k].days \in Nat
      BY <1>2, PolicyAssumption
  <2>4. Row(Policy[k].days, rollover.carry) \in Balance
      BY <1>2, <2>3 DEF Row, Balance
  <2>5. new \in [Years -> Balance \cup {Null}]
      BY <1>2, <2>4
  <2>6. k \notin late => Sound(kept) /\ Covers(kept, y, rollover.carry)
      BY <1>1, <1>2 DEF RolloverInv
  <2>7. k \notin late => Sound(new)
    <3> HIDE DEF kept, y, k
    <3> QED BY <1>2, <1>4, <2>3, <2>6, SoundNewRow
  <2>8. AtWork(rollover', filling')
      BY <1>1, <1>2, <2>2 DEF AtWork
  <2>9. filling' \in {Null} \cup FillingJob /\ late' \subseteq Kinds
      BY <1>1, RolloverParts
  <2> HIDE DEF new, k
  <2> QED BY <1>1, <1>2, <2>1, <2>2, <2>5, <2>7, <2>8, <2>9, BalanceStep
<1> QED BY <1>3, <1>4

\* The fill goes on with these types, if there are any left.
LEMMA FillJobType ==
    ASSUME NEW kinds \in SUBSET Kinds, NEW year \in Years
    PROVE  LET s == FillJob(kinds, year)
           IN  s \in {Null} \cup FillingJob /\ (s # Null => s.at = "FIND" /\ s.rest # {})
<1>1. CASE kinds = {}
    BY <1>1 DEF FillJob
<1>2. CASE kinds # {}
    BY <1>2 DEF FillJob, FillingJob
<1> QED BY <1>1, <1>2

\* A step of the fill, or its start, that leaves the balances alone.
LEMMA FillStep ==
    ASSUME RolloverInv, filling' \in {Null} \cup FillingJob,
           filling' # Null /\ filling'.at = "FIND" => filling'.rest # {},
           filling' # Null /\ filling'.at = "CREATE" => filling'.kind # Null,
           UNCHANGED <<today, balance, rollover, late>>, since' \in Nat
    PROVE  RolloverInv'
<1>1. RolloverTypeOK'
    BY DEF RolloverInv, RolloverTypeOK, FillingJob
<1>2. AtWork(rollover', filling')
    BY RolloverParts DEF AtWork
<1> QED BY <1>1, <1>2, WorkStep

LEMMA FindMissingInv == ASSUME RolloverInv, FindMissing PROVE RolloverInv'
<1> DEFINE k == First(filling.rest)
           s == [filling EXCEPT !.at = "CREATE", !.kind = k]
<1>1. /\ filling # Null /\ filling.at = "FIND"
      /\ filling' = FillRest(k) \/ filling' = s
      /\ UNCHANGED <<today, since, balance, rollover, late>>
    BY DEF FindMissing
<1>2. filling \in FillingJob /\ filling.rest # {} /\ since \in Nat
    BY <1>1, RolloverParts DEF AtWork
<1>3. filling.rest \in SUBSET Kinds /\ filling.year \in Years
    BY <1>2 DEF FillingJob
<1>4. k \in Kinds
    BY <1>2, <1>3, FirstIn
<1> HIDE DEF k
<1>5. s \in FillingJob /\ s.at = "CREATE" /\ s.kind = k /\ k # Null
    BY <1>2, <1>4, PolicyAssumption DEF FillingJob
<1> HIDE DEF s
<1>6. CASE filling' = FillRest(k)
  <2> DEFINE rest == filling.rest \ {k}
  <2>1. rest \in SUBSET Kinds /\ filling' = FillJob(rest, filling.year)
      BY <1>3, <1>6 DEF FillRest
  <2> HIDE DEF rest
  <2>2. filling' \in {Null} \cup FillingJob /\ (filling' # Null => filling'.at = "FIND" /\ filling'.rest # {})
      BY <1>3, <2>1, FillJobType
  <2> QED BY <1>1, <1>2, <2>2, FillStep
<1>7. CASE filling' = s
    BY <1>1, <1>2, <1>5, <1>7, FillStep
<1> QED BY <1>1, <1>6, <1>7

LEMMA StartFillInv ==
    ASSUME RolloverInv, InitializeBalances \/ ChangeCategory PROVE RolloverInv'
<1>1. /\ filling' = FillJob(Kinds, Year(today)) /\ (since' = since \/ since' = today)
      /\ UNCHANGED <<today, balance, rollover, late>>
    BY DEF InitializeBalances, ChangeCategory, Fill
<1>2. Year(today) \in Years /\ since' \in Nat
    BY <1>1, RolloverParts, YearInYears
<1>3. filling' \in {Null} \cup FillingJob /\ (filling' # Null => filling'.at = "FIND" /\ filling'.rest # {})
    BY <1>1, <1>2, FillJobType
<1> QED BY <1>1, <1>2, <1>3, FillStep

LEMMA CreateMissingInv == ASSUME RolloverInv, CreateMissing PROVE RolloverInv'
<1> DEFINE k == filling.kind
           y == filling.year
           kept == balance[k]
           new == [kept EXCEPT ![y] = Row(Policy[k].days, 0)]
<1>1. /\ filling # Null /\ filling.at = "CREATE"
      /\ UNCHANGED <<today, since, rollover, late>>
    BY DEF CreateMissing
<1>2. /\ filling \in FillingJob /\ k \in Kinds /\ y \in Years /\ filling.rest \in SUBSET Kinds
      /\ kept \in [Years -> Balance \cup {Null}] /\ since \in Nat
      /\ balance \in [Kinds -> [Years -> Balance \cup {Null}]]
    BY <1>1, RolloverParts DEF FillingJob, AtWork
<1>3. CASE kept[y] # Null
  <2>1. filling' = Null /\ balance' = balance
      BY <1>3 DEF CreateMissing
  <2> QED BY <1>1, <1>2, <2>1, FillStep
<1>4. CASE kept[y] = Null
  <2> DEFINE rest == filling.rest \ {k}
  <2>1. filling' = FillJob(rest, y) /\ balance' = [balance EXCEPT ![k] = new]
      BY <1>2, <1>4 DEF CreateMissing, Put, FillRest
  <2>2. rest \in SUBSET Kinds
      BY <1>2
  <2>3. Policy[k].days \in Nat
      BY <1>2, PolicyAssumption
  <2>4. Row(Policy[k].days, 0) \in Balance
      BY <2>3 DEF Row, Balance
  <2>5. new \in [Years -> Balance \cup {Null}]
      BY <1>2, <2>4
  <2>6. Covers(kept, y, 0) /\ (k \notin late => Sound(kept))
      BY <1>2 DEF RolloverInv, Covers
  <2>7. k \notin late => Sound(new)
    <3> HIDE DEF kept, y, k
    <3> QED BY <1>2, <1>4, <2>3, <2>6, SoundNewRow
  <2>8. \A z, c : Covers(kept, z, c) => Covers(new, z, c)
    <3> HIDE DEF kept, y, k
    <3> QED BY <1>2, <1>4, CoversNewRow
  <2>9. filling' \in {Null} \cup FillingJob /\ (filling' # Null => filling'.at = "FIND" /\ filling'.rest # {})
    <3> HIDE DEF rest
    <3> QED BY <1>2, <2>1, <2>2, FillJobType
  <2>10. AtWork(rollover', filling')
      BY <1>1, <2>9, RolloverParts DEF AtWork
  <2>11. rollover' \in {Null} \cup Rolling /\ late' \subseteq Kinds
      BY <1>1, RolloverParts
  <2> HIDE DEF new, k
  <2> QED BY <1>1, <1>2, <2>1, <2>5, <2>7, <2>8, <2>9, <2>10, <2>11, BalanceStep
<1> QED BY <1>3, <1>4

LEMMA AskForLeaveInv ==
    ASSUME RolloverInv, NEW k \in Asked, NEW y \in Years, AskForLeave(k, y) PROVE RolloverInv'
<1> DEFINE kept == balance[k]
           new == [kept EXCEPT ![y] = Row(0, 0)]
<1>1. kept[y] = Null /\ UNCHANGED <<today, since, rollover, filling, late>>
    BY DEF AskForLeave
<1>2. /\ k \in Kinds /\ kept \in [Years -> Balance \cup {Null}]
      /\ balance \in [Kinds -> [Years -> Balance \cup {Null}]]
    BY PolicyAssumption, RolloverParts
<1>3. balance' = [balance EXCEPT ![k] = new]
    BY <1>2 DEF AskForLeave, Put
<1>4. Row(0, 0) \in Balance
    BY DEF Row, Balance
<1>5. new \in [Years -> Balance \cup {Null}]
    BY <1>2, <1>4
<1>6. Covers(kept, y, 0) /\ (k \notin late => Sound(kept))
    BY <1>2 DEF RolloverInv, Covers
<1>7. k \notin late => Sound(new)
  <2> HIDE DEF kept
  <2> QED BY <1>1, <1>2, <1>6, SoundNewRow
<1>8. \A z, c : Covers(kept, z, c) => Covers(new, z, c)
  <2> HIDE DEF kept
  <2> QED BY <1>1, <1>2, CoversNewRow
<1>9. /\ rollover' \in {Null} \cup Rolling /\ filling' \in {Null} \cup FillingJob
      /\ AtWork(rollover', filling') /\ late' \subseteq Kinds
    BY <1>1, RolloverParts
<1> HIDE DEF new
<1> QED BY <1>1, <1>2, <1>3, <1>5, <1>7, <1>8, <1>9, BalanceStep

\* A day is taken or given back.
LEMMA UseStep ==
    ASSUME RolloverInv, NEW k \in Kinds, NEW y \in Years, balance[k][y] # Null, NEW used \in Nat,
           Put(k, y, [balance[k][y] EXCEPT !.used = used]),
           UNCHANGED <<today, since, rollover, filling>>, late \subseteq late', late' \subseteq Kinds,
           \/ k \in late'
           \/ used <= balance[k][y].used
           \/ /\ Handed(balance[k], y + 1) = 0
              /\ used <= balance[k][y].allocated + balance[k][y].carried
              /\ ~(rollover # Null /\ rollover.at = "CREATE" /\ rollover.kind = k
                     /\ Year(rollover.day) = y + 1)
    PROVE  RolloverInv'
<1> DEFINE kept == balance[k]
           row == kept[y]
           new == [kept EXCEPT ![y] = [row EXCEPT !.used = used]]
<1>1. /\ kept \in [Years -> Balance \cup {Null}] /\ row \in Balance /\ kept[y] # Null
      /\ balance' = [balance EXCEPT ![k] = new]
    BY RolloverParts DEF Put
<1>2. row.used \in Nat /\ row.allocated \in Nat /\ row.carried \in Nat
    BY <1>1 DEF Balance
<1>3. [row EXCEPT !.used = used] \in Balance /\ [row EXCEPT !.used = used].used = used
      /\ [row EXCEPT !.used = used].allocated = row.allocated
      /\ [row EXCEPT !.used = used].carried = row.carried
    BY <1>1 DEF Balance
<1>4. new \in [Years -> Balance \cup {Null}]
    BY <1>1, <1>3
<1>5. k \notin late => Sound(kept)
    BY DEF RolloverInv
<1>6. Handed(kept, y + 1) \in Nat
    BY <1>1 DEF Handed, Balance
<1>7. k \notin late' => used + Handed(kept, y + 1) <= row.allocated + row.carried
  <2>1. k \notin late' => row.used + Handed(kept, y + 1) <= row.allocated + row.carried
      BY <1>1, <1>5 DEF Sound
  <2>2. \/ k \in late'
        \/ used <= row.used
        \/ Handed(kept, y + 1) = 0 /\ used <= row.allocated + row.carried
      OBVIOUS
  <2> HIDE DEF kept, row
  <2> QED BY <1>2, <1>6, <2>1, <2>2
<1>8. k \notin late' => Sound(new)
  <2>1. k \notin late' => used + Handed(kept, y + 1) <= kept[y].allocated + kept[y].carried
      BY <1>7
  <2> HIDE DEF kept
  <2> QED BY <1>1, <1>5, <2>1, SoundUsed
<1>9. ASSUME NEW c \in Nat, Covers(kept, Year(rollover.day), c), rollover # Null, rollover.at = "CREATE",
             rollover.kind = k, k \notin late'
      PROVE  Covers(new, Year(rollover.day), c)
  <2> DEFINE z == Year(rollover.day)
  <2>1. new[y] = [row EXCEPT !.used = used] /\ \A x \in Years : x # y => new[x] = kept[x]
      BY <1>1
  <2>2. Year(rollover.day) \in Years /\ Years \subseteq Int
      BY <1>9, RolloverParts, YearInYears DEF Rolling, Years
  <2>3. new[y] # Null
      BY <1>3, <2>1, NullBalanceAssumption
  <2>4. CASE z - 1 # y
      BY <1>9, <2>1, <2>4 DEF Covers
  <2>5. CASE z - 1 = y
    <3>1. used <= row.used
        BY <1>9, <2>2, <2>5
    <3>2. c = 0 \/ row.used + c <= row.allocated + row.carried
        BY <1>9, <2>5 DEF Covers
    <3>3. c = 0 \/ used + c <= row.allocated + row.carried
      <4> HIDE DEF row
      <4> QED BY <1>2, <3>1, <3>2
    <3>4. new[y].used = used /\ new[y].allocated = row.allocated /\ new[y].carried = row.carried
        BY <1>3, <2>1
    <3> HIDE DEF new, row, kept
    <3> QED BY <2>3, <2>5, <3>3, <3>4 DEF Covers
  <2> QED BY <2>4, <2>5
<1>10. /\ rollover' \in {Null} \cup Rolling /\ filling' \in {Null} \cup FillingJob
       /\ AtWork(rollover', filling') /\ rollover' = rollover
    BY RolloverParts
<1> HIDE DEF new
<1> QED BY <1>1, <1>4, <1>8, <1>9, <1>10, BalanceStep

LEMMA TakeLeaveInv ==
    ASSUME RolloverInv, NEW k \in Asked, NEW y \in Years, TakeLeave(k, y) PROVE RolloverInv'
<1> DEFINE row == balance[k][y]
           used == row.used + 1
<1>1. /\ k \in Kinds /\ row # Null /\ UNCHANGED <<today, since, rollover, filling>>
      /\ late' = IF ReadAlready(k, y) \/ Remaining(row) <= 0 THEN late \cup {k} ELSE late
    BY PolicyAssumption DEF TakeLeave
<1>2. row \in Balance
    BY <1>1, RolloverParts
<1>3. row.used \in Nat /\ row.allocated \in Nat /\ row.carried \in Nat /\ used \in Nat
    BY <1>2 DEF Balance
<1>4. Put(k, y, [balance[k][y] EXCEPT !.used = used])
    BY <1>1, <1>2, RolloverParts DEF TakeLeave
<1>5. late \subseteq late' /\ late' \subseteq Kinds
    BY <1>1, RolloverParts
<1>6. ASSUME k \notin late'
      PROVE  /\ Handed(balance[k], y + 1) = 0
             /\ used <= row.allocated + row.carried
             /\ ~(rollover # Null /\ rollover.at = "CREATE" /\ rollover.kind = k
                    /\ Year(rollover.day) = y + 1)
  <2>1. ~ReadAlready(k, y) /\ ~(Remaining(row) <= 0)
      BY <1>1, <1>6
  <2>2. used <= row.allocated + row.carried
    <3> HIDE DEF row
    <3> QED BY <1>3, <2>1 DEF Remaining
  <2>3. Handed(balance[k], y + 1) = 0
    <3>1. CASE y + 1 \in Years /\ balance[k][y + 1] # Null
      <4>1. balance[k][y + 1] \in Balance
          BY <1>1, <3>1, RolloverParts
      <4>2. balance[k][y + 1].carried \in Nat
          BY <4>1 DEF Balance
      <4> QED BY <2>1, <3>1, <4>2 DEF ReadAlready, Handed
    <3>2. CASE ~(y + 1 \in Years /\ balance[k][y + 1] # Null)
        BY <3>2 DEF Handed
    <3> QED BY <3>1, <3>2
  <2> QED BY <2>1, <2>2, <2>3 DEF ReadAlready
<1> HIDE DEF used
<1> QED BY <1>1, <1>3, <1>4, <1>5, <1>6, UseStep

LEMMA CancelTakenInv ==
    ASSUME RolloverInv, NEW k \in Asked, NEW y \in Years, CancelTaken(k, y) PROVE RolloverInv'
<1> DEFINE row == balance[k][y]
           used == row.used - 1
<1>1. /\ k \in Kinds /\ row # Null /\ row.used > 0
      /\ UNCHANGED <<today, since, rollover, filling, late>>
    BY PolicyAssumption DEF CancelTaken
<1>2. row \in Balance
    BY <1>1, RolloverParts
<1>3. used \in Nat /\ used <= row.used
    BY <1>1, <1>2 DEF Balance
<1>4. Put(k, y, [balance[k][y] EXCEPT !.used = used])
    BY <1>1, <1>2, RolloverParts DEF CancelTaken
<1>5. late \subseteq late' /\ late' \subseteq Kinds
    BY <1>1, RolloverParts
<1> HIDE DEF used
<1> QED BY <1>1, <1>3, <1>4, <1>5, UseStep

LEMMA NextDayInv == ASSUME RolloverInv, NextDay PROVE RolloverInv'
<1>1. today < LastDay /\ today' = today + 1 /\ UNCHANGED <<since, balance, rollover, filling, late>>
    BY DEF NextDay
<1>2. today' \in 0 .. LastDay
    BY <1>1, RolloverParts, PolicyAssumption
<1>3. RolloverTypeOK' /\ AtWork(rollover', filling')
    BY <1>1, <1>2 DEF RolloverInv, RolloverTypeOK
<1> QED BY <1>1, <1>3, WorkStep

LEMMA RolloverStepInv == RolloverInv /\ [RolloverNext]_rolloverVars => RolloverInv'
<1> SUFFICES ASSUME RolloverInv, [RolloverNext]_rolloverVars PROVE RolloverInv'
    OBVIOUS
<1>1. CASE StartRollover \/ FindRow \/ ReadPrevious \/ CreateRow \/ EndRollover
    BY <1>1, StartRolloverInv, FindRowInv, ReadPreviousInv, CreateRowInv, EndRolloverInv
<1>2. CASE FindMissing \/ CreateMissing \/ InitializeBalances
    BY <1>2, FindMissingInv, CreateMissingInv, StartFillInv
<1>3. ASSUME NEW k \in Asked, NEW y \in Years, AskForLeave(k, y) \/ TakeLeave(k, y) \/ CancelTaken(k, y)
      PROVE  RolloverInv'
    BY <1>3, AskForLeaveInv, TakeLeaveInv, CancelTakenInv
<1>4. CASE ChangeCategory \/ NextDay \/ ServerDiesRolling
    BY <1>4, StartFillInv, NextDayInv, EndRolloverInv
<1>5. CASE UNCHANGED rolloverVars
    BY <1>5 DEF rolloverVars, RolloverInv, RolloverTypeOK
<1> QED BY <1>1, <1>2, <1>3, <1>4, <1>5 DEF RolloverNext

LEMMA RolloverInvariant == RolloverSpec => []RolloverInv
<1> QED BY RolloverInitInv, RolloverStepInv, PTL DEF RolloverSpec

\* runAnniversaryRollover and initializeBalances leave the rows of every year and their
\* jobs of their types, whatever nights were missed.
THEOREM RolloverTypeCorrect == RolloverSpec => []RolloverTypeOK
<1>1. RolloverInv => RolloverTypeOK
    BY DEF RolloverInv
<1> QED BY <1>1, RolloverInvariant, PTL

\* runAnniversaryRollover: over all years no more is used of a leave type than was ever
\* allocated, because a day that is carried is a day that was left.
THEOREM NoDayIsTakenTwice == RolloverSpec => []NoDayTwice
<1>1. RolloverInv => NoDayTwice
  <2> SUFFICES ASSUME RolloverInv, NEW k \in Kinds \ late
               PROVE  SumFunction(UsedOf(k)) <= SumFunction(AllocatedOf(k))
      BY DEF NoDayTwice
  <2> DEFINE n == Year(LastDay)
             kept == balance[k]
             R == RowsOf(k)
             f == UsedOf(k)
             h == AllocatedOf(k)
             c == [y \in 0 .. n + 1 |-> Handed(kept, y)]
  <2>1. /\ n \in Nat /\ Sound(kept) /\ kept \in [Years -> Balance \cup {Null}]
        /\ Years = 0 .. n
    <3>1. LastDay \in 0 .. LastDay
        BY PolicyAssumption
    <3>2. n \in Years
        BY <3>1, YearInYears
    <3> QED BY <3>2, RolloverParts DEF RolloverInv, Years
  <2>2. R \in SUBSET (0 .. n) /\ \A y \in 0 .. n : y \in R <=> kept[y] # Null
      BY <2>1 DEF RowsOf
  <2>3. \A y \in R : f[y] = kept[y].used /\ h[y] = kept[y].allocated /\ kept[y] \in Balance
      BY <2>1, <2>2 DEF UsedOf, AllocatedOf
  <2>4. DOMAIN f = R /\ DOMAIN h = R
      BY DEF UsedOf, AllocatedOf
  <2>5. \A y \in 0 .. n + 1 : c[y] = Handed(kept, y) /\ c[y] \in Nat
      BY <2>1 DEF Handed, Balance
  <2>6. \A y \in 0 .. n : y \in 0 .. n + 1 /\ y + 1 \in 0 .. n + 1
      BY <2>1
  <2>7. \A y \in R : c[y] = kept[y].carried
      BY <2>1, <2>2, <2>5, <2>6 DEF Handed
  <2> HIDE DEF kept, R, f, h, c, n
  <2>8. \A y \in R : f[y] \in Nat /\ h[y] \in Nat
      BY <2>3 DEF Balance
  <2>9. c[0] = 0
      BY <2>1, <2>5 DEF Sound
  <2>10. \A y \in R : f[y] + c[y + 1] <= h[y] + c[y]
      BY <2>1, <2>2, <2>3, <2>5, <2>6, <2>7 DEF Sound
  <2>11. \A y \in (0 .. n) \ R : c[y + 1] = 0
      BY <2>1, <2>2, <2>5, <2>6 DEF Sound
  <2>12. SumFunctionOnSet(f, R) <= SumFunctionOnSet(h, R)
      BY <2>1, <2>2, <2>5, <2>8, <2>9, <2>10, <2>11, SumHandedOn
  <2>13. SumFunction(f) <= SumFunction(h)
      BY <2>4, <2>12 DEF SumFunction
  <2> QED BY <2>13 DEF f, h
<1> QED BY <1>1, RolloverInvariant, PTL

-----------------------------------------------------------------------------
(* The lists of a page. *)

\* The changes the hooks do not name (the tables of WebScreens).
Unnamed ==
    ({"createLeaveType", "deactivateLeaveType", "quickAddPolicy"}
        \X ({"my-eligible-leave-types"} \cup BalanceLists))
    \cup ({"deactivateLeaveType"} \X {"leave-category-policies"})
    \cup ({"updateCategory"} \X ({"leave-category-policies"} \cup EmployeeRows))
    \cup ({"deletePolicy"} \X {"my-eligible-leave-types"})
    \cup ({"renameLeave"}
        \X (RequestLists \cup BalanceLists \cup {"my-eligible-leave-types", "dashboard"}))
    \cup ({"createLeave"}
        \X {"my-leave-requests", "my-approvals", "my-leave-balances", "attendance", "roster",
            "dashboard"})
    \cup ({"approveLeave"}
        \X {"leave-applied-on-behalf", "my-leave-requests", "my-leave-balances", "roster",
            "dashboard"})
    \cup ({"rejectLeave"} \X {"leave-applied-on-behalf", "my-leave-requests"})
    \cup ({"approveCancellation"}
        \X {"leave-applied-on-behalf", "my-leave-balances", "roster", "dashboard"})
    \cup ({"rejectCancellation"} \X {"leave-applied-on-behalf"})
    \cup ({"cancelLeave"}
        \X {"leave-applied-on-behalf", "my-leave-requests", "my-approvals", "my-leave-balances",
            "roster", "dashboard", "leave-pending-count"})
    \cup ({"syncAttendance"} \X {"roster", "devices"})
    \cup ({"approveAttendance"} \X {"attendance-missing"})
    \cup ({"manualPunch", "correctAttendance"} \X {"attendance-missing", "dashboard", "roster"})
    \cup ({"createMyLeave", "cancelMyLeave"}
        \X {"leave-requests", "my-approvals", "leave-balances", "leave-pending-count",
            "attendance", "roster"})
    \cup ({"createDevice", "connect", "disconnect", "restart", "syncTime"} \X {"dashboard"})
    \cup ({"updateDevice"} \X {"sync-history", "dashboard"})
    \cup ({"deleteDevice"} \X {"sync-history", "device-logs", "dashboard"})
    \cup ({"testConnection"} \X {"device-logs"})
    \cup ({"deviceInfo", "deviceUsers"} \X {"devices", "dashboard"})
    \cup ({"createEmployee", "importDeviceUsers"} \X (NewEmployeeLists \ {"employees"}))
    \cup ({"bulkSync", "retryFailed", "resign"} \X {"employee"})
    \cup ({"resign"} \X {"roster", "dashboard"})
    \cup ({"updateEmployee"}
        \X ((EmployeeNames \cup AccountNames \cup BalanceLists \cup {"my-eligible-leave-types"})
            \ EmployeeRows))
    \cup ({"resetPassword"} \X (EmployeeRows \cup {"system-users", "app-users"}))
    \cup ({"deleteEmployee"}
        \X ((EmployeeNames \ {"employees"})
            \cup {"leave-balances", "leave-pending-count", "roster-pending-count"}))
    \cup ({"toggleStatus", "reinstate"} \X {"roster", "sync-history", "dashboard"})
    \cup ({"reinstate"} \X {"employee"})
    \cup ({"createUser"} \X (EmployeeRows \cup {"app-users"}))
    \cup ({"updateUser", "deleteUser"} \X (AccountNames \ {"system-users"}))
    \cup ({"createAppUser"} \X (EmployeeRows \cup {"system-users"}))
    \cup ({"deleteAppUser"} \X (AccountNames \ {"app-users"}))
    \cup ({"changeAccess"} \X (AccountNames \ EmployeeRows))
    \cup ({"createDepartment"} \X {"leave-workflows", "dashboard"})
    \cup ({"updateDepartment", "deleteDepartment"} \X (DepartmentNames \ {"departments"}))
    \cup ({"updateDesignation", "deleteDesignation"} \X (DesignationNames \ {"designations"}))
    \cup ({"updateShift", "deleteShift"} \X (ShiftNames \ {"shifts"}))
    \cup ({"createHoliday", "updateHoliday", "deleteHoliday"} \X {"dashboard"})
    \cup ({"saveWorkflow", "deleteWorkflow"} \X ({"dashboard"} \cup RequestLists))

\* Every other call names what the server changes with it.
LEMMA CallsName ==
    ASSUME NEW c \in AllCalls, NEW list \in c.writes \ c.names
    PROVE  <<c.name, list>> \in Unnamed
<1> USE DEF Unnamed, Call, Tidy
<1>1. CASE c \in UNION {LeaveTypeCalls, CategoryCalls, PolicyCalls, RosterCalls}
  BY <1>1 DEF LeaveTypeCalls, CategoryCalls, PolicyCalls, RosterCalls, LeaveTypeNames, OfferLists
<1>2. CASE c \in UNION {RequestCalls, CancellationCalls}
  BY <1>2 DEF RequestCalls, CancellationCalls, CancelLeave, RejectCancellation, DecidedLists,
              RequestLists, BalanceLists
<1>3. CASE c \in UNION {AttendanceCalls, BalanceCalls, MyLeaveCalls}
  BY <1>3 DEF AttendanceCalls, BalanceCalls, MyLeaveCalls, RequestLists, BalanceLists, RecordLists
<1>4. CASE c \in UNION {DeviceCalls, DeviceQuestions, EnrolCalls}
  BY <1>4 DEF DeviceCalls, DeviceQuestions, EnrolCalls, EmployeeRows
<1>5. CASE c \in UNION {EmployeeCalls, StatusCalls}
  BY <1>5 DEF EmployeeCalls, StatusCalls, EmployeeRows, ActivationLists
<1>6. CASE c \in UNION {UserCalls, AppUserCalls, AccessCalls}
  BY <1>6 DEF UserCalls, AppUserCalls, AccessCalls
<1>7. CASE c \in UNION {DepartmentCalls, SuperiorCalls, DesignationCalls, ShiftCalls}
  BY <1>7 DEF DepartmentCalls, SuperiorCalls, DesignationCalls, ShiftCalls
<1>8. CASE c \in UNION {HolidayCalls, WorkflowCalls, NotificationCalls, CompanyCalls}
  BY <1>8 DEF HolidayCalls, WorkflowCalls, NotificationCalls, CompanyCalls
<1> QED BY <1>1, <1>2, <1>3, <1>4, <1>5, <1>6, <1>7, <1>8 DEF AllCalls

\* What is shown beside calls, they name, or Forgotten says so.
NamesShown(p) ==
    \A name \in p.makes, list \in p.shows :
        <<name, list>> \in Unnamed => <<name, list>> \in Forgotten

\* So it is for every screen of the Workbench and of the older client.
LEMMA ScreensName == \A s \in Workbench.screens \cup AppShell.screens : NamesShown(s)
<1> USE DEF NamesShown, Unnamed, Forgotten, Screen, Together, Part, RequestLists, BalanceLists,
            EmployeeRows, EmployeeNames, AccountNames, DepartmentNames, DesignationNames, ShiftNames,
            NewEmployeeLists
<1>1. NamesShown(LeaveRequestsPanel)
  BY DEF LeaveRequestsPanel, NewLeaveRequestModal, ApproveLeaveModal, RejectLeaveModal,
         CancelLeaveModal, Makes
<1>2. NamesShown(LeavePage)
  BY DEF LeavePage, NewLeaveRequestModal, ApproveLeaveModal, RejectLeaveModal,
         CancelLeaveModal, Shows, Makes
<1>3. NamesShown(LeaveOnBehalfPanel)
  BY DEF LeaveOnBehalfPanel, NewLeaveRequestModal, Shows
<1>4. NamesShown(EmployeeListTab)
  <2> USE DEF EmployeeListTab, EmployeeFormModal, AttendanceHistoryModal, Shows
  <2>1. \A list \in EmployeeListTab.shows :
           list \in {"employees", "departments", "devices", "designations", "shifts",
                     "employee-categories", "attendance"}
    OBVIOUS
  <2>2. \A name \in EmployeeListTab.makes :
           name \in {"deleteEmployee", "importDeviceUsers", "createEmployee", "updateEmployee",
                     "resetPassword"}
    OBVIOUS
  <2> HIDE DEF EmployeeListTab
  <2>3. \A list \in EmployeeListTab.shows :
           /\ <<"createEmployee", list>> \notin Unnamed /\ <<"importDeviceUsers", list>> \notin Unnamed
           /\ \A name \in {"updateEmployee", "deleteEmployee", "resetPassword"} :
                 <<name, list>> \in Unnamed => <<name, list>> \in Forgotten
    BY <2>1
  <2> HIDE DEF Unnamed, Forgotten, Screen, Together, Part
  <2> QED BY <2>2, <2>3
<1>5. NamesShown(EmployeeProfileTab)
  <2> DEFINE content == EmployeeProfileContent
  <2>1. /\ \A list \in content.shows :
              list \in {"departments", "designations", "shifts", "employee-categories"}
        /\ \A name \in content.makes :
              name \in {"toggleStatus", "resign", "changeAccess", "updateEmployee", "resetPassword"}
    <3>1. /\ EmployeeStatusToggle.shows = {}
          /\ \A name \in EmployeeStatusToggle.makes : name \in {"toggleStatus", "resign"}
      BY DEF EmployeeStatusToggle, ResignEmployeeModal, Makes
    <3>2. AccountAccessSection.shows = {} /\ AccountAccessSection.makes = {"changeAccess"}
      BY DEF AccountAccessSection, Makes
    <3>3. LET form == EmployeeFormModal({"updateEmployee"})
          IN  /\ form.shows = {"departments", "designations", "shifts", "employee-categories"}
              /\ form.makes = {"updateEmployee", "resetPassword"}
      BY DEF EmployeeFormModal
    <3> QED BY <3>1, <3>2, <3>3 DEF EmployeeProfileContent
  <2> HIDE DEF content
  <2>2. /\ \A list \in EmployeeProfileTab.shows : list = "employee" \/ list \in content.shows
        /\ \A name \in EmployeeProfileTab.makes : name \in content.makes
    BY DEF EmployeeProfileTab, Shows, content
  <2>3. \A list \in EmployeeProfileTab.shows :
           /\ <<"toggleStatus", list>> \notin Unnamed /\ <<"changeAccess", list>> \notin Unnamed
           /\ \A name \in {"updateEmployee", "resetPassword", "resign"} :
                 <<name, list>> \in Unnamed => <<name, list>> \in Forgotten
    BY <2>1, <2>2
  <2> HIDE DEF Unnamed, Forgotten, Screen, Together, Part
  <2> QED BY <2>1, <2>2, <2>3
<1>6. NamesShown(PersonnelDashboard)
  BY DEF PersonnelDashboard, SummaryCards, LateToday, OnLeaveToday, AttendanceTrend,
         AttendanceOverview, DepartmentAttendanceTable, MyTeamAttendance, MyCalendarCard,
         TeamOnLeave, RealTimeMonitor, TodaysAttendance, PendingApprovals, RecentActivity,
         Shows
<1>7. NamesShown(DeviceModuleView) /\ NamesShown(DevicePage)
  BY DEF DeviceModuleView, DevicePage, DeviceCard, AddDeviceModal, Makes
<1>8. NamesShown(AttendancePage) /\ NamesShown(AttendanceReport)
  BY DEF AttendancePage, AttendanceReport, ManualPunchModal, CorrectionModal, Makes, Shows
<1>9. NamesShown(DepartmentProgram)
  BY DEF DepartmentProgram, AddDepartmentModal, EditDepartmentModal
<1>10. NamesShown(DesignationProgram) /\ NamesShown(HolidayProgram)
  BY DEF DesignationProgram, HolidayProgram, AddDesignationModal, EditDesignationModal,
         AddHolidayModal, EditHolidayModal, Makes
<1>11. /\ NamesShown(LeaveWorkflowsProgram) /\ NamesShown(LeavePolicyProgram)
      /\ NamesShown(LeaveTypeProgram) /\ NamesShown(CompanyProgram)
  BY DEF LeaveWorkflowsProgram, LeavePolicyProgram, LeaveTypeProgram, CompanyProgram
<1>12. /\ NamesShown(ResignedEmployeesProgram) /\ NamesShown(RosterProgram)
      /\ NamesShown(ShiftProgram) /\ NamesShown(SystemSettingsModuleView)
  BY DEF ResignedEmployeesProgram, RosterProgram, ShiftProgram, SystemSettingsModuleView
<1>13. /\ NamesShown(DashboardPage) /\ NamesShown(DepartmentsPage)
      /\ NamesShown(DesignationsPage) /\ NamesShown(DepartmentSuperiorsPage)
  BY DEF DashboardPage, DepartmentsPage, DesignationsPage, DepartmentSuperiorsPage, Shows
<1>14. /\ NamesShown(ShiftsPage) /\ NamesShown(ReportsPage)
      /\ NamesShown(AuditLogsPage) /\ NamesShown(SettingsPage)
  BY DEF ShiftsPage, ReportsPage, AuditLogsPage, SettingsPage, Shows, CompanySettings,
         UserManagement
<1> HIDE DEF NamesShown, Screen, Together, Part, Unnamed, Forgotten
<1>15. ASSUME NEW s \in Workbench.screens \cup AppShell.screens PROVE NamesShown(s)
  BY <1>1, <1>2, <1>3, <1>4, <1>5, <1>6, <1>7, <1>8, <1>9, <1>10, <1>11, <1>12, <1>13, <1>14
     DEF Workbench, AppShell
<1> QED BY <1>15

\* A screen within the frame of its client.
Framed(s, frame) == Together({s, frame})

\* In the portals the frames show lists of leaves, and one of them files leaves.
LEMMA PortalsName ==
    /\ \A s \in ManagerPortal.screens : NamesShown(Framed(s, ManagerPortal.frame))
    /\ \A s \in EmployeePortal.screens : NamesShown(Framed(s, EmployeePortal.frame))
<1> DEFINE mf == ManagerPortal.frame
           ef == EmployeePortal.frame
<1>1. /\ \A list \in mf.shows : list \in {"notifications", "my-approvals"}
      /\ \A name \in mf.makes : name \in {"markRead", "markAllRead"}
  BY DEF ManagerPortal, PortalBell, Together, Part, Shows
<1>2. /\ \A list \in ef.shows :
            list \in {"notifications", "my-approvals", "my-eligible-leave-types",
                      "my-leave-balances"}
      /\ \A name \in ef.makes : name \in {"markRead", "markAllRead", "createMyLeave"}
  BY DEF EmployeePortal, PortalBell, MyLeaveRequestModal, Together, Part, Shows
<1> HIDE DEF mf, ef
<1> USE DEF NamesShown, Framed, Screen, Together, Part
<1>3. ASSUME NEW f \in {mf, ef}, NEW s,
             \A name \in s.makes \cup f.makes, list \in s.shows \cup f.shows :
                <<name, list>> \in Unnamed => <<name, list>> \in Forgotten
      PROVE  NamesShown(Framed(s, f))
  BY <1>3
<1> HIDE DEF NamesShown, Framed
<1> USE DEF Unnamed, Forgotten, RequestLists, BalanceLists, EmployeeRows, EmployeeNames,
            AccountNames, DepartmentNames, DesignationNames, ShiftNames, NewEmployeeLists
<1>4. NamesShown(Framed(ManagerDashboard, mf))
  BY <1>1, <1>3 DEF ManagerDashboard, MyCalendarCard, TeamOnLeave, RealTimeMonitor,
                    MyLeaveRequestModal, Shows
<1>5. NamesShown(Framed(MyLeaveTab, mf))
  BY <1>1, <1>3 DEF MyLeaveTab, MyLeaveRequestModal
<1>6. NamesShown(Framed(LeaveRequestTab, mf))
  BY <1>1, <1>3 DEF LeaveRequestTab, ApproveLeaveModal, RejectLeaveModal, Makes
<1>7. NamesShown(Framed(LeaveOnBehalfTab, mf))
  BY <1>1, <1>3 DEF LeaveOnBehalfTab, NewTeamLeaveModal, Shows
<1>8. NamesShown(Framed(RosterProgram, mf)) /\ NamesShown(Framed(ManagerShifts, mf))
  BY <1>1, <1>3 DEF RosterProgram, ManagerShifts, Shows
<1>9. NamesShown(Framed(EmployeeDashboard, ef))
  BY <1>2, <1>3 DEF EmployeeDashboard, MyCalendarCard, Shows
<1>10. NamesShown(Framed(MyLeaveTab, ef))
  BY <1>2, <1>3 DEF MyLeaveTab, MyLeaveRequestModal
<1>11. NamesShown(Framed(LeaveRequestTab, ef))
  BY <1>2, <1>3 DEF LeaveRequestTab, ApproveLeaveModal, RejectLeaveModal, Makes
<1> HIDE DEF Screen, Together, Part, Unnamed, Forgotten
<1>12. /\ \A s \in ManagerPortal.screens : NamesShown(Framed(s, mf))
       /\ \A s \in EmployeePortal.screens : NamesShown(Framed(s, ef))
  BY <1>4, <1>5, <1>6, <1>7, <1>8, <1>9, <1>10, <1>11 DEF ManagerPortal, EmployeePortal
<1> QED BY <1>12 DEF mf, ef

\* A screen is known by its name.
LEMMA ScreenNames == \A x, y \in AllScreens : x.name = y.name => x = y
<1> DEFINE A == {LeaveRequestsPanel, LeaveOnBehalfPanel, LeaveWorkflowsProgram, LeavePolicyProgram,
                 LeaveTypeProgram, EmployeeListTab, EmployeeProfileTab, ResignedEmployeesProgram,
                 RosterProgram, ShiftProgram, ManagerShifts, DepartmentProgram}
           B == {DesignationProgram, HolidayProgram, CompanyProgram, AttendanceReport,
                 DeviceModuleView, SystemSettingsModuleView, PersonnelDashboard, ManagerDashboard,
                 EmployeeDashboard, MyLeaveTab, LeaveRequestTab, LeaveOnBehalfTab}
           C == {DashboardPage, DepartmentsPage, DesignationsPage, DepartmentSuperiorsPage,
                 ShiftsPage, AttendancePage, LeavePage, DevicePage, ReportsPage, AuditLogsPage,
                 SettingsPage}
<1>1. \A x \in A : x.name \in
         {"LeaveRequestsPanel", "LeaveOnBehalfPanel", "LeaveWorkflowsProgram",
          "LeavePolicyProgram", "LeaveTypeProgram", "EmployeeListTab", "EmployeeProfileTab",
          "ResignedEmployeesProgram", "RosterProgram", "ShiftProgram", "ManagerShifts",
          "DepartmentProgram"}
  BY DEF Screen,
         LeaveRequestsPanel, LeaveOnBehalfPanel, LeaveWorkflowsProgram, LeavePolicyProgram,
         LeaveTypeProgram, EmployeeListTab, EmployeeProfileTab, ResignedEmployeesProgram,
         RosterProgram, ShiftProgram, ManagerShifts, DepartmentProgram
<1>2. \A x, y \in A : x.name = y.name => x = y
  BY DEF Screen,
         LeaveRequestsPanel, LeaveOnBehalfPanel, LeaveWorkflowsProgram, LeavePolicyProgram,
         LeaveTypeProgram, EmployeeListTab, EmployeeProfileTab, ResignedEmployeesProgram,
         RosterProgram, ShiftProgram, ManagerShifts, DepartmentProgram
<1>3. \A x \in B : x.name \in
         {"DesignationProgram", "HolidayProgram", "CompanyProgram", "AttendanceReport",
          "DeviceModuleView", "SystemSettingsModuleView", "PersonnelDashboard",
          "ManagerDashboard", "EmployeeDashboard", "MyLeaveTab", "LeaveRequestTab",
          "LeaveOnBehalfTab"}
  BY DEF Screen,
         DesignationProgram, HolidayProgram, CompanyProgram, AttendanceReport, DeviceModuleView,
         SystemSettingsModuleView, PersonnelDashboard, ManagerDashboard, EmployeeDashboard,
         MyLeaveTab, LeaveRequestTab, LeaveOnBehalfTab
<1>4. \A x, y \in B : x.name = y.name => x = y
  BY DEF Screen,
         DesignationProgram, HolidayProgram, CompanyProgram, AttendanceReport, DeviceModuleView,
         SystemSettingsModuleView, PersonnelDashboard, ManagerDashboard, EmployeeDashboard,
         MyLeaveTab, LeaveRequestTab, LeaveOnBehalfTab
<1>5. \A x \in C : x.name \in
         {"DashboardPage", "DepartmentsPage", "DesignationsPage", "DepartmentSuperiorsPage",
          "ShiftsPage", "AttendancePage", "LeavePage", "DevicePage", "ReportsPage",
          "AuditLogsPage", "SettingsPage"}
  BY DEF Screen,
         DashboardPage, DepartmentsPage, DesignationsPage, DepartmentSuperiorsPage, ShiftsPage,
         AttendancePage, LeavePage, DevicePage, ReportsPage, AuditLogsPage, SettingsPage
<1>6. \A x, y \in C : x.name = y.name => x = y
  BY DEF Screen,
         DashboardPage, DepartmentsPage, DesignationsPage, DepartmentSuperiorsPage, ShiftsPage,
         AttendancePage, LeavePage, DevicePage, ReportsPage, AuditLogsPage, SettingsPage
<1>7. AllScreens \subseteq A \cup B \cup C
  BY DEF AllScreens, Clients, Workbench, ManagerPortal, EmployeePortal, AppShell
<1> HIDE DEF A, B, C
<1>8. /\ \A x \in A, y \in B : x.name # y.name
      /\ \A x \in A, y \in C : x.name # y.name
      /\ \A x \in B, y \in C : x.name # y.name
  BY <1>1, <1>3, <1>5
<1> QED BY <1>2, <1>4, <1>6, <1>7, <1>8

\* Of a list that is mounted, a call made there misses only what Forgotten has.
LEMMA SentNames ==
    ASSUME client \in DOMAIN Clients, view \in ScreensOf[client], NEW c \in AllCalls,
           c.name \in ScreenOf[view].makes \cup Clients[client].frame.makes,
           watched \in c.writes \ c.names, Mounted
    PROVE  <<c.name, watched>> \in Forgotten
<1> DEFINE s == ScreenOf[view]
           frame == Clients[client].frame
<1>1. <<c.name, watched>> \in Unnamed
  BY CallsName
<1>2. s \in Clients[client].screens
  <2>1. view \in {x.name : x \in Clients[client].screens}
    BY DEF ScreensOf
  <2>2. PICK x \in Clients[client].screens : x.name = view
    BY <2>1
  <2>3. x \in AllScreens
    BY <2>2 DEF AllScreens
  <2>4. s \in AllScreens /\ s.name = view
    BY <2>2, <2>3 DEF ScreenOf
  <2> QED BY <2>2, <2>3, <2>4, ScreenNames
<1>3. client \in {"HRADMIN", "MANAGER", "EMPLOYEE", "PAGES"}
  BY DEF Clients
<1> HIDE DEF s, frame
<1>4. c.name \in s.makes \cup frame.makes /\ watched \in s.shows \cup frame.shows
  BY DEF Mounted, s, frame
<1>5. CASE client \in {"HRADMIN", "PAGES"}
  <2>1. s \in Workbench.screens \cup AppShell.screens
    BY <1>2, <1>5 DEF Clients
  <2>2. /\ \A name \in frame.makes : name \in {"markRead", "markAllRead"}
        /\ \A list \in frame.shows : list = "notifications"
    BY <1>5 DEF frame, Clients, Workbench, AppShell, NotificationBell, Part, Shows
\* The bell's calls name what they change, and no other call changes its list.
  <2>3. c.name \notin {"markRead", "markAllRead"} /\ watched # "notifications"
    BY <1>1 DEF Unnamed, RequestLists, BalanceLists, EmployeeRows, EmployeeNames, AccountNames,
                DepartmentNames, DesignationNames, ShiftNames, NewEmployeeLists
  <2>4. c.name \in s.makes /\ watched \in s.shows
    BY <1>4, <2>2, <2>3
  <2>5. NamesShown(s)
    BY <2>1, ScreensName
  <2> QED BY <1>1, <2>4, <2>5 DEF NamesShown
<1>6. CASE client \in {"MANAGER", "EMPLOYEE"}
  <2>1. NamesShown(Framed(s, frame))
    BY <1>2, <1>6, PortalsName DEF Clients, frame
  <2>2. c.name \in Framed(s, frame).makes /\ watched \in Framed(s, frame).shows
    BY <1>4 DEF Framed, Together, Part
  <2> QED BY <1>1, <2>1, <2>2 DEF NamesShown
<1> QED BY <1>3, <1>5, <1>6

\* A change of this page whose answer is on its way.
Answering == \E h \in Hands : calls[h] # Null /\ calls[h].done /\ calls[h].writes

\* The inductive invariant: what lacks a change is told by a call, a fetch or a mark.
CacheInv ==
    /\ CacheTypeOK
    /\ \A h \in Hands : calls[h] # Null /\ calls[h].writes => calls[h].names \/ calls[h].missed
    /\ cached.fetch = "READ_BEHIND" => blind \/ Answering
    /\ cached.data = "BEHIND" /\ cached.fetch = "IDLE" =>
          blind \/ Answering \/ (cached.marked /\ ~Mounted)

\* What the cache may hold of a list.
Entry == [data : {"NONE", "CURRENT", "BEHIND"}, marked : BOOLEAN, old : BOOLEAN,
          fetch : {"IDLE", "SENT", "READ_CURRENT", "READ_BEHIND"}]

\* The first screen fetches, and nothing is on its way.
LEMMA CacheInitInv == CacheInit => CacheInv
<1> SUFFICES ASSUME CacheInit PROVE CacheInv
  OBVIOUS
<1>1. NoData \in Entry /\ MountOn(NoData) \in Entry
  BY DEF NoData, MountOn, Fetching, Entry
<1>2. cached \in Entry /\ cached.data = "NONE" /\ ~cached.old /\ cached.fetch # "READ_BEHIND"
  BY <1>1 DEF CacheInit, NoData, MountOn, Fetching
<1> QED BY <1>2 DEF CacheInit, CacheInv, CacheTypeOK, Entry

\* The screen, the fetches and time.
LEMMA CacheFetches ==
    ASSUME CacheInv,
           \/ \E s \in ScreensOf[client] : Show(s)
           \/ ServerReads \/ FetchLands \/ FetchFails \/ PollAgain \/ GrowOld \/ Collect
    PROVE  CacheInv'
<1>1. /\ client' = client /\ watched' = watched /\ calls' = calls /\ cached \in Entry
      /\ blind \in BOOLEAN /\ (cached.data = "NONE" => ~cached.old)
      /\ client \in DOMAIN Clients /\ view \in ScreensOf[client] /\ watched \in ShownIn(client)
      /\ calls \in [Hands -> Coming \cup {Null}]
  BY DEF CacheInv, CacheTypeOK, Entry, Show, ServerReads, FetchLands, FetchFails, PollAgain, GrowOld,
         Collect
<1>2. Answering' <=> Answering
  BY <1>1 DEF Answering
<1>3. view' \in ScreensOf[client]
  BY <1>1 DEF Show, ServerReads, FetchLands, FetchFails, PollAgain, GrowOld, Collect
<1>4. SUFFICES /\ cached' \in Entry /\ blind' \in BOOLEAN /\ (cached'.data = "NONE" => ~cached'.old)
               /\ cached'.fetch = "READ_BEHIND" => blind' \/ Answering
               /\ cached'.data = "BEHIND" /\ cached'.fetch = "IDLE" =>
                     blind' \/ Answering \/ (cached'.marked /\ ~Mounted')
  BY <1>1, <1>2, <1>3 DEF CacheInv, CacheTypeOK, Entry
<1>5. /\ cached.fetch = "READ_BEHIND" => blind \/ Answering
      /\ cached.data = "BEHIND" /\ cached.fetch = "IDLE" =>
            blind \/ Answering \/ (cached.marked /\ ~Mounted)
  BY DEF CacheInv
<1>6. ASSUME NEW s \in ScreensOf[client], Show(s) PROVE <1>4!1
  BY <1>1, <1>5, <1>6 DEF Show, Mounted, MountOn, Fetching, Entry
<1>7. CASE ServerReads \/ PollAgain \/ GrowOld
  BY <1>1, <1>5, <1>7 DEF ServerReads, PollAgain, GrowOld, Fetching, Entry, Mounted
<1>8. CASE FetchLands
  BY <1>1, <1>5, <1>8 DEF FetchLands, Entry, Mounted
<1>9. CASE FetchFails
  BY <1>1, <1>5, <1>9 DEF FetchFails, Entry, Mounted
<1>10. CASE Collect
  BY <1>1, <1>5, <1>10 DEF Collect, NoData, Entry, Mounted
<1> QED BY <1>6, <1>7, <1>8, <1>9, <1>10

\* The calls and their answers.
LEMMA CacheCalls ==
    ASSUME CacheInv, NEW h \in Hands,
           \/ \E c \in AllCalls : SendCallOf(h, c)
           \/ ServerPerforms(h) \/ CallSucceeds(h) \/ CallFails(h)
    PROVE  CacheInv'
<1>1. /\ client' = client /\ watched' = watched /\ view' = view /\ cached \in Entry
      /\ blind \in BOOLEAN /\ (cached.data = "NONE" => ~cached.old)
      /\ client \in DOMAIN Clients /\ view \in ScreensOf[client] /\ watched \in ShownIn(client)
      /\ calls \in [Hands -> Coming \cup {Null}]
  BY DEF CacheInv, CacheTypeOK, Entry, SendCallOf, ServerPerforms, CallSucceeds, CallFails
<1>2. Mounted' <=> Mounted
  BY <1>1 DEF Mounted
<1>3. /\ \A g \in Hands : calls[g] # Null /\ calls[g].writes => calls[g].names \/ calls[g].missed
      /\ cached.fetch = "READ_BEHIND" => blind \/ Answering
      /\ cached.data = "BEHIND" /\ cached.fetch = "IDLE" =>
            blind \/ Answering \/ (cached.marked /\ ~Mounted)
  BY DEF CacheInv
<1>4. ASSUME NEW c \in AllCalls, SendCallOf(h, c) PROVE CacheInv'
  <2> DEFINE call == [writes |-> watched \in c.writes, names |-> watched \in c.names,
                      missed |-> watched \in c.writes \ c.names
                                 /\ (~Mounted \/ <<c.name, watched>> \in Forgotten),
                      done |-> FALSE]
  <2>1. calls[h] = Null /\ calls' = [calls EXCEPT ![h] = call] /\ UNCHANGED <<cached, blind>>
    BY <1>4 DEF SendCallOf
  <2>2. call.writes => call.names \/ call.missed
    BY <1>1, <1>4, SentNames DEF SendCallOf
  <2>3. call \in Coming /\ ~call.done
    BY DEF Coming
  <2> HIDE DEF call
  <2>4. calls' \in [Hands -> Coming \cup {Null}]
    BY <1>1, <2>1, <2>3
  <2>5. Answering => Answering'
    BY <1>1, <2>1 DEF Answering
  <2>6. \A g \in Hands : calls'[g] # Null /\ calls'[g].writes => calls'[g].names \/ calls'[g].missed
    BY <1>1, <1>3, <2>1, <2>2
  <2> QED BY <1>1, <1>2, <1>3, <2>1, <2>4, <2>5, <2>6 DEF CacheInv, CacheTypeOK, Entry
<1>5. CASE ServerPerforms(h)
  <2>1. /\ calls[h] \in Coming /\ blind' = blind
        /\ calls' = [calls EXCEPT ![h] = [calls[h] EXCEPT !.done = TRUE]]
        /\ cached' = IF calls[h].writes THEN Behind(cached) ELSE cached
    BY <1>1, <1>5 DEF ServerPerforms
  <2>2. calls' \in [Hands -> Coming \cup {Null}]
    BY <1>1, <2>1 DEF Coming
  <2>3. \A g \in Hands : calls'[g] # Null /\ calls'[g].writes => calls'[g].names \/ calls'[g].missed
    BY <1>1, <1>3, <1>5, <2>1 DEF Coming, ServerPerforms
  <2>4. (Answering => Answering') /\ (calls[h].writes => Answering')
    <3>1. /\ calls'[h] = [calls[h] EXCEPT !.done = TRUE] /\ calls'[h] # Null
          /\ \A g \in Hands : g # h => calls'[g] = calls[g]
      <4>1. [calls[h] EXCEPT !.done = TRUE] \in Coming
        BY <2>1 DEF Coming
      <4> QED BY <1>1, <2>1, <4>1, NullCallAssumption
    <3>2. calls'[h].done /\ calls'[h].writes = calls[h].writes
      BY <2>1, <3>1 DEF Coming
    <3>3. ~calls[h].done
      BY <1>5 DEF ServerPerforms
    <3> QED BY <3>1, <3>2, <3>3 DEF Answering
  <2>5. cached' \in Entry /\ (cached'.data = "NONE" => ~cached'.old)
    BY <1>1, <2>1 DEF Behind, Entry
  <2>6. CASE calls[h].writes
    BY <1>1, <2>1, <2>2, <2>3, <2>4, <2>5, <2>6 DEF CacheInv, CacheTypeOK, Entry
  <2>7. CASE ~calls[h].writes
    BY <1>1, <1>2, <1>3, <2>1, <2>2, <2>3, <2>4, <2>5, <2>7 DEF CacheInv, CacheTypeOK, Entry
  <2> QED BY <2>6, <2>7
<1>6. CASE CallSucceeds(h) \/ CallFails(h)
  <2>1. calls[h] \in Coming /\ calls' = [calls EXCEPT ![h] = Null]
    BY <1>1, <1>6 DEF CallSucceeds, CallFails
  <2>2. calls' \in [Hands -> Coming \cup {Null}]
    BY <1>1, <2>1
  <2>3. \A g \in Hands : calls'[g] # Null /\ calls'[g].writes => calls'[g].names \/ calls'[g].missed
    BY <1>1, <1>3, <2>1
  <2>4. Answering => Answering' \/ (calls[h].done /\ calls[h].writes)
    BY <1>1, <2>1 DEF Answering
  <2>5. calls[h].writes => calls[h].names \/ calls[h].missed
    BY <1>3, <1>6 DEF CallSucceeds, CallFails
  <2>6. CASE CallFails(h)
    <3>1. cached' = cached /\ blind' = (blind \/ (Lacking /\ calls[h].writes))
      BY <2>6 DEF CallFails
    <3> QED BY <1>1, <1>2, <1>3, <2>2, <2>3, <2>4, <3>1 DEF CacheInv, CacheTypeOK, Entry, Lacking
  <2>7. CASE CallSucceeds(h)
    <3>1. /\ cached' = IF calls[h].names THEN Invalidated ELSE cached
          /\ blind' = \/ blind
                      \/ Lacking /\ calls[h].missed
                      \/ cached.fetch = "READ_BEHIND" /\ calls[h].names
                         /\ (~Mounted \/ cached.data = "NONE")
      BY <2>7 DEF CallSucceeds
    <3>2. cached' \in Entry /\ blind' \in BOOLEAN /\ (cached'.data = "NONE" => ~cached'.old)
      BY <1>1, <3>1, <2>1 DEF Invalidated, Entry, Coming, Lacking
    <3>3. CASE calls[h].names
      <4>1. /\ cached'.data = cached.data /\ cached'.marked
            /\ cached'.fetch = IF Mounted /\ (cached.data # "NONE" \/ cached.fetch = "IDLE")
                               THEN "SENT" ELSE cached.fetch
        BY <1>1, <3>1, <3>3 DEF Invalidated, Entry
      <4>2. cached'.fetch = "READ_BEHIND" => blind'
        BY <1>1, <3>1, <3>3, <4>1
      <4>3. cached'.data = "BEHIND" /\ cached'.fetch = "IDLE" => cached'.marked /\ ~Mounted
        BY <4>1
      <4> QED BY <1>1, <1>2, <2>2, <2>3, <3>2, <4>2, <4>3 DEF CacheInv, CacheTypeOK, Entry
    <3>4. CASE ~calls[h].names
      BY <1>1, <1>2, <1>3, <2>2, <2>3, <2>4, <2>5, <3>1, <3>2, <3>4
         DEF CacheInv, CacheTypeOK, Entry, Lacking
    <3> QED BY <3>3, <3>4
  <2> QED BY <1>6, <2>6, <2>7
<1> QED BY <1>4, <1>5, <1>6

\* Every step keeps the invariant.
LEMMA CacheStep == CacheInv /\ [CacheNext]_cacheVars => CacheInv'
<1>1. CacheInv /\ CacheNext => CacheInv'
  BY CacheFetches, CacheCalls DEF CacheNext
<1>2. CacheInv /\ UNCHANGED cacheVars => CacheInv'
  BY DEF CacheInv, CacheTypeOK, cacheVars, Answering, Mounted
<1> QED BY <1>1, <1>2

\* Screen, entry and calls are of their types, on every screen of every client.
THEOREM CacheTypeCorrect == CacheSpec => []CacheTypeOK
<1>1. CacheInv => CacheTypeOK
  BY DEF CacheInv
<1> QED BY <1>1, CacheInitInv, CacheStep, PTL DEF CacheSpec

\* Once calls and fetches are through, a mounted list lacks no change of this page
\* but in the ways that are known, however many calls it has on their way.
THEOREM OwnChangesAreShown == CacheSpec => []ShowsOwnChanges
<1>1. CacheInv => ShowsOwnChanges
  BY DEF CacheInv, ShowsOwnChanges, Answering
<1> QED BY <1>1, CacheInitInv, CacheStep, PTL DEF CacheSpec

-----------------------------------------------------------------------------
(* The desk as TLC runs it: one module in a behaviour, the others at rest.     *)

LEMMA DeskStepIsOfEach ==
    [DeskNext]_deskVars =>
      /\ [AttNext]_attVars /\ [RosterNext]_rosterVars /\ [RolloverNext]_rolloverVars
      /\ [AccountNext]_accountVars /\ [PolicyNext]_policyVars /\ [CacheNext]_cacheVars
<1>1. UNCHANGED deskVars =>
        UNCHANGED <<attVars, rosterVars, rolloverVars, accountVars, policyVars, cacheVars>>
  BY DEF deskVars
<1>2. DeskNext =>
        \/ AttNext /\ UNCHANGED <<rosterVars, rolloverVars, accountVars, policyVars, cacheVars>>
        \/ RosterNext /\ UNCHANGED <<attVars, rolloverVars, accountVars, policyVars, cacheVars>>
        \/ RolloverNext /\ UNCHANGED <<attVars, rosterVars, accountVars, policyVars, cacheVars>>
        \/ AccountNext /\ UNCHANGED <<attVars, rosterVars, rolloverVars, policyVars, cacheVars>>
        \/ PolicyNext /\ UNCHANGED <<attVars, rosterVars, rolloverVars, accountVars, cacheVars>>
        \/ CacheNext /\ UNCHANGED <<attVars, rosterVars, rolloverVars, accountVars, policyVars>>
  BY DEF DeskNext
<1> QED BY <1>1, <1>2

\* Whichever part of it a behaviour runs, the desk is a behaviour of every module (but for
\* the fairness of Attendance), so what the modules are proved to keep, the desk keeps.
THEOREM DeskIsOfEach ==
    DeskSpec => /\ AttInit /\ [][AttNext]_attVars
                /\ RosterSpec /\ RolloverSpec /\ AccountSpec /\ PolicySpec /\ CacheSpec
<1>1. DeskInit => /\ AttInit /\ RosterInit /\ RolloverInit /\ AccountInit
                  /\ PolicyInit /\ CacheInit
  BY DEF DeskInit
<1> QED
  BY <1>1, DeskStepIsOfEach, PTL
     DEF DeskSpec, RosterSpec, RolloverSpec, AccountSpec, PolicySpec, CacheSpec

\* Rows, jobs, screens and lists of every service at the desk are of their types.
THEOREM DeskTypeCorrect == DeskSpec => []DeskTypeOK
<1>1. AttInv => AttTypeOK
  BY DEF AttInv
<1>2. AttInit /\ [][AttNext]_attVars => []AttTypeOK
  BY <1>1, AttInitInv, AttStepInv, PTL
<1>3. AttTypeOK /\ RosterTypeOK /\ RolloverTypeOK /\ AccountTypeOK /\ PolicyTypeOK /\ CacheTypeOK
        => DeskTypeOK
  BY DEF DeskTypeOK
<1> QED
  BY <1>2, <1>3, DeskIsOfEach, RosterTypeCorrect, RolloverTypeCorrect, AccountsTypeCorrect,
     PoliciesTypeCorrect, CacheTypeCorrect, PTL
=============================================================================
