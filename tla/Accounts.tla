--------------------------------- MODULE Accounts ---------------------------------
(***************************************************************************)
(* Employees and their logins: saving the employee form creates or         *)
(* converts the login of the employee (EmployeesService, UsersService),    *)
(* await by await; HR resets passwords and edits logins, and people change *)
(* their own passwords (AuthService).                                      *)
(***************************************************************************)
EXTENDS Common

CONSTANTS
    Employees,
    Codes,      \* Employee IDs: also default passwords, and names of logins
    Usernames,  \* names chosen for staff logins
    Logins,     \* ids of User rows
    Savers,     \* HR's requests under way at a time that save an employee
    Resetters,  \* and that reset a password
    Edits       \* the roles a login is given in System Settings (input set)

ASSUME NamesAssumption ==
    /\ Edits \subseteq {"EMPLOYEE", "MANAGER", "ADMIN"}
    /\ Codes \cap Usernames = {} /\ Null \notin Codes \cup Usernames \cup Logins \cup Employees

EmployeeRoles == {"EMPLOYEE", "MANAGER", "ADMINISTRATOR"}
Roles == {"EMPLOYEE", "MANAGER", "ADMIN"}

VARIABLES
    staff,  \* Employee
    login,  \* User: name is its e-mail column, a code stands for the synthetic
            \* address made of it; password is a code or CHOSEN
    save,   \* the running requests, Null for none
    odd     \* history: employees of whom two requests overlapped, one failed or
            \* died half-way, or whose login was edited or created by other means

accountVars == <<staff, login, save, odd>>

Requests == Savers \cup Resetters

Login == [name : Codes \cup Usernames, role : Roles, password : Codes \cup {"CHOSEN"},
          must : BOOLEAN, of : Employees \cup {Null}]

Save ==
    [of : Employees, role : EmployeeRoles \cup {Null}, code : Codes \cup {Null},
     username : Usernames \cup {Null},    \* staffUsername, given with a staffPassword
     at : {"ROW", "FIND", "CREATE", "CONVERT", "RESET"},
     found : Logins \cup {Null}, was : Roles \cup {Null}]   \* the login as it was read

StaffRow == [code : Codes, role : EmployeeRoles]

ASSUME NullRowsAssumption ==
    /\ Null \notin EmployeeRoles /\ Null \notin Roles
    /\ Null \notin StaffRow /\ Null \notin Login /\ Null \notin Save

AccountTypeOK ==
    /\ staff \in [Employees -> StaffRow \cup {Null}]
    /\ login \in [Logins -> Login \cup {Null}]
    /\ save \in [Requests -> Save \cup {Null}]
    /\ odd \subseteq Employees

AccountInit ==
    /\ staff = [e \in Employees |-> Null]
    /\ login = [u \in Logins |-> Null]
    /\ save = [r \in Requests |-> Null]
    /\ odd = {}

RoleFor(employeeRole) == IF employeeRole = "ADMINISTRATOR" THEN "ADMIN" ELSE employeeRole
CodeTaken(code, e) == \E f \in Employees \ {e} : staff[f] # Null /\ staff[f].code = code
NameTaken(name, u) == \E v \in Logins \ {u} : login[v] # Null /\ login[v].name = name
LoginsOf(e) == {u \in Logins : login[u] # Null /\ login[u].of = e}
IsStaffLogin(u) == login[u].role = "ADMIN"
SaveAt(r, at) == save[r] # Null /\ save[r].at = at
\* Ids are never used again: a new row's is none that a request still holds.
FreeLogins == {u \in Logins : login[u] = Null /\ \A r \in Requests : save[r] # Null => save[r].found # u}
FreeLogin == CHOOSE u \in FreeLogins : TRUE
Done(r) == save' = [save EXCEPT ![r] = Null]
Others(r, e) == \E q \in Requests \ {r} : save[q] # Null /\ save[q].of = e

\* Credentials that come with another role are never looked at.
NewSave(e, role, code, username, at) ==
    [of |-> e, role |-> role, code |-> code, at |-> at,
     username |-> IF role = "ADMINISTRATOR" THEN username ELSE Null,
     found |-> Null, was |-> Null]

\* The request begins, or it overlaps another of the same employee.
Begin(r, s) ==
    /\ save[r] = Null
    /\ save' = [save EXCEPT ![r] = s]
    /\ odd' = IF Others(r, s.of) THEN odd \cup {s.of} ELSE odd

-----------------------------------------------------------------------------
(* EmployeesService. *)

\* create(): the row, and then the login, whose failure is only logged.
CreateEmployee(r, e, code, role, username) ==
    /\ staff[e] = Null /\ ~CodeTaken(code, e)
    /\ role = "ADMINISTRATOR" => username # Null
    /\ staff' = [staff EXCEPT ![e] = [code |-> code, role |-> role]]
    /\ Begin(r, NewSave(e, role, Null, username, "CREATE"))
    /\ UNCHANGED login

\* update(), up to its first write.  A role that is not on the form stays.
StartUpdate(r, e, code, role, username) ==
    /\ staff[e] # Null /\ ~CodeTaken(code, e)
    /\ role = "ADMINISTRATOR" =>
          username # Null \/ \E u \in LoginsOf(e) : IsStaffLogin(u)
    /\ Begin(r, NewSave(e, role, code, username, "ROW"))
    /\ UNCHANGED <<staff, login>>

\* The request ends in an error, after part of it was done or before.
Fail(r) == Done(r) /\ odd' = odd \cup {save[r].of} /\ UNCHANGED <<staff, login>>

WriteRow(r) ==
    LET s == save[r]
    IN  /\ SaveAt(r, "ROW")
        /\ IF staff[s.of] = Null \/ CodeTaken(s.code, s.of) THEN Fail(r)
           ELSE /\ staff' = [staff EXCEPT ![s.of] =
                      [code |-> s.code, role |-> IF s.role = Null THEN @.role ELSE s.role]]
                /\ IF s.role = Null THEN Done(r) ELSE save' = [save EXCEPT ![r].at = "FIND", ![r].code = Null]
                /\ UNCHANGED <<login, odd>>

\* remove(): the foreign key of the login is set to null, the login stays.
RemoveEmployee(e) ==
    /\ staff[e] # Null
    /\ staff' = [staff EXCEPT ![e] = Null]
    /\ login' = [u \in Logins |-> IF u \in LoginsOf(e) THEN [login[u] EXCEPT !.of = Null]
                                  ELSE login[u]]
    /\ odd' = IF \E r \in Requests : save[r] # Null /\ save[r].of = e THEN odd \cup {e}
              ELSE odd \ {e}
    /\ UNCHANGED save

-----------------------------------------------------------------------------
(* UsersService.syncLoginForEmployeeRole, create, applyStaffCredentials. *)

FindLogin(r) ==
    LET s == save[r]
    IN  /\ SaveAt(r, "FIND")
        /\ IF staff[s.of] = Null THEN Fail(r)
           ELSE /\ save' = [save EXCEPT ![r] =
                      IF LoginsOf(s.of) = {} THEN [@ EXCEPT !.at = "CREATE"]
                      ELSE LET u == CHOOSE u \in LoginsOf(s.of) : TRUE
                           IN  [@ EXCEPT !.at = "CONVERT", !.code = staff[s.of].code,
                                         !.found = u, !.was = login[u].role]]
                /\ UNCHANGED <<staff, login, odd>>

\* The new row of the login of an employee: an Employee ID login has the code as
\* its password, to be changed at once.
NewLogin(e, role, username) ==
    [name |-> IF role = "ADMIN" THEN username ELSE staff[e].code, role |-> role,
     password |-> IF role = "ADMIN" THEN "CHOSEN" ELSE staff[e].code,
     must |-> role # "ADMIN", of |-> e]

\* One login of an employee, and one of a name; an administrator's needs one given.
CreateLogin(r) ==
    LET s == save[r]
        u == FreeLogin
        role == RoleFor(s.role)
    IN  /\ SaveAt(r, "CREATE")
        /\ FreeLogins # {}
        /\ IF \/ staff[s.of] = Null \/ LoginsOf(s.of) # {}
              \/ role = "ADMIN" /\ s.username = Null
              \/ NameTaken(NewLogin(s.of, role, s.username).name, u)
           THEN Fail(r)
           ELSE /\ login' = [login EXCEPT ![u] = NewLogin(s.of, role, s.username)]
                /\ Done(r) /\ UNCHANGED <<staff, odd>>

\* Slip: the role is only changed when an administrator's login is converted back.
ConvertedKeepingRole(l, was, role, code, username) ==
    CASE role = "ADMIN" /\ username # Null -> [l EXCEPT !.name = username, !.password = "CHOSEN"]
      [] role = "ADMIN" /\ username = Null -> l
      [] role # "ADMIN" /\ was = "ADMIN" ->
           [l EXCEPT !.role = role, !.name = code, !.password = code, !.must = TRUE]
      [] role # "ADMIN" /\ was # "ADMIN" -> [l EXCEPT !.role = role]

\* What a login becomes: an administrator's is a staff login, with the given
\* credentials if any; one that no longer is becomes an Employee ID login again;
\* of any other only the role changes, if it was another.
Converted(l, was, role, code, username) ==
    CASE role = "ADMIN" /\ username # Null ->
           [l EXCEPT !.role = "ADMIN", !.name = username, !.password = "CHOSEN"]
      [] role = "ADMIN" /\ username = Null -> l
      [] role # "ADMIN" /\ was = "ADMIN" ->
           [l EXCEPT !.role = role, !.name = code, !.password = code, !.must = TRUE]
      [] role # "ADMIN" /\ was # "ADMIN" -> [l EXCEPT !.role = IF role = was THEN @ ELSE role]

ConvertLogin(r) ==
    LET s == save[r]
        u == s.found
        role == RoleFor(s.role)
        new == Converted(login[u], s.was, role, s.code, s.username)
    IN  /\ SaveAt(r, "CONVERT")
        /\ IF \/ login[u] = Null
              \/ role = "ADMIN" /\ s.was # "ADMIN" /\ s.username = Null
              \/ NameTaken(new.name, u)
           THEN Fail(r)
           ELSE /\ login' = [login EXCEPT ![u] = new]
                /\ Done(r) /\ UNCHANGED <<staff, odd>>

-----------------------------------------------------------------------------
(* resetPasswordByEmployeeId; the other ways a login changes. *)

\* Not for an administrator's login.
StartReset(r, e) ==
    /\ staff[e] # Null
    /\ \A u \in LoginsOf(e) : ~IsStaffLogin(u)
    /\ Begin(r, [NewSave(e, Null, Null, Null, "RESET") EXCEPT
                     !.found = IF LoginsOf(e) = {} THEN Null ELSE CHOOSE u \in LoginsOf(e) : TRUE])
    /\ UNCHANGED <<staff, login>>

ResetPassword(r) ==
    LET u == save[r].found
    IN  /\ SaveAt(r, "RESET") /\ u # Null
        /\ IF login[u] = Null THEN Fail(r)
           ELSE /\ login' = [login EXCEPT ![u].password = "CHOSEN", ![u].must = TRUE]
                /\ Done(r) /\ UNCHANGED <<staff, odd>>

\* An employee without a login gets one, of an EMPLOYEE whatever he is.
ResetCreates(r) ==
    LET e == save[r].of
        u == FreeLogin
    IN  /\ SaveAt(r, "RESET") /\ save[r].found = Null
        /\ FreeLogins # {}
        /\ IF staff[e] = Null \/ LoginsOf(e) # {} \/ NameTaken(staff[e].code, u) THEN Fail(r)
           ELSE /\ login' = [login EXCEPT ![u] =
                      [NewLogin(e, "EMPLOYEE", Null) EXCEPT !.password = "CHOSEN"]]
                /\ Done(r) /\ UNCHANGED <<staff, odd>>

\* AuthService.changePassword.
ChangePassword(u) ==
    /\ login[u] # Null
    /\ login' = [login EXCEPT ![u].password = "CHOSEN", ![u].must = FALSE]
    /\ UNCHANGED <<staff, save, odd>>

\* UsersService.update, remove: System Settings.
EditLogin(u, role) ==
    /\ login[u] # Null
    /\ login' = [login EXCEPT ![u].role = role]
    /\ odd' = odd \cup ({login[u].of} \ {Null})
    /\ UNCHANGED <<staff, save>>

RemoveLogin(u) ==
    /\ login[u] # Null
    /\ login' = [login EXCEPT ![u] = Null]
    /\ odd' = odd \cup ({login[u].of} \ {Null})
    /\ UNCHANGED <<staff, save>>

ServerDiesSaving ==
    /\ save' = [r \in Requests |-> Null]
    /\ odd' = odd \cup {save[r].of : r \in {q \in Requests : save[q] # Null}}
    /\ UNCHANGED <<staff, login>>

AccountNext ==
    \/ \E r \in Savers, e \in Employees, code \in Codes, name \in Usernames \cup {Null} :
          \/ \E role \in EmployeeRoles : CreateEmployee(r, e, code, role, name)
          \/ \E role \in EmployeeRoles \cup {Null} : StartUpdate(r, e, code, role, name)
    \/ \E r \in Savers : WriteRow(r) \/ FindLogin(r) \/ CreateLogin(r) \/ ConvertLogin(r)
    \/ \E r \in Resetters :
          (\E e \in Employees : StartReset(r, e)) \/ ResetPassword(r) \/ ResetCreates(r)
    \/ \E e \in Employees : RemoveEmployee(e)
    \/ \E u \in Logins :
          \/ ChangePassword(u) \/ RemoveLogin(u)
          \/ \E role \in Edits : EditLogin(u, role)
    \/ ServerDiesSaving

AccountSpec == AccountInit /\ [][AccountNext]_accountVars

-----------------------------------------------------------------------------
(* Properties. *)

Saving(e) == \E r \in Requests : save[r] # Null /\ save[r].of = e

\* syncLoginForEmployeeRole: as long as the saves of an employee come one at a
\* time and succeed, he has a login, with the role of his Employee Role, through
\* every promotion, conversion and password reset.
LoginFollowsRole ==
    \A e \in Employees \ odd :
        staff[e] # Null /\ ~Saving(e) =>
            \E u \in LoginsOf(e) : login[u].role = RoleFor(staff[e].role)
=============================================================================
