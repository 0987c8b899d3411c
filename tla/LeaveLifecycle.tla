----------------------------- MODULE LeaveLifecycle -----------------------------
(***************************************************************************)
(* What the leave service promises about a request, without tiers,         *)
(* balances, attendance or logins: a request reserves days of its          *)
(* employee, is open until it is granted or refused, may be withdrawn from *)
(* any of these, and reserves its days for nobody else while it is open or *)
(* granted.                                                                *)
(***************************************************************************)
EXTENDS Integers

CONSTANTS RequestIds, Employees, MaxDay, Null

VARIABLES
    phase,   \* where a request stands
    holder,  \* the employee it is for, Null before it is filed
    span     \* the days it reserves

vars == <<phase, holder, span>>

Reserves(r) == phase[r] \in {"OPEN", "GRANTED"}

Init ==
    /\ phase = [r \in RequestIds |-> "UNFILED"]
    /\ holder = [r \in RequestIds |-> Null]
    /\ span = [r \in RequestIds |-> {}]

\* A request is filed for days nobody holds for that employee, open or, for
\* leave that needs no approval, granted at once.
File(r, e, days, p) ==
    /\ phase[r] = "UNFILED"
    /\ days # {}
    /\ \A s \in RequestIds : Reserves(s) /\ holder[s] = e => span[s] \cap days = {}
    /\ p \in {"OPEN", "GRANTED"}
    /\ phase' = [phase EXCEPT ![r] = p]
    /\ holder' = [holder EXCEPT ![r] = e]
    /\ span' = [span EXCEPT ![r] = days]

Move(r, from, to) ==
    /\ phase[r] \in from
    /\ phase' = [phase EXCEPT ![r] = to]
    /\ UNCHANGED <<holder, span>>

Grant(r) == Move(r, {"OPEN"}, "GRANTED")
Refuse(r) == Move(r, {"OPEN"}, "REFUSED")
Withdraw(r) == Move(r, {"OPEN", "GRANTED", "REFUSED"}, "WITHDRAWN")

Next ==
    \E r \in RequestIds :
        \/ \E e \in Employees, days \in SUBSET (1 .. MaxDay), p \in {"OPEN", "GRANTED"} :
              File(r, e, days, p)
        \/ Grant(r) \/ Refuse(r) \/ Withdraw(r)

Spec == Init /\ [][Next]_vars
=============================================================================
