-------------------------------- MODULE MCDesk --------------------------------
(* Instances of the modules of HR's desk and of the lists a page shows of it.  *)
(* They share no variable; as in MCClients, one of them runs in a behaviour,   *)
(* and part says which.                                                        *)
EXTENDS Attendance, Roster, LeaveRollover, Accounts, LeavePolicies, ScreenCache, TLC

VARIABLE part

CONSTANT casual

\* Leave that is carried over once.
MCPolicy == casual :> [days |-> 1, forward |-> TRUE, max |-> Null, once |-> TRUE]

deskVars == <<part, attVars, rosterVars, rolloverVars, accountVars, policyVars, cacheVars>>

\* Of the screens that treat a list alike, one is as good as another.
Treats(s, list) ==
    [shown |-> list \in ScreenOf[s].shows,
     calls |-> {[writes |-> list \in c.writes, names |-> list \in c.names,
                 forgotten |-> <<c.name, list>> \in Forgotten] :
                    c \in {x \in AllCalls : /\ x.name \in ScreenOf[s].makes
                                           /\ list \in x.writes \cup x.names}}]
Near ==
    [c \in DOMAIN Clients |-> [list \in ShownIn(c) |->
        LET treated == {<<Treats(s, list), s>> : s \in ScreensOf[c]}
        IN  {(CHOOSE t \in treated : t[1] = alike)[2] : alike \in {t[1] : t \in treated}}]]

DeskInit ==
    /\ part \in {"ATTENDANCE", "ROSTER", "ROLLOVER", "ACCOUNTS", "POLICIES", "LISTS"}
    /\ AttInit /\ RosterInit /\ RolloverInit /\ AccountInit /\ PolicyInit /\ CacheInit
    /\ IF part = "LISTS" THEN view \in Near[client][watched]
       ELSE client = "EMPLOYEE" /\ view = "MyLeaveTab" /\ watched = "my-approvals"

Only(p) == part = p /\ UNCHANGED part

DeskNext ==
    \/ /\ Only("ATTENDANCE") /\ AttNext
       /\ UNCHANGED <<rosterVars, rolloverVars, accountVars, policyVars, cacheVars>>
    \/ /\ Only("ROSTER") /\ RosterNext
       /\ UNCHANGED <<attVars, rolloverVars, accountVars, policyVars, cacheVars>>
    \/ /\ Only("ROLLOVER") /\ RolloverNext
       /\ UNCHANGED <<attVars, rosterVars, accountVars, policyVars, cacheVars>>
    \/ /\ Only("ACCOUNTS") /\ AccountNext
       /\ UNCHANGED <<attVars, rosterVars, rolloverVars, policyVars, cacheVars>>
    \/ /\ Only("POLICIES") /\ PolicyNext
       /\ UNCHANGED <<attVars, rosterVars, rolloverVars, accountVars, cacheVars>>
    \/ /\ Only("LISTS") /\ CacheNext /\ view' \in Near[client][watched]
       /\ UNCHANGED <<attVars, rosterVars, rolloverVars, accountVars, policyVars>>

\* The fairness of AttSpec, where Attendance runs.
DeskSpec ==
    /\ DeskInit /\ [][DeskNext]_deskVars
    /\ WF_attVars(part = "ATTENDANCE" /\ StartSync)
    /\ WF_attVars(part = "ATTENDANCE" /\ SyncStep)
    /\ \A c \in Clerks : WF_attVars(part = "ATTENDANCE" /\ ClerkStep(c))

\* Rows, jobs and screens of every part are of their types; a balance of the
\* rollover, for one, carries no debt.
DeskTypeOK ==
    /\ AttTypeOK /\ RosterTypeOK /\ RolloverTypeOK /\ AccountTypeOK /\ PolicyTypeOK
    /\ CacheTypeOK
=============================================================================
