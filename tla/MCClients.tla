------------------------------- MODULE MCClients -------------------------------
(* Instances of the clients on either side of the server: the one that talks   *)
(* to the terminals, with the heartbeat and the pushes, and the pages of a     *)
(* browser.  They share no variable, and no property speaks of two of them, so *)
(* a behaviour of all interleaves one of each and it is enough to check one at *)
(* a time: part says which, and the others stay in one of their initial states.*)
EXTENDS ZktecoPool, DeviceHealth, Session, DeviceSync, TLC

VARIABLE part

CONSTANTS c1, c2, lead, staff, u1, u2, n1

\* The employees of MCDeviceSync, who keep their names and do not leave.
MCCut == u1 :> u1 @@ u2 :> u2
MCSlotOf == u1 :> 1 @@ u2 :> 2
MCEnrolled == {[uid |-> u2, name |-> n1]}

\* Every pair of calls but of a connect and a disconnect.
MCPoolOps == (c1 :> {"WRITE", "RESTART"}) @@ (c2 :> {"WRITE", "CONNECT", "DISCONNECT"})

\* Two of the Admin/HR area, or two of the portals.
MCCasts == {[v \in {lead, staff} |-> "HR"], (lead :> "SUPERVISOR") @@ (staff :> "EMPLOYEE")}

clientsVars == <<part, poolVars, healthVars, sessionVars, vars>>

ClientsInit ==
    /\ part \in {"POOL", "HEALTH", "SESSION", "SYNC"}
    /\ PoolInit /\ HealthInit /\ SessionInit /\ Init
    /\ part # "SESSION" => roleOf = CHOOSE cast \in Casts : TRUE

Only(p) == part = p /\ UNCHANGED part

\* The server stays up once there are two employees.
SyncNext ==
    \/ Calls \/ Tick \/ \E w \in Workers : JobStep(w)
    \/ emp[2] = Null /\ Crash

ClientsNext ==
    \/ Only("POOL") /\ PoolNext /\ UNCHANGED <<healthVars, sessionVars, vars>>
    \/ Only("HEALTH") /\ HealthNext /\ UNCHANGED <<poolVars, sessionVars, vars>>
    \/ Only("SESSION") /\ SessionNext /\ UNCHANGED <<poolVars, healthVars, vars>>
    \/ Only("SYNC") /\ SyncNext /\ UNCHANGED <<poolVars, healthVars, sessionVars>>

\* The fairness of each module, for the one that runs.
ClientsSpec ==
    /\ ClientsInit /\ [][ClientsNext]_clientsVars
    /\ \A c \in Callers : WF_poolVars(part = "POOL" /\ CallStep(c))
    /\ WF_healthVars(part = "HEALTH" /\ StartPass)
    /\ WF_healthVars(part = "HEALTH" /\ PassStep)
    /\ \A p \in Pages :
          /\ WF_sessionVars(part = "SESSION" /\ Effects(p))
          /\ WF_sessionVars(part = "SESSION" /\ Polling(p))
    /\ \A w \in Workers : WF_vars(part = "SYNC" /\ JobStep(w))
    /\ WF_vars(part = "SYNC" /\ Tick)

\* Connections, calls, device rows and pages are of their types; a call, for one,
\* tries to connect as often as ConnectRetries says and no more.
ClientsTypeOK == PoolTypeOK /\ HealthTypeOK /\ SessionTypeOK /\ TypeOK
=============================================================================
