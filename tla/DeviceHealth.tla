------------------------------ MODULE DeviceHealth ------------------------------
(***************************************************************************)
(* Device.connectionStatus, what the screens say of a terminal: the        *)
(* heartbeat of DeviceHealthService writes it, and so does every call of   *)
(* DevicesService, each with what it read of the row before it asked the   *)
(* terminal.  Rows are added, readdressed and removed meanwhile.           *)
(***************************************************************************)
EXTENDS Common

CONSTANTS
    Devices,     \* ids of Device rows
    Places,      \* addresses a terminal may be given
    Clients,     \* DevicesService calls under way at a time
    DeviceCalls  \* the methods that are called (input set)

ASSUME DeviceCallsAssumption ==
    DeviceCalls \subseteq {"CONNECT", "DISCONNECT", "RESTART", "ASK"}

VARIABLES
    device,   \* the rows: Null before it is added and after it is removed
    up,       \* the addresses where a terminal takes a new session
    visit,    \* the running call of a client, Null for none
    pass,     \* the heartbeat's pass, Null when none is running
    running   \* DeviceHealthService.running

healthVars == <<device, up, visit, pass, running>>

Shown == {"UNKNOWN", "ONLINE", "OFFLINE"}
Device == [place : Places, status : Shown]
Visiting ==
    [op : {"CONNECT", "DISCONNECT", "RESTART", "ASK"}, dev : Devices, place : Places,
     at : {"TERMINAL", "SAVE"}, ok : BOOLEAN]
Passing ==
    [rest : SUBSET Devices,                  \* the list it has still to visit
     seen : [Devices -> Device \cup {Null}],  \* the rows as findMany returned them
     at : {"NEXT", "SAVE", "LOG"},
     dev : Devices \cup {Null}, reachable : BOOLEAN]

ASSUME NullPassAssumption == Null \notin Passing

HealthTypeOK ==
    /\ device \in [Devices -> Device \cup {Null}]
    /\ up \subseteq Places
    /\ visit \in [Clients -> Visiting \cup {Null}]
    /\ pass \in Passing \cup {Null}
    /\ running \in BOOLEAN

HealthInit ==
    /\ device = [d \in Devices |-> Null]
    /\ up = {}
    /\ visit = [c \in Clients |-> Null]
    /\ pass = Null
    /\ running = FALSE

StatusOf(reachable) == IF reachable THEN "ONLINE" ELSE "OFFLINE"

-----------------------------------------------------------------------------
(* DevicesService. *)

\* An id nothing refers to any more stands for a new one.
NewDevice(d) ==
    /\ device[d] = Null
    /\ pass # Null => pass.seen[d] = Null
    /\ \A c \in Clients : visit[c] # Null => visit[c].dev # d

AddDeviceRow(d, p) ==
    /\ NewDevice(d)
    /\ device' = [device EXCEPT ![d] = [place |-> p, status |-> "UNKNOWN"]]
    /\ UNCHANGED <<up, visit, pass, running>>

\* update(): the status stays what it was at the old address.
Readdress(d, p) ==
    /\ device[d] # Null
    /\ device' = [device EXCEPT ![d].place = p]
    /\ UNCHANGED <<up, visit, pass, running>>

RemoveDeviceRow(d) ==
    /\ device[d] # Null
    /\ device' = [device EXCEPT ![d] = Null]
    /\ UNCHANGED <<up, visit, pass, running>>

\* findOne().
Visit(c, op, d) ==
    /\ op \in DeviceCalls
    /\ visit[c] = Null /\ device[d] # Null
    /\ visit' = [visit EXCEPT ![c] = [op |-> op, dev |-> d, place |-> device[d].place,
                                      at |-> "TERMINAL", ok |-> FALSE]]
    /\ UNCHANGED <<device, up, pass, running>>

\* A terminal out of reach fails; one that answers may fail too.
TerminalAnswers(c) ==
    /\ visit[c] # Null /\ visit[c].at = "TERMINAL"
    /\ \E ok \in {FALSE} \cup {visit[c].place \in up} :
          visit' = [visit EXCEPT ![c].at = "SAVE", ![c].ok = ok]
    /\ UNCHANGED <<device, up, pass, running>>

\* connect, disconnect, restart, syncTime, getInfo, getUsers: the update throws
\* for a row that is gone.
SaveStatus(c) ==
    LET v == visit[c]
    IN  /\ v # Null /\ v.at = "SAVE"
        /\ device' = IF device[v.dev] = Null THEN device
                     ELSE [device EXCEPT ![v.dev].status = StatusOf(v.ok /\ v.op # "DISCONNECT")]
        /\ visit' = [visit EXCEPT ![c] = Null]
        /\ UNCHANGED <<up, pass, running>>

-----------------------------------------------------------------------------
(* The heartbeat. *)

PassEnds == pass' = Null /\ running' = FALSE

\* tick() returns at once when a pass is still running.
StartPass ==
    /\ ~running
    /\ running' = TRUE
    /\ pass' = [rest |-> {d \in Devices : device[d] # Null}, seen |-> device,
                at |-> "NEXT", dev |-> Null, reachable |-> FALSE]
    /\ UNCHANGED <<device, up, visit>>

\* testConnection, with a socket of its own, at the address the row had.
Probe(d) ==
    /\ pass # Null /\ pass.at = "NEXT" /\ d \in pass.rest
    /\ pass' = [pass EXCEPT !.at = "SAVE", !.dev = d, !.reachable = pass.seen[d].place \in up]
    /\ UNCHANGED <<device, up, visit, running>>

Visited == [pass EXCEPT !.rest = @ \ {pass.dev}, !.at = "NEXT", !.dev = Null,
                        !.reachable = FALSE, !.seen[pass.dev] = Null]

\* Slip: no finally block.
ThrowHeld == pass' = Null /\ UNCHANGED <<running, device>>

\* An exception ends the pass, and the finally block lets the next one start.
Throw == PassEnds /\ UNCHANGED device

\* The row is written when its status, as it was read, is not what the probe
\* says; otherwise at most lastCommunication is.
SaveProbe ==
    LET d == pass.dev
        status == StatusOf(pass.reachable)
        news == pass.seen[d].status # status
    IN  /\ pass # Null /\ pass.at = "SAVE"
        /\ IF device[d] = Null /\ (news \/ pass.reachable) THEN Throw
           ELSE /\ UNCHANGED running
                /\ device' = IF news THEN [device EXCEPT ![d].status = status] ELSE device
                /\ pass' = IF news THEN [pass EXCEPT !.at = "LOG"] ELSE Visited
        /\ UNCHANGED <<up, visit>>

\* The log entry refers to the row.
LogProbe ==
    /\ pass # Null /\ pass.at = "LOG"
    /\ IF device[pass.dev] = Null THEN Throw
       ELSE pass' = Visited /\ UNCHANGED <<running, device>>
    /\ UNCHANGED <<up, visit>>

EndPass ==
    /\ pass # Null /\ pass.at = "NEXT" /\ pass.rest = {}
    /\ PassEnds
    /\ UNCHANGED <<device, up, visit>>

PassStep == (\E d \in Devices : Probe(d)) \/ SaveProbe \/ LogProbe \/ EndPass

-----------------------------------------------------------------------------

Flip(p) ==
    /\ up' = IF p \in up THEN up \ {p} ELSE up \cup {p}
    /\ UNCHANGED <<device, visit, pass, running>>

RestartServer ==
    /\ pass' = Null /\ running' = FALSE
    /\ visit' = [c \in Clients |-> Null]
    /\ UNCHANGED <<device, up>>

ClientNext ==
    \/ \E d \in Devices, p \in Places : AddDeviceRow(d, p) \/ Readdress(d, p)
    \/ \E d \in Devices : RemoveDeviceRow(d)
    \/ \E c \in Clients, d \in Devices, op \in DeviceCalls : Visit(c, op, d)
    \/ \E c \in Clients : TerminalAnswers(c) \/ SaveStatus(c)

HealthNext ==
    \/ ClientNext
    \/ StartPass \/ PassStep
    \/ \E p \in Places : Flip(p)
    \/ RestartServer

\* The timer ticks, and every probe ends by its timeout.
HealthFairness == WF_healthVars(StartPass) /\ WF_healthVars(PassStep)

HealthSpec == HealthInit /\ [][HealthNext]_healthVars /\ HealthFairness

-----------------------------------------------------------------------------
(* Properties. *)

\* DeviceHealthService keeps connectionStatus honest: whatever was called,
\* removed and readdressed before, once nobody calls, the terminals stay as they
\* are and the server stays up, every device is shown as it is.
StatusSettles ==
    <>[][~ClientNext /\ UNCHANGED up /\ ~RestartServer]_healthVars =>
        <>[](\A d \in Devices :
                device[d] # Null =>
                    device[d].status = StatusOf(device[d].place \in up))
=============================================================================
