------------------------------ MODULE ZktecoPool ------------------------------
(***************************************************************************)
(* ZktecoRealClient: the pool of connections to the terminals.  A call     *)
(* finds or opens its connection, chains its command behind the ones that  *)
(* are already waiting for it, and when the connection turns out dead      *)
(* takes a fresh one and tries once more.  Meanwhile idle connections are  *)
(* swept, terminals drop connections, and other calls connect, disconnect  *)
(* and restart.  Each action is what a call does between two awaits.       *)
(***************************************************************************)
EXTENDS Naturals, Common

CONSTANTS
    Callers,         \* HTTP requests and timers that call the client at the same time
    Addresses,       \* ip:port of the terminals
    MaxSockets,      \* sockets in existence at a time (bound)
    ConnectRetries,  \* connectRetries
    PoolOps          \* the methods each caller calls (input sets)

\* READ: getInfo, getUsers, getAttendanceLogs, syncTime.
\* WRITE: setUser, deleteUser, clearTemplates.
ASSUME PoolAssumption ==
    /\ ConnectRetries \in Nat /\ MaxSockets \in Nat
    /\ PoolOps \in [Callers -> SUBSET {"READ", "WRITE", "RESTART", "CONNECT", "DISCONNECT"}]
    /\ Null \notin Callers \cup Addresses \cup Nat

Sockets == 1 .. MaxSockets

VARIABLES
    pool,     \* the connections map: the socket of the entry, or Null
    socket,   \* the sockets, and the queue of the entry that holds each
    call,     \* the locals of the call a caller has running, Null for none
    verification, \* of a terminal: ON, PAUSED (disableDevice), or history: LEFT
                  \* paused by an enableDevice that got no answer
    crowded   \* history: whether two calls for an address have overlapped

poolVars == <<pool, socket, call, verification, crowded>>

\* tail is the queue promise of the entry: the last call chained on it that has
\* not settled.
Socket == [open : BOOLEAN, tail : Callers \cup {Null}]

Call ==
    [op : {"READ", "WRITE", "RESTART", "CONNECT", "DISCONNECT"},
     address : Addresses \cup {Null},  \* Null for disconnect(), which is for all
     at : {"LOOKUP", "OPEN", "HAVE", "WAIT", "PAUSE", "COMMAND", "RESUME",
           "CAUGHT", "CLOSE", "UNPOOL", "FINALLY"},
     sock : Sockets \cup {Null},
     after : Callers \cup {Null},      \* the call its command is chained behind
     attempt : 1 .. ConnectRetries + 1,
     failed : BOOLEAN,                 \* the command threw
     again : BOOLEAN,                  \* this is the retry
     robbed : BOOLEAN,                 \* history: another call or the sweep closed its connection
     fault : BOOLEAN]                  \* history: the terminal refused or dropped it

ASSUME NullCallAssumption == Null \notin Call

PoolTypeOK ==
    /\ pool \in [Addresses -> Sockets \cup {Null}]
    /\ socket \in [Sockets -> Socket]
    /\ call \in [Callers -> Call \cup {Null}]
    /\ verification \in [Addresses -> {"ON", "PAUSED", "LEFT"}]
    /\ crowded \in [Addresses -> BOOLEAN]

PoolInit ==
    /\ pool = [a \in Addresses |-> Null]
    /\ socket = [s \in Sockets |-> [open |-> FALSE, tail |-> Null]]
    /\ call = [c \in Callers |-> Null]
    /\ verification = [a \in Addresses |-> "ON"]
    /\ crowded = [a \in Addresses |-> FALSE]

At(c, at) == call[c] # Null /\ call[c].at = at
Goto(c, at) == call' = [call EXCEPT ![c].at = at]
Return(c) == call' = [call EXCEPT ![c] = Null]
TerminalsUnchanged == UNCHANGED <<verification, crowded>>

IsDead(s) == ~socket[s].open
Pooled(s) == \E a \in Addresses : pool[a] = s
Held(s) == \E c \in Callers : call[c] # Null /\ call[c].sock = s
Free(s) == ~socket[s].open /\ ~Pooled(s) /\ ~Held(s)

Close(s) == socket' = [socket EXCEPT ![s].open = FALSE]

\* The calls whose connection is closed under them.
Rob(s, calls) ==
    [c \in Callers |-> IF calls[c] # Null /\ calls[c].sock = s /\ socket[s].open
                       THEN [calls[c] EXCEPT !.robbed = TRUE] ELSE calls[c]]

-----------------------------------------------------------------------------
(* A call begins. *)

NewCall(op, a, at) ==
    [op |-> op, address |-> a, at |-> at, sock |-> Null, after |-> Null, attempt |-> 1,
     failed |-> FALSE, again |-> FALSE, robbed |-> FALSE, fault |-> FALSE]

\* The calls for a terminal, or for all.
Running(a) ==
    {c \in Callers : call[c] # Null /\ (call[c].address = a \/ call[c].op = "DISCONNECT")}

Begin(c, op, a) ==
    /\ call[c] = Null
    /\ call' = [call EXCEPT ![c] =
          NewCall(op, IF op = "DISCONNECT" THEN Null ELSE a,
                  IF op \in {"CONNECT", "DISCONNECT"} THEN "CLOSE" ELSE "LOOKUP")]
    /\ crowded' = [b \in Addresses |->
          crowded[b] \/ ((b = a \/ op = "DISCONNECT") /\ Running(b) # {})]
    /\ UNCHANGED <<pool, socket, verification>>

-----------------------------------------------------------------------------
(* getOrCreateConnection, openConnection. *)

Lookup(c) ==
    LET a == call[c].address
        s == pool[a]
    IN  /\ At(c, "LOOKUP")
        /\ IF s # Null /\ ~IsDead(s)
           THEN /\ call' = [call EXCEPT ![c].at = "HAVE", ![c].sock = s]
                /\ UNCHANGED pool
           ELSE /\ Goto(c, "OPEN")
                /\ pool' = [pool EXCEPT ![a] = Null]
        /\ UNCHANGED socket /\ TerminalsUnchanged

\* The entry replaces whatever the map holds by now.
OpenConnection(c, s) ==
    /\ At(c, "OPEN")
    /\ Free(s) /\ \A t \in Sockets : Free(t) => s <= t
    /\ socket' = [socket EXCEPT ![s].open = TRUE]
    /\ pool' = [pool EXCEPT ![call[c].address] = s]
    /\ call' = [call EXCEPT ![c] = IF @.op = "CONNECT" THEN Null
                 ELSE [@ EXCEPT !.at = "HAVE", !.sock = s, !.attempt = 1]]
    /\ TerminalsUnchanged

\* Slip: one attempt too many.
OpenFailsPast(c) ==
    LET k == call[c]
    IN  /\ At(c, "OPEN")
        /\ call' = [call EXCEPT ![c] =
              IF k.attempt <= ConnectRetries + 1 THEN [k EXCEPT !.attempt = k.attempt + 1]
              ELSE IF k.op = "RESTART" THEN [k EXCEPT !.at = "FINALLY", !.attempt = 1]
              ELSE Null]
        /\ UNCHANGED <<pool, socket>> /\ TerminalsUnchanged

\* An attempt fails or times out: the next one, or the call gives up.
OpenFails(c) ==
    LET k == call[c]
    IN  /\ At(c, "OPEN")
        /\ call' = [call EXCEPT ![c] =
              IF k.attempt <= ConnectRetries THEN [k EXCEPT !.attempt = k.attempt + 1]
              ELSE IF k.op = "RESTART" THEN [k EXCEPT !.at = "FINALLY", !.attempt = 1]
              ELSE Null]
        /\ UNCHANGED <<pool, socket>> /\ TerminalsUnchanged

-----------------------------------------------------------------------------
(* withConnection. *)

\* Slip: the retry goes onto the wire without waiting for its turn.
EnqueueRetryFirst(c) ==
    LET s == call[c].sock
    IN  /\ At(c, "HAVE")
        /\ call' = [call EXCEPT ![c].at = "WAIT",
                       ![c].after = IF call[c].again THEN Null ELSE socket[s].tail]
        /\ socket' = [socket EXCEPT ![s].tail = c]
        /\ UNCHANGED pool /\ TerminalsUnchanged

\* The command is chained onto the queue, and becomes what the next one waits for.
Enqueue(c) ==
    LET s == call[c].sock
    IN  /\ At(c, "HAVE")
        /\ call' = [call EXCEPT ![c] = [@ EXCEPT !.at = "WAIT", !.after = socket[s].tail]]
        /\ socket' = [socket EXCEPT ![s].tail = c]
        /\ UNCHANGED pool /\ TerminalsUnchanged

Run(c) ==
    /\ At(c, "WAIT") /\ call[c].after = Null
    /\ Goto(c, IF call[c].op = "WRITE" THEN "PAUSE" ELSE "COMMAND")
    /\ UNCHANGED <<pool, socket>> /\ TerminalsUnchanged

\* Slip: a command that fails rejects the queue promise, and nothing behind it runs.
SettleOnSuccess(c, local) ==
    LET stuck == local # Null /\ local.at = "CAUGHT"
    IN  /\ call' = [d \in Callers |->
             IF d = c THEN local
             ELSE IF ~stuck /\ call[d] # Null /\ call[d].after = c
                  THEN [call[d] EXCEPT !.after = Null]
             ELSE call[d]]
        /\ socket' = [s \in Sockets |->
             IF ~stuck /\ socket[s].tail = c THEN [socket[s] EXCEPT !.tail = Null]
             ELSE socket[s]]

\* The command settles: the one chained behind it may run.
Settle(c, local) ==
    /\ call' = [d \in Callers |->
          IF d = c THEN local
          ELSE IF call[d] # Null /\ call[d].after = c THEN [call[d] EXCEPT !.after = Null]
          ELSE call[d]]
    /\ socket' = [s \in Sockets |->
          IF socket[s].tail = c THEN [socket[s] EXCEPT !.tail = Null] ELSE socket[s]]

\* What a command that ended leaves to do.
AfterCommand(c, failed) ==
    IF failed THEN [call[c] EXCEPT !.at = "CAUGHT"]
    ELSE IF call[c].op = "RESTART" THEN [call[c] EXCEPT !.at = "FINALLY", !.sock = Null]
    ELSE Null

Verify(c, v) == verification' = [verification EXCEPT ![call[c].address] = v]
Unanswered(c) == Verify(c, IF verification[call[c].address] = "PAUSED" THEN "LEFT"
                           ELSE verification[call[c].address])

\* disableDevice, whose failure is swallowed.
PauseDevice(c) ==
    /\ At(c, "PAUSE")
    /\ Goto(c, "COMMAND")
    /\ \/ ~IsDead(call[c].sock) /\ Verify(c, "PAUSED")
       \/ UNCHANGED verification
    /\ UNCHANGED <<pool, socket, crowded>>

\* The terminal executes the command and answers.  A restart ends its pause.
Command(c) ==
    /\ At(c, "COMMAND")
    /\ ~IsDead(call[c].sock)
    /\ IF call[c].op = "WRITE" THEN Goto(c, "RESUME") /\ UNCHANGED socket
       ELSE Settle(c, AfterCommand(c, FALSE))
    /\ IF call[c].op = "RESTART" THEN Verify(c, "ON") ELSE UNCHANGED verification
    /\ UNCHANGED <<pool, crowded>>

\* The terminal refuses it or does not answer, or the connection is gone.
CommandFails(c) ==
    LET hurt == [call[c] EXCEPT !.failed = TRUE, !.fault = @ \/ ~call[c].robbed]
    IN  /\ At(c, "COMMAND")
        /\ IF call[c].op = "WRITE"
           THEN call' = [call EXCEPT ![c] = [hurt EXCEPT !.at = "RESUME"]] /\ UNCHANGED socket
           ELSE Settle(c, [hurt EXCEPT !.at = "CAUGHT"])
        /\ UNCHANGED pool /\ TerminalsUnchanged

\* Slip: enableDevice is not in a finally block.
ResumeDeviceOnSuccess(c) ==
    /\ At(c, "RESUME")
    /\ Settle(c, AfterCommand(c, call[c].failed))
    /\ \/ ~IsDead(call[c].sock) /\ ~call[c].failed /\ Verify(c, "ON")
       \/ ~call[c].failed /\ Unanswered(c)
       \/ call[c].failed /\ UNCHANGED verification
    /\ UNCHANGED <<pool, crowded>>

\* enableDevice in the finally block; its failure is swallowed.
ResumeDevice(c) ==
    /\ At(c, "RESUME")
    /\ Settle(c, AfterCommand(c, call[c].failed))
    /\ (~IsDead(call[c].sock) /\ Verify(c, "ON")) \/ Unanswered(c)
    /\ UNCHANGED <<pool, crowded>>

\* Slip: only the text of the error says whether the connection is gone, and a
\* command on a socket we closed ourselves fails with another one.
LooksDisconnectedByMessage(c) == IsDead(call[c].sock) /\ ~call[c].robbed

\* The code also goes by the text of the error; one that names the socket comes
\* from a connection that is closing, which is a dead one here.
LooksDisconnected(c) == IsDead(call[c].sock)

Retry(c) ==
    /\ At(c, "CAUGHT")
    /\ ~call[c].again /\ LooksDisconnected(c)
    /\ pool' = [pool EXCEPT ![call[c].address] = Null]
    /\ call' = [call EXCEPT ![c].at = "LOOKUP", ![c].again = TRUE, ![c].failed = FALSE,
                            ![c].robbed = FALSE, ![c].sock = Null]
    /\ UNCHANGED socket /\ TerminalsUnchanged

\* The error goes to the caller; restart() catches it.
GiveUp(c) ==
    /\ At(c, "CAUGHT")
    /\ call[c].again \/ ~LooksDisconnected(c)
    /\ call' = [call EXCEPT ![c] = IF @.op # "RESTART" THEN Null
                 ELSE [@ EXCEPT !.at = "FINALLY", !.sock = Null]]
    /\ UNCHANGED <<pool, socket>> /\ TerminalsUnchanged

-----------------------------------------------------------------------------
(* restart, connect, disconnect, and what happens by itself. *)

\* Whatever connection the map holds by now is closed.
RestartFinally(c) ==
    LET s == pool[call[c].address]
        others == [call EXCEPT ![c] = Null]
    IN  /\ At(c, "FINALLY")
        /\ IF s = Null THEN call' = others /\ UNCHANGED socket
           ELSE Close(s) /\ call' = Rob(s, others)
        /\ pool' = [pool EXCEPT ![call[c].address] = Null]
        /\ TerminalsUnchanged

\* Slip: the forced reconnect that opens a socket without closing the old one.
CloseOldLeaking(c, a) ==
    /\ At(c, "CLOSE")
    /\ a = call[c].address \/ call[c].op = "DISCONNECT"
    /\ pool[a] # Null
    /\ call' = [Rob(pool[a], call) EXCEPT ![c].at = "UNPOOL", ![c].address = a]
    /\ IF call[c].op = "CONNECT" THEN UNCHANGED socket ELSE Close(pool[a])
    /\ UNCHANGED pool /\ TerminalsUnchanged

\* connect() closes the connection of its address, disconnect() every one in turn.
CloseOld(c, a) ==
    /\ At(c, "CLOSE")
    /\ a = call[c].address \/ call[c].op = "DISCONNECT"
    /\ pool[a] # Null
    /\ call' = [Rob(pool[a], call) EXCEPT ![c].at = "UNPOOL", ![c].address = a]
    /\ Close(pool[a])
    /\ UNCHANGED pool /\ TerminalsUnchanged

Unpool(c) ==
    /\ At(c, "UNPOOL")
    /\ pool' = [pool EXCEPT ![call[c].address] = Null]
    /\ call' = [call EXCEPT ![c] =
          IF @.op = "CONNECT" THEN [@ EXCEPT !.at = "OPEN"]
          ELSE [@ EXCEPT !.at = "CLOSE", !.address = Null]]
    /\ UNCHANGED socket /\ TerminalsUnchanged

NothingToClose(c) ==
    /\ At(c, "CLOSE")
    /\ IF call[c].op = "CONNECT"
       THEN pool[call[c].address] = Null /\ Goto(c, "OPEN")
       ELSE (\A a \in Addresses : pool[a] = Null) /\ Return(c)
    /\ UNCHANGED <<pool, socket>> /\ TerminalsUnchanged

\* Nothing was chained for idleTimeoutMs; what was chained before may still wait.
SweepIdle(a) ==
    /\ pool[a] # Null
    /\ Close(pool[a]) /\ call' = Rob(pool[a], call)
    /\ pool' = [pool EXCEPT ![a] = Null]
    /\ TerminalsUnchanged

\* The terminal, or the network, ends a connection.
Drop(s) ==
    /\ socket[s].open
    /\ Close(s)
    /\ UNCHANGED <<pool, call>> /\ TerminalsUnchanged

\* onModuleDestroy: the process goes down with everything it was doing.
Shutdown ==
    /\ pool' = [a \in Addresses |-> Null]
    /\ socket' = [s \in Sockets |-> [open |-> FALSE, tail |-> Null]]
    /\ call' = [c \in Callers |-> Null]
    /\ verification' = [a \in Addresses |-> IF verification[a] = "PAUSED" THEN "LEFT"
                                            ELSE verification[a]]
    /\ UNCHANGED crowded

CallStep(c) ==
    \/ Lookup(c) \/ (\E s \in Sockets : OpenConnection(c, s)) \/ OpenFails(c)
    \/ Enqueue(c) \/ Run(c) \/ PauseDevice(c) \/ Command(c) \/ CommandFails(c)
    \/ ResumeDevice(c) \/ Retry(c) \/ GiveUp(c) \/ RestartFinally(c)
    \/ (\E a \in Addresses : CloseOld(c, a)) \/ Unpool(c) \/ NothingToClose(c)

PoolNext ==
    \/ \E c \in Callers : \/ \E op \in PoolOps[c], a \in Addresses : Begin(c, op, a)
                         \/ CallStep(c)
    \/ \E s \in Sockets : Drop(s)
    \/ \E a \in Addresses : SweepIdle(a)
    \/ Shutdown

\* Every attempt to connect ends by connectTimeoutMs and every command by
\* responseTimeoutMs, and the event loop takes up what has ended.
PoolFairness == \A c \in Callers : WF_poolVars(CallStep(c))

PoolSpec == PoolInit /\ [][PoolNext]_poolVars /\ PoolFairness

-----------------------------------------------------------------------------
(* Properties. *)

OnTheWire(c) == call[c] # Null /\ call[c].at \in {"PAUSE", "COMMAND", "RESUME"}

\* ConnectionEntry.queue: whatever callers share a connection, and whichever of
\* them fail and retry, never two commands are under way on one socket, where
\* each would take the other's reply for its own.
OneCommandAtATime ==
    \A c, d \in Callers :
        c # d /\ OnTheWire(c) /\ OnTheWire(d) => call[c].sock # call[d].sock

\* connect, restart, the sweep and the retry: while the calls for a terminal come
\* one at a time, a socket that is still open is in the pool or in use, so
\* nothing keeps the terminal's only session for ever.
NothingLeaked ==
    (\A a \in Addresses : ~crowded[a]) =>
        \A s \in Sockets : socket[s].open => Pooled(s) \/ Held(s)

\* setUser, deleteUser, clearTemplates: a terminal is left with its verification
\* paused only if enableDevice went without an answer, or the process died.
PausedOnlyUnanswered ==
    \A a \in Addresses : verification[a] = "PAUSED" =>
        \E c \in Callers :
           /\ call[c] # Null /\ call[c].op = "WRITE" /\ call[c].address = a
           /\ call[c].at \in {"COMMAND", "RESUME"}

\* withConnection: a command another call closed the connection under is taken
\* to a fresh one; an error reaches the caller only when the terminal is to
\* blame, or when that happened to the retry too.
OneCloseAbsorbed ==
    [][\A c \in Callers : GiveUp(c) => call[c].fault \/ call[c].again]_poolVars

\* Every call ends, even one that waits behind others on a dead connection: a
\* caller is time and again without one, or with a disconnect().  The
\* loop of disconnect() may be kept busy by others opening connections.
CallsEnd ==
    \A c \in Callers : []<>(call[c] = Null \/ call[c].op = "DISCONNECT")
=============================================================================
