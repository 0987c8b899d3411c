------------------------------ MODULE ClientsProofs ------------------------------
(***************************************************************************)
(* The clients on either side of the server, for any number of them: the   *)
(* pool of sockets to the terminals (ZktecoPool), the heartbeat and the    *)
(* calls that show a terminal's status (DeviceHealth) and the pages of one *)
(* browser (Session), which share no variable.  With the pushes of         *)
(* DeviceSyncProofs they are the parts of MCClients, of which it is proved *)
(* that a behaviour of it is one of each.                                  *)
(*                                                                         *)
(* A socket serves one command because the calls on it stand in line, each *)
(* behind the one before.  The model says so through the promises only, so *)
(* the invariant numbers the places in the line.  A terminal is left       *)
(* paused only where a socket died, because a call that has lost its       *)
(* socket knows it.                                                        *)
(*                                                                         *)
(* A Workbench keeps to its login because every open page, the record kept *)
(* and the layout are of one login, as long as no login has come on top of *)
(* another.                                                                *)
(***************************************************************************)
EXTENDS MCClients, DeviceSyncProofs

(* What a call may hold at each of its awaits: a socket while it uses one, the     *)
(* call it waits behind only while it waits, an address except for a disconnect() *)
(* between two terminals.                                                         *)
ShapeOf(k) ==
    /\ k.op \in {"CONNECT", "DISCONNECT"} => k.at \in {"CLOSE", "UNPOOL", "OPEN"}
    /\ k.at \in {"CLOSE", "UNPOOL"} => k.op \in {"CONNECT", "DISCONNECT"}
    /\ k.op = "DISCONNECT" => k.at # "OPEN"
    /\ k.address \in Addresses \/ (k.op = "DISCONNECT" /\ k.at = "CLOSE")
    /\ k.sock # Null <=> k.at \in {"HAVE", "WAIT", "PAUSE", "COMMAND", "RESUME", "CAUGHT"}
    /\ k.at \in {"PAUSE", "RESUME"} => k.op = "WRITE"
    /\ k.after # Null => k.at = "WAIT"

CallShape == \A c \in Callers : call[c] # Null => ShapeOf(call[c])

LEMMA PoolInitTyped == PoolInit => PoolTypeOK /\ CallShape
BY PoolAssumption DEF PoolInit, PoolTypeOK, CallShape, Socket

\* A socket that is closed keeps its queue, and the other sockets are left alone.
LEMMA ClosedSocket ==
    ASSUME socket \in [Sockets -> Socket], NEW s \in Sockets, Close(s)
    PROVE  /\ socket' \in [Sockets -> Socket]
           /\ ~socket'[s].open /\ socket'[s].tail = socket[s].tail
           /\ \A t \in Sockets \ {s} : socket'[t] = socket[t]
BY DEF Close, Socket

\* A call chained onto a queue is its tail, and nothing else changes.
LEMMA ChainedSocket ==
    ASSUME socket \in [Sockets -> Socket], NEW s \in Sockets, NEW c \in Callers,
           socket' = [socket EXCEPT ![s].tail = c]
    PROVE  /\ socket' \in [Sockets -> Socket]
           /\ socket'[s].open = socket[s].open /\ socket'[s].tail = c
           /\ \A t \in Sockets \ {s} : socket'[t] = socket[t]
BY DEF Socket

\* A call whose connection is closed under it learns nothing of it but the mark.
LEMMA RobbedCalls ==
    ASSUME NEW calls \in [Callers -> Call \cup {Null}], NEW s, NEW d \in Callers
    PROVE  /\ Rob(s, calls)[d] \in Call \cup {Null}
           /\ Rob(s, calls)[d] = Null <=> calls[d] = Null
           /\ calls[d] # Null =>
                /\ Rob(s, calls)[d].at = calls[d].at /\ Rob(s, calls)[d].sock = calls[d].sock
                /\ Rob(s, calls)[d].after = calls[d].after
                /\ Rob(s, calls)[d].address = calls[d].address
                /\ Rob(s, calls)[d].op = calls[d].op
                /\ Rob(s, calls)[d].failed = calls[d].failed
                /\ Rob(s, calls)[d].again = calls[d].again
                /\ Rob(s, calls)[d].fault = calls[d].fault
                /\ Rob(s, calls)[d].robbed
                      = (calls[d].robbed \/ (calls[d].sock = s /\ socket[s].open))
<1> DEFINE k == [calls[d] EXCEPT !.robbed = TRUE]
<1>1. CASE calls[d] = Null
  BY <1>1 DEF Rob
<1>2. CASE calls[d] # Null
  <2>1. calls[d] \in Call
    BY <1>2
  <2>2. k \in Call /\ k # Null
    BY <2>1, NullCallAssumption, ZenonT(40) DEF Call
  <2>3. /\ k.at = calls[d].at /\ k.sock = calls[d].sock /\ k.after = calls[d].after
        /\ k.address = calls[d].address /\ k.op = calls[d].op /\ k.failed = calls[d].failed
        /\ k.again = calls[d].again /\ k.fault = calls[d].fault /\ k.robbed = TRUE
    BY <2>1 DEF Call
  <2>4. calls[d].robbed \in BOOLEAN
    BY <2>1 DEF Call
  <2>5. \/ calls[d].sock = s /\ socket[s].open /\ Rob(s, calls)[d] = k
        \/ ~(calls[d].sock = s /\ socket[s].open) /\ Rob(s, calls)[d] = calls[d]
    BY <1>2 DEF Rob
  <2> HIDE DEF k
  <2>6. CASE calls[d].sock = s /\ socket[s].open /\ Rob(s, calls)[d] = k
    BY <1>2, <2>2, <2>3, <2>6
  <2>7. CASE ~(calls[d].sock = s /\ socket[s].open) /\ Rob(s, calls)[d] = calls[d]
    BY <1>2, <2>4, <2>7
  <2> QED
    BY <2>5, <2>6, <2>7
<1> QED
  BY <1>1, <1>2

LEMMA PoolNextTyped ==
    ASSUME PoolTypeOK, CallShape, [PoolNext]_poolVars
    PROVE  PoolTypeOK' /\ CallShape'
<1> USE PoolAssumption, NullCallAssumption
<1> USE DEF PoolTypeOK, CallShape
<1>1. ASSUME NEW c \in Callers, NEW op \in PoolOps[c], NEW a \in Addresses, Begin(c, op, a)
      PROVE  PoolTypeOK' /\ CallShape'
  <2> DEFINE k == NewCall(op, IF op = "DISCONNECT" THEN Null ELSE a,
                          IF op \in {"CONNECT", "DISCONNECT"} THEN "CLOSE" ELSE "LOOKUP")
  <2>1. k \in Call /\ ShapeOf(k)
    BY <1>1 DEF NewCall, Call, ShapeOf, Sockets
  <2> QED
    BY <1>1, <2>1 DEF Begin
<1>o. ASSUME NEW c \in Callers, NEW calls \in [Callers -> Call \cup {Null}],
             \A d \in Callers : calls[d] # Null => ShapeOf(calls[d]),
             NEW k \in Call \cup {Null}, k # Null => ShapeOf(k),
             call' = [calls EXCEPT ![c] = k]
      PROVE  call' \in [Callers -> Call \cup {Null}] /\ CallShape'
  BY <1>o
<1>2. ASSUME NEW c \in Callers, Lookup(c)
      PROVE  PoolTypeOK' /\ CallShape'
  <2>1. call[c] \in Call /\ ShapeOf(call[c]) /\ call[c].at = "LOOKUP"
        /\ call[c].address \in Addresses
    BY <1>2 DEF Lookup, At, ShapeOf
  <2> DEFINE s == pool[call[c].address]
             k1 == [call[c] EXCEPT !.at = "HAVE", !.sock = s]
             k2 == [call[c] EXCEPT !.at = "OPEN"]
  <2>2. pool' \in [Addresses -> Sockets \cup {Null}] /\ UNCHANGED <<socket, verification, crowded>>
    BY <1>2, <2>1 DEF Lookup, TerminalsUnchanged
  <2>3. k2 \in Call /\ ShapeOf(k2) /\ (s # Null => k1 \in Call /\ ShapeOf(k1))
    BY <2>1 DEF ShapeOf, Call
  <2>4. call' = [call EXCEPT ![c] = k2] \/ (s # Null /\ call' = [call EXCEPT ![c] = k1])
    BY <1>2 DEF Lookup, Goto
  <2> HIDE DEF s, k1, k2
  <2> QED
    BY <1>o, <2>2, <2>3, <2>4
<1>3. ASSUME NEW c \in Callers, NEW s \in Sockets, OpenConnection(c, s)
      PROVE  PoolTypeOK' /\ CallShape'
  <2>1. call[c] \in Call /\ ShapeOf(call[c]) /\ call[c].at = "OPEN"
        /\ call[c].address \in Addresses
    BY <1>3 DEF OpenConnection, At, ShapeOf
  <2> DEFINE k == IF call[c].op = "CONNECT" THEN Null
                  ELSE [call[c] EXCEPT !.at = "HAVE", !.sock = s, !.attempt = 1]
  <2>2. /\ pool' \in [Addresses -> Sockets \cup {Null}] /\ socket' \in [Sockets -> Socket]
        /\ UNCHANGED <<verification, crowded>>
    BY <1>3, <2>1 DEF OpenConnection, TerminalsUnchanged, Socket
  <2>3. k \in Call \cup {Null} /\ (k # Null => ShapeOf(k))
    <3> DEFINE m == [call[c] EXCEPT !.at = "HAVE", !.sock = s, !.attempt = 1]
    <3>1. 1 \in 1 .. ConnectRetries + 1 /\ s # Null
      BY DEF Sockets
    <3>2. m \in Call
      BY <2>1, <3>1 DEF Call
    <3>3. call[c].op # "CONNECT" => ShapeOf(m)
      BY <2>1, <3>1 DEF ShapeOf, Call
    <3> QED
      BY <3>2, <3>3
  <2>4. call' = [call EXCEPT ![c] = k]
    BY <1>3 DEF OpenConnection
  <2> HIDE DEF k
  <2> QED
    BY <1>o, <2>2, <2>3, <2>4
<1>4. ASSUME NEW c \in Callers, OpenFails(c)
      PROVE  PoolTypeOK' /\ CallShape'
  <2>1. call[c] \in Call /\ ShapeOf(call[c]) /\ call[c].at = "OPEN"
        /\ call[c].address \in Addresses
    BY <1>4 DEF OpenFails, At, ShapeOf
  <2> DEFINE k == IF call[c].attempt <= ConnectRetries
                  THEN [call[c] EXCEPT !.attempt = call[c].attempt + 1]
                  ELSE IF call[c].op = "RESTART"
                  THEN [call[c] EXCEPT !.at = "FINALLY", !.attempt = 1]
                  ELSE Null
  <2>2. k \in Call \cup {Null} /\ (k # Null => ShapeOf(k))
    <3> DEFINE n == call[c].attempt + 1
               m1 == [call[c] EXCEPT !.attempt = n]
               m2 == [call[c] EXCEPT !.at = "FINALLY", !.attempt = 1]
    <3>1. /\ 1 \in 1 .. ConnectRetries + 1
          /\ call[c].attempt <= ConnectRetries => n \in 1 .. ConnectRetries + 1
      BY <2>1 DEF Call
    <3> HIDE DEF n
    <3>2. call[c].attempt <= ConnectRetries => m1 \in Call /\ ShapeOf(m1)
      BY <2>1, <3>1 DEF Call, ShapeOf
    <3>3. call[c].op = "RESTART" => m2 \in Call /\ ShapeOf(m2)
      BY <2>1, <3>1 DEF Call, ShapeOf
    <3> QED
      BY <3>2, <3>3 DEF n
  <2>3. call' = [call EXCEPT ![c] = k] /\ UNCHANGED <<pool, socket, verification, crowded>>
    BY <1>4, <2>1 DEF OpenFails, TerminalsUnchanged
  <2> HIDE DEF k
  <2> QED
    BY <1>o, <2>2, <2>3
<1>5. ASSUME NEW c \in Callers, Enqueue(c)
      PROVE  PoolTypeOK' /\ CallShape'
  <2>1. call[c] \in Call /\ ShapeOf(call[c]) /\ call[c].at = "HAVE" /\ call[c].sock \in Sockets
    BY <1>5 DEF Enqueue, At, ShapeOf, Call
  <2> DEFINE k == [call[c] EXCEPT !.at = "WAIT", !.after = socket[call[c].sock].tail]
  <2>2. k \in Call /\ ShapeOf(k)
    BY <2>1 DEF ShapeOf, Call, Socket
  <2>3. call' = [call EXCEPT ![c] = k] /\ UNCHANGED <<pool, verification, crowded>>
    BY <1>5 DEF Enqueue, TerminalsUnchanged
  <2>4. socket' \in [Sockets -> Socket]
    BY <1>5, <2>1, ChainedSocket DEF Enqueue
  <2> HIDE DEF k
  <2> QED
    BY <1>o, <2>2, <2>3, <2>4
<1>6. ASSUME NEW c \in Callers, Run(c)
      PROVE  PoolTypeOK' /\ CallShape'
  <2>1. call[c] \in Call /\ ShapeOf(call[c]) /\ call[c].at = "WAIT"
    BY <1>6 DEF Run, At
  <2> QED
    BY <1>6, <2>1 DEF Run, Goto, ShapeOf, Call, TerminalsUnchanged
<1>7. ASSUME NEW c \in Callers, PauseDevice(c)
      PROVE  PoolTypeOK' /\ CallShape'
  <2>1. call[c] \in Call /\ ShapeOf(call[c]) /\ call[c].at = "PAUSE"
    BY <1>7 DEF PauseDevice, At
  <2> QED
    BY <1>7, <2>1 DEF PauseDevice, Goto, ShapeOf, Call, Verify
<1>s. ASSUME NEW c \in Callers, NEW local \in Call \cup {Null}, Settle(c, local),
             local # Null => ShapeOf(local)
      PROVE  /\ socket' \in [Sockets -> Socket] /\ call' \in [Callers -> Call \cup {Null}]
             /\ CallShape'
  <2>1. socket' \in [Sockets -> Socket]
    BY <1>s DEF Settle, Socket
  <2>2. ASSUME NEW d \in Callers
        PROVE  call'[d] \in Call \cup {Null} /\ (call'[d] # Null => ShapeOf(call'[d]))
    BY <1>s DEF Settle, ShapeOf, Call
  <2>3. call' = [d \in Callers |-> call'[d]]
    BY <1>s DEF Settle
  <2> QED
    BY <2>1, <2>2, <2>3
<1>8. ASSUME NEW c \in Callers, Command(c)
      PROVE  PoolTypeOK' /\ CallShape'
  <2>1. call[c] \in Call /\ ShapeOf(call[c]) /\ call[c].at = "COMMAND"
        /\ call[c].address \in Addresses
    BY <1>8 DEF Command, At, ShapeOf
  <2>2. AfterCommand(c, FALSE) \in Call \cup {Null}
        /\ (AfterCommand(c, FALSE) # Null => ShapeOf(AfterCommand(c, FALSE)))
    BY <2>1 DEF AfterCommand, ShapeOf, Call
  <2>3. verification' \in [Addresses -> {"ON", "PAUSED", "LEFT"}]
        /\ UNCHANGED <<pool, crowded>>
    BY <1>8, <2>1 DEF Command, Verify
  <2>4. CASE call[c].op = "WRITE"
    BY <1>8, <2>1, <2>3, <2>4 DEF Command, Goto, ShapeOf, Call
  <2>5. CASE call[c].op # "WRITE"
    BY <1>8, <2>2, <2>3, <2>5, <1>s DEF Command
  <2> QED
    BY <2>4, <2>5
<1>9. ASSUME NEW c \in Callers, CommandFails(c)
      PROVE  PoolTypeOK' /\ CallShape'
  <2>1. call[c] \in Call /\ ShapeOf(call[c]) /\ call[c].at = "COMMAND"
    BY <1>9 DEF CommandFails, At
  <2> DEFINE hurt == [call[c] EXCEPT !.failed = TRUE, !.fault = @ \/ ~call[c].robbed]
             h1 == [hurt EXCEPT !.at = "RESUME"]
             h2 == [hurt EXCEPT !.at = "CAUGHT"]
  <2>2. h2 \in Call /\ ShapeOf(h2) /\ (call[c].op = "WRITE" => h1 \in Call /\ ShapeOf(h1))
    BY <2>1 DEF ShapeOf, Call
  <2>3. CASE call[c].op = "WRITE"
    BY <1>9, <2>2, <2>3 DEF CommandFails, TerminalsUnchanged
  <2>4. CASE call[c].op # "WRITE"
    <3>1. Settle(c, h2) /\ UNCHANGED pool /\ TerminalsUnchanged
      BY <1>9, <2>4 DEF CommandFails
    <3> HIDE DEF h2
    <3> QED
      BY <2>2, <3>1, <1>s DEF TerminalsUnchanged
  <2> QED
    BY <2>3, <2>4
<1>10. ASSUME NEW c \in Callers, ResumeDevice(c)
       PROVE  PoolTypeOK' /\ CallShape'
  <2>1. call[c] \in Call /\ ShapeOf(call[c]) /\ call[c].at = "RESUME"
        /\ call[c].address \in Addresses
    BY <1>10 DEF ResumeDevice, At, ShapeOf
  <2> DEFINE k == AfterCommand(c, call[c].failed)
  <2>2. k \in Call \cup {Null} /\ (k # Null => ShapeOf(k))
    BY <2>1 DEF AfterCommand, ShapeOf, Call
  <2>3. verification' \in [Addresses -> {"ON", "PAUSED", "LEFT"}]
        /\ UNCHANGED <<pool, crowded>>
    BY <1>10, <2>1 DEF ResumeDevice, Verify, Unanswered
  <2>4. Settle(c, k)
    BY <1>10 DEF ResumeDevice
  <2> HIDE DEF k
  <2> QED
    BY <2>2, <2>3, <2>4, <1>s
<1>11. ASSUME NEW c \in Callers, Retry(c)
       PROVE  PoolTypeOK' /\ CallShape'
  <2>1. call[c] \in Call /\ ShapeOf(call[c]) /\ call[c].at = "CAUGHT"
    BY <1>11 DEF Retry, At
  <2> QED
    BY <1>11, <2>1 DEF Retry, ShapeOf, Call, TerminalsUnchanged
<1>12. ASSUME NEW c \in Callers, GiveUp(c)
       PROVE  PoolTypeOK' /\ CallShape'
  <2>1. call[c] \in Call /\ ShapeOf(call[c]) /\ call[c].at = "CAUGHT"
    BY <1>12 DEF GiveUp, At
  <2> QED
    BY <1>12, <2>1, ZenonT(40) DEF GiveUp, ShapeOf, Call, TerminalsUnchanged
<1>r. ASSUME NEW s, NEW calls \in [Callers -> Call \cup {Null}],
             \A c \in Callers : calls[c] # Null => ShapeOf(calls[c])
      PROVE  /\ Rob(s, calls) \in [Callers -> Call \cup {Null}]
             /\ \A c \in Callers : Rob(s, calls)[c] # Null => ShapeOf(Rob(s, calls)[c])
  <2>1. ASSUME NEW c \in Callers
        PROVE  LET k == Rob(s, calls)[c]
               IN  k \in Call \cup {Null} /\ (k # Null => ShapeOf(k))
    <3> DEFINE k == [calls[c] EXCEPT !.robbed = TRUE]
    <3>0. calls[c] # Null => calls[c] \in Call
      BY <1>r
    <3>1. calls[c] # Null => k \in Call
      BY <3>0 DEF Call
    <3>3. calls[c] # Null => ShapeOf(k)
      <4>1. SUFFICES ASSUME calls[c] # Null
                     PROVE  ShapeOf(k)
        OBVIOUS
      <4>2. /\ k.op = calls[c].op /\ k.at = calls[c].at /\ k.sock = calls[c].sock
            /\ k.address = calls[c].address /\ k.after = calls[c].after
        BY <3>0, <4>1 DEF Call
      <4> HIDE DEF k
      <4> QED
        BY <1>r, <4>1, <4>2 DEF ShapeOf
    <3>2. Rob(s, calls)[c] = calls[c] \/ (calls[c] # Null /\ Rob(s, calls)[c] = k)
      BY DEF Rob
    <3> HIDE DEF k
    <3> QED
      BY <1>r, <3>1, <3>2, <3>3
  <2> QED
    BY <2>1 DEF Rob
<1>13. ASSUME NEW c \in Callers, RestartFinally(c)
       PROVE  PoolTypeOK' /\ CallShape'
  <2>1. call[c] \in Call /\ ShapeOf(call[c]) /\ call[c].at = "FINALLY"
        /\ call[c].address \in Addresses
    BY <1>13 DEF RestartFinally, At, ShapeOf
  <2> DEFINE others == [call EXCEPT ![c] = Null]
             s == pool[call[c].address]
  <2>2. others \in [Callers -> Call \cup {Null}]
        /\ \A d \in Callers : others[d] # Null => ShapeOf(others[d])
    OBVIOUS
  <2>3. /\ Rob(s, others) \in [Callers -> Call \cup {Null}]
        /\ \A d \in Callers : Rob(s, others)[d] # Null => ShapeOf(Rob(s, others)[d])
    <3> HIDE DEF others, s
    <3>1. others \in [Callers -> Call \cup {Null}]
      BY <2>2
    <3>2. \A d \in Callers : others[d] # Null => ShapeOf(others[d])
      BY <2>2
    <3> QED
      BY <3>1, <3>2, <1>r
  <2>4. socket' \in [Sockets -> Socket]
    <3>1. s = Null \/ s \in Sockets
      BY <2>1
    <3> QED
      BY <1>13, <3>1, ClosedSocket DEF RestartFinally
  <2>5. pool' \in [Addresses -> Sockets \cup {Null}]
    BY <1>13, <2>1 DEF RestartFinally
  <2> QED
    BY <1>13, <2>2, <2>3, <2>4, <2>5 DEF RestartFinally, TerminalsUnchanged
<1>14. ASSUME NEW c \in Callers, NEW a \in Addresses, CloseOld(c, a)
       PROVE  PoolTypeOK' /\ CallShape'
  <2>1. call[c] \in Call /\ ShapeOf(call[c]) /\ call[c].at = "CLOSE"
    BY <1>14 DEF CloseOld, At
  <2> DEFINE calls == Rob(pool[a], call)
  <2>2. /\ calls \in [Callers -> Call \cup {Null}]
        /\ \A d \in Callers : calls[d] # Null => ShapeOf(calls[d])
    BY <1>r
  <2>3. calls[c] = call[c]
    BY <1>14, <2>1 DEF Rob, CloseOld, ShapeOf
  <2>4. socket' \in [Sockets -> Socket]
    BY <1>14 DEF CloseOld, Close, Socket
  <2>5. call' = [calls EXCEPT ![c].at = "UNPOOL", ![c].address = a]
    BY <1>14 DEF CloseOld
  <2> DEFINE k == [call[c] EXCEPT !.at = "UNPOOL", !.address = a]
  <2>k. k \in Call /\ ShapeOf(k)
    BY <2>1 DEF ShapeOf, Call
  <2> HIDE DEF calls
  <2>7. call' = [calls EXCEPT ![c] = k]
    BY <2>2, <2>3, <2>5
  <2> HIDE DEF k
  <2>6. call' \in [Callers -> Call \cup {Null}] /\ CallShape'
    BY <2>2, <2>7, <2>k, <1>o
  <2> QED
    BY <1>14, <2>4, <2>6 DEF CloseOld, TerminalsUnchanged
<1>15. ASSUME NEW c \in Callers, Unpool(c)
       PROVE  PoolTypeOK' /\ CallShape'
  <2>1. call[c] \in Call /\ ShapeOf(call[c]) /\ call[c].at = "UNPOOL"
    BY <1>15 DEF Unpool, At
  <2> QED
    BY <1>15, <2>1, ZenonT(40) DEF Unpool, ShapeOf, Call, TerminalsUnchanged
<1>16. ASSUME NEW c \in Callers, NothingToClose(c)
       PROVE  PoolTypeOK' /\ CallShape'
  <2>1. call[c] \in Call /\ ShapeOf(call[c]) /\ call[c].at = "CLOSE"
    BY <1>16 DEF NothingToClose, At
  <2> QED
    BY <1>16, <2>1 DEF NothingToClose, ShapeOf, Call, Goto, Return, TerminalsUnchanged
<1>17. ASSUME NEW s \in Sockets, Drop(s)
       PROVE  PoolTypeOK' /\ CallShape'
  BY <1>17 DEF Drop, Close, Socket, TerminalsUnchanged
<1>18. ASSUME NEW a \in Addresses, SweepIdle(a)
       PROVE  PoolTypeOK' /\ CallShape'
  <2>1. /\ Rob(pool[a], call) \in [Callers -> Call \cup {Null}]
        /\ \A d \in Callers : Rob(pool[a], call)[d] # Null => ShapeOf(Rob(pool[a], call)[d])
    BY <1>r
  <2>2. socket' \in [Sockets -> Socket] /\ pool' \in [Addresses -> Sockets \cup {Null}]
    BY <1>18 DEF SweepIdle, Close, Socket
  <2> QED
    BY <1>18, <2>1, <2>2 DEF SweepIdle, TerminalsUnchanged
<1>19. CASE Shutdown
  BY <1>19 DEF Shutdown, Socket
<1>20. CASE UNCHANGED poolVars
  BY <1>20 DEF poolVars
<1> QED
  BY <1>1, <1>2, <1>3, <1>4, <1>5, <1>6, <1>7, <1>8, <1>9, <1>10, <1>11, <1>12, <1>13, <1>14,
     <1>15, <1>16, <1>17, <1>18, <1>19, <1>20 DEF PoolNext, CallStep
-----------------------------------------------------------------------------
(* One command at a time.  The commands chained on a socket stand in a line: each  *)
(* one but the first waits for the one in front of it, and the tail is the last.   *)
(* The queue of promises keeps no such number: it is enough that there is one.     *)
ChainedIn(calls, c) ==
    calls[c] # Null /\ calls[c].at \in {"WAIT", "PAUSE", "COMMAND", "RESUME"}

InLine(calls, sockets, place) ==
    /\ \A c \in Callers : ChainedIn(calls, c) =>
          LET d == calls[c].after
              t == sockets[calls[c].sock].tail
          IN  /\ d = Null <=> place[c] = 1
              /\ d # Null => /\ ChainedIn(calls, d) /\ calls[d].sock = calls[c].sock
                             /\ place[d] + 1 = place[c]
              /\ t # Null /\ place[c] <= place[t] /\ place[c] >= 1
    /\ \A c, d \in Callers :
          c # d /\ ChainedIn(calls, c) /\ ChainedIn(calls, d) /\ calls[c].sock = calls[d].sock
              => place[c] # place[d]
    /\ \A s \in Sockets : LET t == sockets[s].tail
                          IN  t # Null => ChainedIn(calls, t) /\ calls[t].sock = s

Queued == \E place \in [Callers -> Nat] : InLine(call, socket, place)

\* A step that moves nobody in a line.
LEMMA LineKept ==
    ASSUME PoolTypeOK, PoolTypeOK', Queued, CallShape,
           \A d \in Callers : /\ ChainedIn(call', d) <=> ChainedIn(call, d)
                              /\ ChainedIn(call, d) => /\ call'[d].after = call[d].after
                                                       /\ call'[d].sock = call[d].sock,
           \A s \in Sockets : socket'[s].tail = socket[s].tail
    PROVE  Queued'
<1>1. PICK place \in [Callers -> Nat] : InLine(call, socket, place)
  BY DEF Queued
<1>2. ASSUME NEW c \in Callers, ChainedIn(call, c)
      PROVE  /\ call[c].sock \in Sockets /\ call[c].after \in Callers \cup {Null}
             /\ socket[call[c].sock].tail \in Callers \cup {Null}
  BY <1>2 DEF ChainedIn, CallShape, ShapeOf, PoolTypeOK, Call, Socket
<1>3. \A s \in Sockets : socket[s].tail \in Callers \cup {Null}
  BY DEF PoolTypeOK, Socket
<1>4. InLine(call', socket', place)
  <2> HIDE DEF ChainedIn
  <2> QED
    BY <1>1, <1>2, <1>3 DEF InLine
<1> QED
  BY <1>4 DEF Queued

\* A command that settles was the first of its line, and the next one moves up.
LEMMA LineSettles ==
    ASSUME PoolTypeOK, PoolTypeOK', Queued, CallShape, NEW c \in Callers,
           ChainedIn(call, c), call[c].after = Null, ~ChainedIn(call', c),
           \A d \in Callers \ {c} :
              /\ ChainedIn(call', d) <=> ChainedIn(call, d)
              /\ ChainedIn(call, d) =>
                    /\ call'[d].after = (IF call[d].after = c THEN Null ELSE call[d].after)
                    /\ call'[d].sock = call[d].sock,
           \A s \in Sockets :
              socket'[s].tail = (IF socket[s].tail = c THEN Null ELSE socket[s].tail)
    PROVE  Queued'
<1>1. PICK place \in [Callers -> Nat] : InLine(call, socket, place)
  BY DEF Queued
<1>2. ASSUME NEW d \in Callers, ChainedIn(call, d)
      PROVE  /\ call[d].sock \in Sockets /\ call[d].after \in Callers \cup {Null}
             /\ socket[call[d].sock].tail \in Callers \cup {Null}
  BY <1>2 DEF ChainedIn, CallShape, ShapeOf, PoolTypeOK, Call, Socket
<1>3. \A s \in Sockets : socket[s].tail \in Callers \cup {Null}
  BY DEF PoolTypeOK, Socket
<1> DEFINE q == call[c].sock
           nearer == [d \in Callers |-> IF ChainedIn(call, d) /\ call[d].sock = q /\ d # c
                                    THEN place[d] - 1 ELSE place[d]]
<1>4. /\ place[c] = 1 /\ q \in Sockets
      /\ \A d \in Callers : ChainedIn(call, d) => place[d] >= 1
      /\ \A d \in Callers : ChainedIn(call, d) /\ call[d].sock = q /\ d # c => place[d] >= 2
  BY <1>1, <1>2 DEF InLine
<1>5. nearer \in [Callers -> Nat]
  BY <1>4
<1>6. ASSUME NEW d \in Callers, ChainedIn(call', d)
      PROVE  LET e == call'[d].after
                 t == socket'[call'[d].sock].tail
             IN  /\ e = Null <=> nearer[d] = 1
                 /\ e # Null => /\ ChainedIn(call', e) /\ call'[e].sock = call'[d].sock
                                /\ nearer[e] + 1 = nearer[d]
                 /\ t # Null /\ nearer[d] <= nearer[t] /\ nearer[d] >= 1
  <2>1. d # c /\ ChainedIn(call, d)
    BY <1>6
  <2> DEFINE e == call[d].after
             t == socket[call[d].sock].tail
  <2>2. /\ e = Null <=> place[d] = 1
        /\ e # Null => /\ ChainedIn(call, e) /\ call[e].sock = call[d].sock
                       /\ place[e] + 1 = place[d]
        /\ t # Null /\ place[d] <= place[t] /\ place[d] >= 1
        /\ ChainedIn(call, t) /\ call[t].sock = call[d].sock
        /\ e \in Callers \cup {Null} /\ t \in Callers
    BY <2>1, <1>1, <1>2 DEF InLine
  <2>3. /\ call'[d].after = (IF e = c THEN Null ELSE e) /\ call'[d].sock = call[d].sock
        /\ call[d].sock \in Sockets
        /\ socket'[call[d].sock].tail = (IF t = c THEN Null ELSE t)
    BY <2>1, <1>2
  <2>4. t # c
    <3>1. SUFFICES ASSUME t = c PROVE FALSE
      OBVIOUS
    <3>2. call[d].sock = q /\ place[d] <= 1
      BY <2>2, <3>1, <1>4
    <3> QED
      BY <3>2, <2>1, <1>4
  <2> HIDE DEF e, t, q, ChainedIn
  <2>5. CASE call[d].sock = q
    <3>1. nearer[d] = place[d] - 1 /\ nearer[t] = place[t] - 1 /\ place[d] >= 2
      BY <2>1, <2>2, <2>4, <2>5, <1>4
    <3>2. e # Null
      BY <2>2, <3>1
    <3>3. e = c \/ nearer[e] = place[e] - 1
      BY <2>2, <2>5, <3>2
    <3>4. CASE e = c
      BY <3>1, <3>2, <3>4, <2>2, <2>3, <2>4, <1>4
    <3>5. CASE e # c
      <4>1. place[e] >= 2
        BY <2>2, <2>5, <3>2, <3>5, <1>4
      <4> QED
        BY <3>1, <3>2, <3>3, <3>5, <4>1, <2>2, <2>3, <2>4
    <3> QED
      BY <3>4, <3>5
  <2>6. CASE call[d].sock # q
    <3>1. nearer[d] = place[d] /\ nearer[t] = place[t] /\ (e # Null => nearer[e] = place[e])
      BY <2>1, <2>2, <2>6
    <3>2. e # c
      BY <2>2, <2>6, NullCallAssumption, PoolAssumption DEF q
    <3> QED
      BY <3>1, <3>2, <2>2, <2>3, <2>4
  <2> QED
    BY <2>5, <2>6
<1>7. ASSUME NEW d \in Callers, NEW e \in Callers, d # e, ChainedIn(call', d),
             ChainedIn(call', e), call'[d].sock = call'[e].sock
      PROVE  nearer[d] # nearer[e]
  <2>1. /\ d # c /\ e # c /\ ChainedIn(call, d) /\ ChainedIn(call, e)
        /\ call[d].sock = call[e].sock /\ place[d] # place[e]
    BY <1>1, <1>7 DEF InLine
  <2> HIDE DEF ChainedIn, q
  <2> QED
    BY <2>1
<1>8. ASSUME NEW s \in Sockets, socket'[s].tail # Null
      PROVE  ChainedIn(call', socket'[s].tail) /\ call'[socket'[s].tail].sock = s
  <2>1. socket[s].tail # c /\ socket[s].tail # Null /\ socket'[s].tail = socket[s].tail
    BY <1>8
  <2>2. ChainedIn(call, socket[s].tail) /\ call[socket[s].tail].sock = s
        /\ socket[s].tail \in Callers
    BY <2>1, <1>1, <1>3 DEF InLine
  <2> QED
    BY <2>1, <2>2
<1>9. InLine(call', socket', nearer)
  <2> HIDE DEF nearer, ChainedIn
  <2> QED
    BY <1>6, <1>7, <1>8 DEF InLine
<1> HIDE DEF nearer
<1> QED
  BY <1>5, <1>9 DEF Queued

\* A command that is chained goes to the end of its line.
LEMMA LineJoined ==
    ASSUME PoolTypeOK, PoolTypeOK', Queued, CallShape, NEW c \in Callers,
           call[c] # Null, ~ChainedIn(call, c), ChainedIn(call', c), call[c].sock \in Sockets,
           call'[c].sock = call[c].sock, call'[c].after = socket[call[c].sock].tail,
           \A d \in Callers \ {c} : call'[d] = call[d],
           socket'[call[c].sock].tail = c,
           \A s \in Sockets \ {call[c].sock} : socket'[s].tail = socket[s].tail
    PROVE  Queued'
<1>1. PICK place \in [Callers -> Nat] : InLine(call, socket, place)
  BY DEF Queued
<1>2. ASSUME NEW d \in Callers, ChainedIn(call, d)
      PROVE  /\ call[d].sock \in Sockets /\ call[d].after \in Callers \cup {Null}
             /\ socket[call[d].sock].tail \in Callers \cup {Null}
  BY <1>2 DEF ChainedIn, CallShape, ShapeOf, PoolTypeOK, Call, Socket
<1>3. \A s \in Sockets : socket[s].tail \in Callers \cup {Null}
  BY DEF PoolTypeOK, Socket
<1> DEFINE q == call[c].sock
           t == socket[q].tail
           n == IF t = Null THEN 1 ELSE place[t] + 1
           down == [place EXCEPT ![c] = n]
<1>4. /\ t # Null => ChainedIn(call, t) /\ call[t].sock = q /\ t \in Callers /\ t # c
      /\ q \in Sockets /\ t \in Callers \cup {Null} /\ c # Null
  BY <1>1, <1>3, PoolAssumption DEF InLine
<1>5. /\ n \in Nat /\ n >= 1
      /\ n = 1 <=> t = Null
      /\ t # Null => place[t] + 1 = n
  BY <1>1, <1>4 DEF InLine
<1>6. \A d \in Callers : ChainedIn(call, d) /\ call[d].sock = q => place[d] < n
  BY <1>1, <1>4, <1>5 DEF InLine
<1> HIDE DEF n
<1>7. down \in [Callers -> Nat] /\ down[c] = n /\ \A d \in Callers \ {c} : down[d] = place[d]
  BY <1>5
<1>8. \A d \in Callers \ {c} : ChainedIn(call', d) <=> ChainedIn(call, d)
  BY DEF ChainedIn
<1> HIDE DEF down, ChainedIn
<1>9. ASSUME NEW d \in Callers, ChainedIn(call', d)
      PROVE  LET e == call'[d].after
                 u == socket'[call'[d].sock].tail
             IN  /\ e = Null <=> down[d] = 1
                 /\ e # Null => /\ ChainedIn(call', e) /\ call'[e].sock = call'[d].sock
                                /\ down[e] + 1 = down[d]
                 /\ u # Null /\ down[d] <= down[u] /\ down[d] >= 1
  <2>1. CASE d = c
    BY <2>1, <1>4, <1>5, <1>7, <1>8
  <2>2. CASE d # c
    <3>1. ChainedIn(call, d) /\ call'[d] = call[d] /\ down[d] = place[d]
      BY <1>7, <1>8, <1>9, <2>2
    <3>2. LET e == call[d].after
              u == socket[call[d].sock].tail
          IN  /\ e = Null <=> place[d] = 1
              /\ e # Null => /\ ChainedIn(call, e) /\ call[e].sock = call[d].sock
                             /\ place[e] + 1 = place[d] /\ e \in Callers /\ e # c
              /\ u # Null /\ place[d] <= place[u] /\ place[d] >= 1
              /\ ChainedIn(call, u) /\ u \in Callers /\ u # c
      BY <1>1, <1>2, <3>1 DEF InLine
    <3>3. CASE call[d].sock = q
      BY <1>4, <1>6, <1>7, <1>8, <3>1, <3>2, <3>3
    <3>4. CASE call[d].sock # q
      BY <1>2, <1>7, <1>8, <3>1, <3>2, <3>4
    <3> QED
      BY <3>3, <3>4
  <2> QED
    BY <2>1, <2>2
<1>10. ASSUME NEW d \in Callers, NEW e \in Callers, d # e, ChainedIn(call', d),
              ChainedIn(call', e), call'[d].sock = call'[e].sock
       PROVE  down[d] # down[e]
  <2>1. CASE d # c /\ e # c
    BY <1>1, <1>7, <1>8, <1>10, <2>1 DEF InLine
  <2>2. CASE d = c
    BY <1>5, <1>6, <1>7, <1>8, <1>10, <2>2
  <2>3. CASE e = c
    BY <1>5, <1>6, <1>7, <1>8, <1>10, <2>3
  <2> QED
    BY <2>1, <2>2, <2>3
<1>11. ASSUME NEW s \in Sockets, socket'[s].tail # Null
       PROVE  ChainedIn(call', socket'[s].tail) /\ call'[socket'[s].tail].sock = s
  <2>1. CASE s = q
    BY <2>1
  <2>2. CASE s # q
    BY <1>1, <1>3, <1>8, <1>11, <2>2 DEF InLine
  <2> QED
    BY <2>1, <2>2
<1>12. InLine(call', socket', down)
  BY <1>9, <1>10, <1>11 DEF InLine
<1> QED
  BY <1>7, <1>12 DEF Queued

\* What settling does to the other calls.
LEMMA SettledCalls ==
    ASSUME PoolTypeOK, NEW c \in Callers, NEW local, Settle(c, local)
    PROVE  /\ call'[c] = local
           /\ \A d \in Callers \ {c} :
                /\ call'[d] = Null <=> call[d] = Null
                /\ call[d] # Null =>
                     /\ call'[d].at = call[d].at /\ call'[d].sock = call[d].sock
                     /\ call'[d].after = (IF call[d].after = c THEN Null ELSE call[d].after)
                     /\ call'[d].address = call[d].address /\ call'[d].op = call[d].op
                     /\ call'[d].failed = call[d].failed /\ call'[d].again = call[d].again
                     /\ call'[d].robbed = call[d].robbed /\ call'[d].fault = call[d].fault
           /\ \A s \in Sockets :
                /\ socket'[s].open = socket[s].open
                /\ socket'[s].tail = (IF socket[s].tail = c THEN Null ELSE socket[s].tail)
<1>1. call'[c] = local
  BY DEF Settle
<1>2. ASSUME NEW d \in Callers \ {c}
      PROVE  /\ call'[d] = Null <=> call[d] = Null
             /\ call[d] # Null =>
                  /\ call'[d].at = call[d].at /\ call'[d].sock = call[d].sock
                  /\ call'[d].after = (IF call[d].after = c THEN Null ELSE call[d].after)
                  /\ call'[d].address = call[d].address /\ call'[d].op = call[d].op
                  /\ call'[d].failed = call[d].failed /\ call'[d].again = call[d].again
                  /\ call'[d].robbed = call[d].robbed /\ call'[d].fault = call[d].fault
  <2>1. CASE call[d] = Null
    BY <1>2, <2>1 DEF Settle
  <2>2. CASE call[d] # Null
    <3> DEFINE k == [call[d] EXCEPT !.after = Null]
    <3>1. call[d] \in Call
      BY <2>2 DEF PoolTypeOK
    <3>2. k \in Call /\ k # Null
      BY <3>1, NullCallAssumption DEF Call
    <3>3. /\ k.at = call[d].at /\ k.sock = call[d].sock /\ k.after = Null
          /\ k.address = call[d].address /\ k.op = call[d].op /\ k.failed = call[d].failed
          /\ k.again = call[d].again /\ k.fault = call[d].fault /\ k.robbed = call[d].robbed
      BY <3>1 DEF Call
    <3>4. call'[d] = IF call[d].after = c THEN k ELSE call[d]
      BY <1>2, <2>2 DEF Settle
    <3> HIDE DEF k
    <3> QED
      BY <2>2, <3>2, <3>3, <3>4
  <2> QED
    BY <2>1, <2>2
<1>3. ASSUME NEW s \in Sockets
      PROVE  /\ socket'[s].open = socket[s].open
             /\ socket'[s].tail = (IF socket[s].tail = c THEN Null ELSE socket[s].tail)
  <2>1. socket[s] \in Socket
    BY DEF PoolTypeOK
  <2> QED
    BY <2>1 DEF Settle, Socket
<1> QED
  BY <1>1, <1>2, <1>3

LEMMA QueuedInit == PoolInit => Queued
<1> SUFFICES ASSUME PoolInit PROVE Queued
  OBVIOUS
<1>1. InLine(call, socket, [c \in Callers |-> 1])
  BY DEF PoolInit, InLine, ChainedIn
<1>2. [c \in Callers |-> 1] \in [Callers -> Nat]
  OBVIOUS
<1> QED
  BY <1>1, <1>2 DEF Queued

LEMMA QueuedNext ==
    ASSUME PoolTypeOK, CallShape, Queued, PoolTypeOK', CallShape', [PoolNext]_poolVars
    PROVE  Queued'
<1> USE PoolAssumption, NullCallAssumption
\* Steps of one call on its way to a connection or from it.
<1>o. ASSUME NEW c \in Callers, \A d \in Callers \ {c} : call'[d] = call[d],
             ~ChainedIn(call, c), ~ChainedIn(call', c),
             \A s \in Sockets : socket'[s].tail = socket[s].tail
      PROVE  Queued'
  <2>1. \A d \in Callers : /\ ChainedIn(call', d) <=> ChainedIn(call, d)
                           /\ ChainedIn(call, d) => /\ call'[d].after = call[d].after
                                                    /\ call'[d].sock = call[d].sock
    BY <1>o DEF ChainedIn
  <2> QED
    BY <2>1, <1>o, LineKept
\* Steps of a command.
<1>w. ASSUME NEW c \in Callers, \A d \in Callers \ {c} : call'[d] = call[d],
             ChainedIn(call, c), ChainedIn(call', c), call'[c].after = call[c].after,
             call'[c].sock = call[c].sock, UNCHANGED socket
      PROVE  Queued'
  <2>1. \A d \in Callers : /\ ChainedIn(call', d) <=> ChainedIn(call, d)
                           /\ ChainedIn(call, d) => /\ call'[d].after = call[d].after
                                                    /\ call'[d].sock = call[d].sock
    BY <1>w DEF ChainedIn
  <2> QED
    BY <2>1, <1>w, LineKept
<1>1. ASSUME NEW c \in Callers, NEW op \in PoolOps[c], NEW a \in Addresses, Begin(c, op, a)
      PROVE  Queued'
  BY <1>1, <1>o DEF Begin, ChainedIn, NewCall, PoolTypeOK
<1>2. ASSUME NEW c \in Callers, Lookup(c)
      PROVE  Queued'
  <2>1. call[c] \in Call /\ call[c].at = "LOOKUP"
    BY <1>2 DEF Lookup, At, PoolTypeOK
  <2>2. /\ call'[c].at \in {"HAVE", "OPEN"} /\ UNCHANGED socket
        /\ \A d \in Callers \ {c} : call'[d] = call[d]
    BY <1>2, <2>1 DEF Lookup, Goto, PoolTypeOK, Call
  <2> QED
    BY <2>1, <2>2, <1>o DEF ChainedIn
<1>3. ASSUME NEW c \in Callers, NEW s \in Sockets, OpenConnection(c, s)
      PROVE  Queued'
  <2>1. call[c] \in Call /\ call[c].at = "OPEN"
    BY <1>3 DEF OpenConnection, At, PoolTypeOK
  <2>2. /\ call'[c] = Null \/ call'[c].at = "HAVE"
        /\ \A d \in Callers \ {c} : call'[d] = call[d]
    BY <1>3, <2>1 DEF OpenConnection, PoolTypeOK, Call
  <2>3. \A t \in Sockets : socket'[t].tail = socket[t].tail
    BY <1>3 DEF OpenConnection, PoolTypeOK, Socket
  <2> QED
    BY <2>1, <2>2, <2>3, <1>o DEF ChainedIn
<1>4. ASSUME NEW c \in Callers, OpenFails(c)
      PROVE  Queued'
  <2>1. call[c] \in Call /\ call[c].at = "OPEN"
    BY <1>4 DEF OpenFails, At, PoolTypeOK
  <2>2. /\ call'[c] = Null \/ call'[c].at \in {"OPEN", "FINALLY"}
        /\ \A d \in Callers \ {c} : call'[d] = call[d]
    BY <1>4, <2>1 DEF OpenFails, PoolTypeOK, Call
  <2> QED
    BY <2>1, <2>2, <1>4, <1>o DEF ChainedIn, OpenFails
<1>5. ASSUME NEW c \in Callers, Enqueue(c)
      PROVE  Queued'
  <2>1. call[c] \in Call /\ call[c].at = "HAVE" /\ call[c].sock \in Sockets
    BY <1>5, ZenonT(40) DEF Enqueue, At, PoolTypeOK, CallShape, ShapeOf, Call
  <2>2. /\ call'[c] # Null /\ call'[c].at = "WAIT" /\ call'[c].sock = call[c].sock
        /\ call'[c].after = socket[call[c].sock].tail
        /\ \A d \in Callers \ {c} : call'[d] = call[d]
    <3> DEFINE k == [call[c] EXCEPT !.at = "WAIT", !.after = socket[call[c].sock].tail]
    <3>1. k \in Call /\ k.at = "WAIT" /\ k.sock = call[c].sock
          /\ k.after = socket[call[c].sock].tail
      BY <2>1 DEF Call, PoolTypeOK, Socket
    <3>2. call' = [call EXCEPT ![c] = k]
      BY <1>5 DEF Enqueue
    <3> HIDE DEF k
    <3> QED
      BY <3>1, <3>2 DEF PoolTypeOK
  <2>3. /\ socket'[call[c].sock].tail = c
        /\ \A s \in Sockets \ {call[c].sock} : socket'[s].tail = socket[s].tail
    BY <1>5, <2>1, ChainedSocket DEF Enqueue, PoolTypeOK
  <2> QED
    BY <2>1, <2>2, <2>3, LineJoined DEF ChainedIn
<1>6. ASSUME NEW c \in Callers, Run(c)
      PROVE  Queued'
  <2>1. call[c] \in Call /\ call[c].at = "WAIT"
    BY <1>6 DEF Run, At, PoolTypeOK
  <2>2. /\ call'[c] # Null /\ call'[c].at \in {"PAUSE", "COMMAND"}
        /\ call'[c].sock = call[c].sock /\ call'[c].after = call[c].after
        /\ \A d \in Callers \ {c} : call'[d] = call[d]
    BY <1>6, <2>1 DEF Run, Goto, PoolTypeOK, Call
  <2> QED
    BY <1>6, <2>1, <2>2, <1>w DEF ChainedIn, Run
<1>7. ASSUME NEW c \in Callers, PauseDevice(c)
      PROVE  Queued'
  <2>1. call[c] \in Call /\ call[c].at = "PAUSE"
    BY <1>7 DEF PauseDevice, At, PoolTypeOK
  <2>2. /\ call'[c] # Null /\ call'[c].at = "COMMAND"
        /\ call'[c].sock = call[c].sock /\ call'[c].after = call[c].after
        /\ \A d \in Callers \ {c} : call'[d] = call[d]
    BY <1>7, <2>1 DEF PauseDevice, Goto, PoolTypeOK, Call
  <2> QED
    BY <1>7, <2>1, <2>2, <1>w DEF ChainedIn, PauseDevice
\* A command that settles.
<1>s. ASSUME NEW c \in Callers, NEW local, Settle(c, local),
             call[c] # Null, call[c].at \in {"COMMAND", "RESUME"},
             local = Null \/ local.at \in {"CAUGHT", "FINALLY"}
      PROVE  Queued'
  <2>1. /\ call[c].after = Null /\ ChainedIn(call, c)
        /\ ~ChainedIn(call', c)
    BY <1>s, SettledCalls DEF CallShape, ShapeOf, ChainedIn
  <2>2. /\ \A d \in Callers \ {c} :
              /\ ChainedIn(call', d) <=> ChainedIn(call, d)
              /\ ChainedIn(call, d) =>
                    /\ call'[d].after = (IF call[d].after = c THEN Null ELSE call[d].after)
                    /\ call'[d].sock = call[d].sock
        /\ \A s \in Sockets :
              socket'[s].tail = (IF socket[s].tail = c THEN Null ELSE socket[s].tail)
    BY <1>s, SettledCalls DEF ChainedIn
  <2> QED
    BY <2>1, <2>2, LineSettles
<1>a. ASSUME NEW c \in Callers, call[c] \in Call, NEW failed
      PROVE  LET k == AfterCommand(c, failed)
             IN  k = Null \/ k.at \in {"CAUGHT", "FINALLY"}
  BY <1>a DEF AfterCommand, Call
<1>8. ASSUME NEW c \in Callers, Command(c)
      PROVE  Queued'
  <2>1. call[c] \in Call /\ call[c] # Null /\ call[c].at = "COMMAND"
    BY <1>8 DEF Command, At, PoolTypeOK
  <2>2. CASE call[c].op = "WRITE"
    <3>1. /\ call'[c] # Null /\ call'[c].at = "RESUME" /\ UNCHANGED socket
          /\ call'[c].sock = call[c].sock /\ call'[c].after = call[c].after
          /\ \A d \in Callers \ {c} : call'[d] = call[d]
      BY <1>8, <2>1, <2>2 DEF Command, Goto, PoolTypeOK, Call
    <3> QED
      BY <2>1, <3>1, <1>w DEF ChainedIn
  <2>3. CASE call[c].op # "WRITE"
    <3>1. Settle(c, AfterCommand(c, FALSE))
      BY <1>8, <2>3 DEF Command
    <3> QED
      BY <2>1, <3>1, <1>a, <1>s
  <2> QED
    BY <2>2, <2>3
<1>9. ASSUME NEW c \in Callers, CommandFails(c)
      PROVE  Queued'
  <2>1. call[c] \in Call /\ call[c] # Null /\ call[c].at = "COMMAND"
    BY <1>9 DEF CommandFails, At, PoolTypeOK
  <2> DEFINE hurt == [call[c] EXCEPT !.failed = TRUE, !.fault = @ \/ ~call[c].robbed]
             h1 == [hurt EXCEPT !.at = "RESUME"]
             h2 == [hurt EXCEPT !.at = "CAUGHT"]
  <2>2. /\ h1 \in Call /\ h1.at = "RESUME" /\ h1.sock = call[c].sock
        /\ h1.after = call[c].after /\ h2.at = "CAUGHT"
    BY <2>1 DEF Call
  <2>3. CASE call[c].op = "WRITE"
    <3>1. call' = [call EXCEPT ![c] = h1] /\ UNCHANGED socket
      BY <1>9, <2>3 DEF CommandFails
    <3> HIDE DEF h1, h2
    <3> QED
      BY <2>1, <2>2, <3>1, <1>w DEF ChainedIn, PoolTypeOK
  <2>4. CASE call[c].op # "WRITE"
    <3>1. Settle(c, h2)
      BY <1>9, <2>4 DEF CommandFails
    <3> HIDE DEF h1, h2
    <3> QED
      BY <2>1, <2>2, <3>1, <1>s
  <2> QED
    BY <2>3, <2>4
<1>10. ASSUME NEW c \in Callers, ResumeDevice(c)
       PROVE  Queued'
  <2>1. call[c] \in Call /\ call[c] # Null /\ call[c].at = "RESUME"
    BY <1>10 DEF ResumeDevice, At, PoolTypeOK
  <2>2. Settle(c, AfterCommand(c, call[c].failed))
    BY <1>10 DEF ResumeDevice
  <2> QED
    BY <2>1, <2>2, <1>a, <1>s
<1>11. ASSUME NEW c \in Callers, Retry(c)
       PROVE  Queued'
  <2>1. call[c] \in Call /\ call[c].at = "CAUGHT"
    BY <1>11 DEF Retry, At, PoolTypeOK
  <2>2. call'[c].at = "LOOKUP" /\ \A d \in Callers \ {c} : call'[d] = call[d]
    BY <1>11, <2>1 DEF Retry, PoolTypeOK, Call
  <2> QED
    BY <1>11, <2>1, <2>2, <1>o DEF ChainedIn, Retry
<1>12. ASSUME NEW c \in Callers, GiveUp(c)
       PROVE  Queued'
  <2>1. call[c] \in Call /\ call[c].at = "CAUGHT"
    BY <1>12 DEF GiveUp, At, PoolTypeOK
  <2>2. /\ call'[c] = Null \/ call'[c].at = "FINALLY"
        /\ \A d \in Callers \ {c} : call'[d] = call[d]
    BY <1>12, <2>1 DEF GiveUp, PoolTypeOK, Call
  <2> QED
    BY <1>12, <2>1, <2>2, <1>o DEF ChainedIn, GiveUp
\* Steps that close a connection under other calls.
<1>r. ASSUME NEW s \in Sockets, Close(s), NEW c \in Callers, ~ChainedIn(call, c),
             ~ChainedIn(call', c),
             NEW calls \in [Callers -> Call \cup {Null}],
             \A d \in Callers \ {c} : calls[d] = call[d] /\ call'[d] = Rob(s, calls)[d]
      PROVE  Queued'
  <2>1. \A d \in Callers : /\ ChainedIn(call', d) <=> ChainedIn(call, d)
                           /\ ChainedIn(call, d) => /\ call'[d].after = call[d].after
                                                    /\ call'[d].sock = call[d].sock
    BY <1>r, RobbedCalls DEF ChainedIn
  <2>2. \A t \in Sockets : socket'[t].tail = socket[t].tail
    BY <1>r, ClosedSocket DEF PoolTypeOK
  <2> QED
    BY <2>1, <2>2, LineKept
<1>13. ASSUME NEW c \in Callers, RestartFinally(c)
       PROVE  Queued'
  <2> DEFINE calls == [call EXCEPT ![c] = Null]
             s == pool[call[c].address]
  <2>1. call[c] # Null /\ call[c].at = "FINALLY" /\ call[c].address \in Addresses
    BY <1>13 DEF RestartFinally, At, CallShape, ShapeOf
  <2>2. /\ calls \in [Callers -> Call \cup {Null}] /\ s \in Sockets \cup {Null}
        /\ calls[c] = Null /\ \A d \in Callers \ {c} : calls[d] = call[d]
        /\ ~ChainedIn(call, c)
    BY <2>1 DEF PoolTypeOK, ChainedIn
  <2>3. \/ s = Null /\ call' = calls /\ UNCHANGED socket
        \/ s # Null /\ Close(s) /\ call' = Rob(s, calls)
    BY <1>13 DEF RestartFinally
  <2> HIDE DEF calls, s
  <2>4. CASE s = Null
    BY <2>2, <2>3, <2>4, <1>o DEF ChainedIn
  <2>5. CASE s # Null
    <3>1. ~ChainedIn(call', c)
      BY <2>2, <2>3, <2>5, RobbedCalls DEF ChainedIn
    <3> QED
      BY <2>2, <2>3, <2>5, <3>1, <1>r
  <2> QED
    BY <2>4, <2>5
<1>14. ASSUME NEW c \in Callers, NEW a \in Addresses, CloseOld(c, a)
       PROVE  Queued'
  <2> DEFINE calls == Rob(pool[a], call)
  <2>1. /\ call[c] # Null /\ call[c].at = "CLOSE" /\ pool[a] \in Sockets /\ Close(pool[a])
        /\ call' = [calls EXCEPT ![c].at = "UNPOOL", ![c].address = a]
        /\ call \in [Callers -> Call \cup {Null}]
    BY <1>14 DEF CloseOld, At, PoolTypeOK
  <2>2. calls = [d \in Callers |-> calls[d]]
    BY DEF Rob
  <2>4. calls[c] \in Call
    BY <2>1, RobbedCalls
  <2> HIDE DEF calls
  <2>3. call'[c].at = "UNPOOL" /\ \A d \in Callers \ {c} : call'[d] = calls[d]
    BY <2>1, <2>2, <2>4 DEF Call
  <2> QED
    BY <2>1, <2>3, <1>r DEF ChainedIn, calls
<1>15. ASSUME NEW c \in Callers, Unpool(c)
       PROVE  Queued'
  <2>1. call[c] \in Call /\ call[c].at = "UNPOOL"
    BY <1>15 DEF Unpool, At, PoolTypeOK
  <2>2. call'[c].at \in {"OPEN", "CLOSE"} /\ \A d \in Callers \ {c} : call'[d] = call[d]
    BY <1>15, <2>1 DEF Unpool, PoolTypeOK, Call
  <2> QED
    BY <1>15, <2>1, <2>2, <1>o DEF ChainedIn, Unpool
<1>16. ASSUME NEW c \in Callers, NothingToClose(c)
       PROVE  Queued'
  <2>1. call[c] \in Call /\ call[c].at = "CLOSE"
    BY <1>16 DEF NothingToClose, At, PoolTypeOK
  <2>2. /\ call'[c] = Null \/ call'[c].at = "OPEN"
        /\ \A d \in Callers \ {c} : call'[d] = call[d]
    <3>1. CASE call[c].op = "CONNECT"
      BY <1>16, <2>1, <3>1 DEF NothingToClose, Goto, PoolTypeOK, Call
    <3>2. CASE call[c].op # "CONNECT"
      BY <1>16, <2>1, <3>2 DEF NothingToClose, Return, PoolTypeOK
    <3> QED
      BY <3>1, <3>2
  <2> QED
    BY <1>16, <2>1, <2>2, <1>o DEF ChainedIn, NothingToClose
<1>17. ASSUME NEW s \in Sockets, Drop(s)
       PROVE  Queued'
  <2>1. UNCHANGED call /\ \A t \in Sockets : socket'[t].tail = socket[t].tail
    BY <1>17, ClosedSocket DEF Drop, PoolTypeOK
  <2> QED
    BY <2>1, LineKept DEF ChainedIn
<1>18. ASSUME NEW a \in Addresses, SweepIdle(a)
       PROVE  Queued'
  <2>1. /\ pool[a] \in Sockets /\ Close(pool[a]) /\ call' = Rob(pool[a], call)
        /\ call \in [Callers -> Call \cup {Null}]
    BY <1>18 DEF SweepIdle, PoolTypeOK
  <2>2. \A d \in Callers : /\ ChainedIn(call', d) <=> ChainedIn(call, d)
                           /\ ChainedIn(call, d) => /\ call'[d].after = call[d].after
                                                    /\ call'[d].sock = call[d].sock
    BY <2>1, RobbedCalls DEF ChainedIn
  <2>3. \A t \in Sockets : socket'[t].tail = socket[t].tail
    BY <2>1, ClosedSocket DEF PoolTypeOK
  <2> QED
    BY <2>2, <2>3, LineKept
<1>19. CASE Shutdown
  <2>1. InLine(call', socket', [c \in Callers |-> 1])
    BY <1>19 DEF Shutdown, InLine, ChainedIn
  <2>2. [c \in Callers |-> 1] \in [Callers -> Nat]
    OBVIOUS
  <2> QED
    BY <2>1, <2>2 DEF Queued
<1>20. CASE UNCHANGED poolVars
  BY <1>20, LineKept DEF poolVars, ChainedIn
<1> QED
  BY <1>1, <1>2, <1>3, <1>4, <1>5, <1>6, <1>7, <1>8, <1>9, <1>10, <1>11, <1>12, <1>13, <1>14,
     <1>15, <1>16, <1>17, <1>18, <1>19, <1>20 DEF PoolNext, CallStep

LEMMA QueuedMeansOne ==
    ASSUME PoolTypeOK, CallShape, Queued
    PROVE  OneCommandAtATime
<1>1. PICK place \in [Callers -> Nat] : InLine(call, socket, place)
  BY DEF Queued
<1>2. ASSUME NEW c \in Callers, OnTheWire(c)
      PROVE  ChainedIn(call, c) /\ place[c] = 1
  <2>1. call[c] # Null /\ call[c].at \in {"PAUSE", "COMMAND", "RESUME"} /\ ChainedIn(call, c)
    BY <1>2 DEF OnTheWire, ChainedIn
  <2>2. call[c].after = Null
    BY <2>1 DEF CallShape, ShapeOf
  <2> QED
    BY <1>1, <2>1, <2>2 DEF InLine
<1>3. ASSUME NEW c \in Callers, NEW d \in Callers, c # d, OnTheWire(c), OnTheWire(d)
      PROVE  call[c].sock # call[d].sock
  BY <1>1, <1>2, <1>3 DEF InLine
<1> QED
  BY <1>3 DEF OneCommandAtATime
-----------------------------------------------------------------------------
(* A connection that was closed under a call is dead for as long as the call holds *)
(* it, and a command fails by the terminal's fault or for that reason.             *)
Blames(k, sockets) ==
    /\ k.robbed => IF k.sock = Null THEN k.at = "FINALLY" ELSE ~sockets[k.sock].open
    /\ k.failed => k.at \in {"RESUME", "CAUGHT", "FINALLY"}
    /\ k.at = "CAUGHT" \/ (k.at = "RESUME" /\ k.failed) => k.fault \/ k.robbed

Blame == \A c \in Callers : call[c] # Null => Blames(call[c], socket)

(* While the calls for every terminal come one at a time, the calls that run are   *)
(* for different terminals, and what each of them knows of the pool is still true: *)
(* a connection in use is the pooled one, or it is dead; the old one is out of the *)
(* pool before a new one is opened, and closed before it is taken out.             *)
Keeps(k, entries, sockets) ==
    /\ k.sock # Null => /\ entries[k.address] \in {k.sock, Null}
                        /\ sockets[k.sock].open => entries[k.address] = k.sock
    /\ k.at = "OPEN" => entries[k.address] = Null
    /\ k.at = "UNPOOL" /\ entries[k.address] # Null => ~sockets[entries[k.address]].open

Calm == \A a \in Addresses : ~crowded[a]

OneEach ==
    \A c, d \in Callers : c # d /\ call[c] # Null /\ call[d] # Null =>
        call[c].op # "DISCONNECT" /\ call[c].address # call[d].address

Orderly ==
    Calm => /\ OneEach
            /\ \A c \in Callers : call[c] # Null => Keeps(call[c], pool, socket)
            /\ \A s \in Sockets : socket[s].open => Pooled(s) \/ Held(s)

\* What a step of one call leaves of another.
SameCall(d) ==
    /\ call'[d] = Null <=> call[d] = Null
    /\ call[d] # Null => /\ call'[d].at = call[d].at /\ call'[d].sock = call[d].sock
                         /\ call'[d].address = call[d].address /\ call'[d].op = call[d].op

LEMMA BlameKept ==
    ASSUME PoolTypeOK, PoolTypeOK', CallShape, Blame, NEW c \in Callers,
           \A d \in Callers \ {c} :
              /\ SameCall(d)
              /\ call[d] # Null => /\ call'[d].failed = call[d].failed
                                   /\ call'[d].fault = call[d].fault
                                   /\ call'[d].robbed = call[d].robbed,
           call'[c] # Null => Blames(call'[c], socket'),
           \A s \in Sockets : socket'[s].open => socket[s].open
    PROVE  Blame'
<1>1. ASSUME NEW d \in Callers \ {c}, call'[d] # Null
      PROVE  Blames(call'[d], socket')
  <2>1. call[d] # Null /\ Blames(call[d], socket)
    BY <1>1 DEF SameCall, Blame
  <2>2. call[d] \in Call /\ call'[d] \in Call
    BY <1>1, <2>1 DEF PoolTypeOK
  <2>3. /\ call[d].sock \in Sockets \cup {Null}
        /\ call[d].robbed \in BOOLEAN /\ call[d].failed \in BOOLEAN /\ call[d].fault \in BOOLEAN
    BY <2>2 DEF Call
  <2>4. /\ call'[d].robbed <=> call[d].robbed
        /\ call'[d].failed <=> call[d].failed
        /\ call'[d].fault <=> call[d].fault
    BY <2>1, <2>3
  <2>5. call'[d].at = call[d].at /\ call'[d].sock = call[d].sock
    BY <2>1 DEF SameCall
  <2> QED
    BY <2>1, <2>3, <2>4, <2>5 DEF Blames
<1> QED
  BY <1>1 DEF Blame

Writes(k, a) ==
    k # Null /\ k.op = "WRITE" /\ k.address = a /\ k.at \in {"COMMAND", "RESUME"}

LEMMA PausedKept ==
    ASSUME PausedOnlyUnanswered, NEW c \in Callers, \A d \in Callers \ {c} : SameCall(d),
           \A a \in Addresses : verification'[a] = "PAUSED" =>
              /\ verification[a] = "PAUSED" \/ Writes(call'[c], a)
              /\ Writes(call[c], a) => Writes(call'[c], a)
    PROVE  PausedOnlyUnanswered'
<1>1. \A d \in Callers \ {c}, a \in Addresses : Writes(call[d], a) => Writes(call'[d], a)
  BY DEF SameCall, Writes
<1>2. ASSUME NEW a \in Addresses, verification'[a] = "PAUSED"
      PROVE  \E d \in Callers : Writes(call'[d], a)
  BY <1>1, <1>2 DEF PausedOnlyUnanswered, Writes
<1> QED
  BY <1>2 DEF PausedOnlyUnanswered, Writes

\* A step of a call that opens nothing, and takes of the pool only its own terminal's
\* connection, once that is closed.
LEMMA OrderlyKept ==
    ASSUME PoolTypeOK, CallShape, PoolTypeOK', Orderly, UNCHANGED crowded,
           NEW c \in Callers, call[c] # Null, \A d \in Callers \ {c} : SameCall(d),
           call'[c] # Null =>
              /\ call'[c].op = call[c].op
              /\ call'[c].address = call[c].address \/ call[c].op = "DISCONNECT",
           Calm /\ Keeps(call[c], pool, socket) /\ call'[c] # Null
              => Keeps(call'[c], pool', socket'),
           \A s \in Sockets : socket'[s].open => socket[s].open,
           \A a \in Addresses : a # call[c].address => pool'[a] = pool[a],
           LET a == call[c].address
           IN  Calm /\ Keeps(call[c], pool, socket) /\ a \in Addresses =>
                  \/ pool'[a] = pool[a]
                  \/ pool'[a] = Null /\ (pool[a] = Null \/ ~socket'[pool[a]].open)
    PROVE  Orderly'
<1> USE PoolAssumption
<1> SUFFICES ASSUME Calm'
             PROVE  /\ OneEach'
                    /\ \A d \in Callers : call'[d] # Null => Keeps(call'[d], pool', socket')
                    /\ \A s \in Sockets : socket'[s].open => Pooled(s)' \/ Held(s)'
  BY DEF Orderly
<1>1. /\ Calm /\ OneEach
      /\ \A d \in Callers : call[d] # Null => Keeps(call[d], pool, socket)
      /\ \A s \in Sockets : socket[s].open => Pooled(s) \/ Held(s)
  BY DEF Orderly, Calm
<1>2. OneEach'
  <2>1. ASSUME NEW d \in Callers, NEW e \in Callers, d # e, call'[d] # Null, call'[e] # Null
        PROVE  call'[d].op # "DISCONNECT" /\ call'[d].address # call'[e].address
    <3>1. call[d] # Null /\ call[e] # Null /\ call[d].op # "DISCONNECT"
          /\ call[e].op # "DISCONNECT" /\ call[d].address # call[e].address
      BY <1>1, <2>1 DEF OneEach, SameCall
    <3>2. /\ call'[d].op = call[d].op /\ call'[d].address = call[d].address
          /\ call'[e].op = call[e].op /\ call'[e].address = call[e].address
      BY <2>1, <3>1 DEF SameCall
    <3> QED
      BY <3>1, <3>2
  <2> QED
    BY <2>1 DEF OneEach
<1>3. ASSUME NEW d \in Callers, call'[d] # Null
      PROVE  Keeps(call'[d], pool', socket')
  <2>1. CASE d = c
    BY <1>1, <1>3, <2>1
  <2>2. CASE d # c
    <3>1. /\ call[d] # Null /\ Keeps(call[d], pool, socket) /\ call[d].op # "DISCONNECT"
          /\ call[d].address # call[c].address
      BY <1>1, <1>3, <2>2 DEF SameCall, OneEach
    <3>2. /\ call[d].address \in Addresses /\ call[d].sock \in Sockets \cup {Null}
          /\ pool'[call[d].address] = pool[call[d].address]
          /\ pool[call[d].address] \in Sockets \cup {Null}
      BY <3>1 DEF CallShape, ShapeOf, PoolTypeOK, Call
    <3>3. /\ call'[d].at = call[d].at /\ call'[d].sock = call[d].sock
          /\ call'[d].address = call[d].address
      BY <2>2, <3>1 DEF SameCall
    <3> QED
      BY <3>1, <3>2, <3>3 DEF Keeps
  <2> QED
    BY <2>1, <2>2
<1>4. ASSUME NEW s \in Sockets, socket'[s].open
      PROVE  Pooled(s)' \/ Held(s)'
  <2>0. socket[s].open /\ s # Null
    BY <1>4 DEF Sockets
  <2>1. ASSUME NEW a \in Addresses, pool[a] = s
        PROVE  Pooled(s)'
    BY <1>1, <1>4, <2>0, <2>1 DEF Pooled
  <2>2. ASSUME NEW d \in Callers, call[d] # Null, call[d].sock = s
        PROVE  Pooled(s)' \/ Held(s)'
    <3>1. CASE d = c
      <4>1. call[c].address \in Addresses /\ pool[call[c].address] = s
        BY <1>1, <2>0, <2>2, <3>1 DEF CallShape, ShapeOf, Keeps
      <4> QED
        BY <2>1, <4>1
    <3>2. CASE d # c
      BY <2>2, <3>2 DEF SameCall, Held
    <3> QED
      BY <3>1, <3>2
  <2> QED
    BY <1>1, <2>0, <2>1, <2>2 DEF Pooled, Held
<1> QED
  BY <1>2, <1>3, <1>4

\* A step of no call: a connection drops, or an idle one is swept.
LEMMA OrderlyUntouched ==
    ASSUME PoolTypeOK, CallShape, PoolTypeOK', Orderly, UNCHANGED crowded,
           \A d \in Callers : SameCall(d),
           \A s \in Sockets : socket'[s].open => socket[s].open,
           \A a \in Addresses :
              \/ pool'[a] = pool[a]
              \/ pool'[a] = Null /\ (pool[a] = Null \/ ~socket'[pool[a]].open)
    PROVE  Orderly'
<1> USE PoolAssumption
<1> SUFFICES ASSUME Calm'
             PROVE  /\ OneEach'
                    /\ \A d \in Callers : call'[d] # Null => Keeps(call'[d], pool', socket')
                    /\ \A s \in Sockets : socket'[s].open => Pooled(s)' \/ Held(s)'
  BY DEF Orderly
<1>1. /\ Calm /\ OneEach
      /\ \A d \in Callers : call[d] # Null => Keeps(call[d], pool, socket)
      /\ \A s \in Sockets : socket[s].open => Pooled(s) \/ Held(s)
  BY DEF Orderly, Calm
<1>2. OneEach'
  BY <1>1 DEF OneEach, SameCall
<1>3. ASSUME NEW d \in Callers, call'[d] # Null
      PROVE  Keeps(call'[d], pool', socket')
  <2>1. /\ call[d] # Null /\ Keeps(call[d], pool, socket)
        /\ call'[d].at = call[d].at /\ call'[d].sock = call[d].sock
        /\ call'[d].address = call[d].address
    BY <1>1, <1>3 DEF SameCall
  <2> DEFINE a == call[d].address
  <2>2. CASE a \in Addresses
    <3>1. call[d].sock \in Sockets \cup {Null} /\ pool[a] \in Sockets \cup {Null}
      BY <2>1, <2>2 DEF PoolTypeOK, Call
    <3> QED
      BY <2>1, <2>2, <3>1 DEF Keeps
  <2>3. CASE a \notin Addresses
    BY <2>1, <2>3 DEF Keeps, CallShape, ShapeOf
  <2> QED
    BY <2>2, <2>3
<1>4. ASSUME NEW s \in Sockets, socket'[s].open
      PROVE  Pooled(s)' \/ Held(s)'
  <2>1. socket[s].open /\ s # Null
    BY <1>4 DEF Sockets
  <2>2. ASSUME NEW a \in Addresses, pool[a] = s
        PROVE  Pooled(s)'
    BY <1>4, <2>1, <2>2 DEF Pooled
  <2>3. ASSUME NEW d \in Callers, call[d] # Null, call[d].sock = s
        PROVE  Held(s)'
    BY <2>3 DEF SameCall, Held
  <2> QED
    BY <1>1, <2>1, <2>2, <2>3 DEF Pooled, Held
<1> QED
  BY <1>2, <1>3, <1>4

\* A connection that is closed under the calls that use it marks them.
LEMMA BlameRobbed ==
    ASSUME PoolTypeOK, PoolTypeOK', CallShape, Blame, NEW s \in Sockets, Close(s),
           NEW calls \in [Callers -> Call \cup {Null}], NEW d \in Callers,
           calls[d] = call[d], call'[d] = Rob(s, calls)[d], call'[d] # Null
    PROVE  SameCall(d) /\ Blames(call'[d], socket')
<1> USE PoolAssumption
<1>1. /\ call[d] # Null /\ call[d] \in Call /\ Blames(call[d], socket)
  BY RobbedCalls DEF Blame
<1>2. /\ call'[d].at = call[d].at /\ call'[d].sock = call[d].sock
      /\ call'[d].op = call[d].op /\ call'[d].address = call[d].address
      /\ call'[d].failed = call[d].failed /\ call'[d].fault = call[d].fault
      /\ call'[d].robbed = (call[d].robbed \/ (call[d].sock = s /\ socket[s].open))
  BY <1>1, RobbedCalls
<1>3. /\ ~socket'[s].open /\ \A t \in Sockets \ {s} : socket'[t] = socket[t]
  BY ClosedSocket DEF PoolTypeOK
<1>4. /\ call[d].sock \in Sockets \cup {Null} /\ call[d].robbed \in BOOLEAN
      /\ call[d].failed \in BOOLEAN /\ call[d].fault \in BOOLEAN
  BY <1>1 DEF Call
<1>5. SameCall(d)
  BY <1>1, <1>2 DEF SameCall
<1>6. /\ call'[d].failed <=> call[d].failed
      /\ call'[d].fault <=> call[d].fault
      /\ call'[d].robbed <=> (call[d].robbed \/ (call[d].sock = s /\ socket[s].open))
  BY <1>2, <1>4
<1>7. s # Null
  BY DEF Sockets
<1>8. Blames(call'[d], socket')
  BY <1>1, <1>2, <1>3, <1>4, <1>6, <1>7 DEF Blames
<1> QED
  BY <1>5, <1>8

LEMMA HealthyInit == PoolInit => Blame /\ PausedOnlyUnanswered /\ Orderly
BY DEF PoolInit, Blame, PausedOnlyUnanswered, Orderly, OneEach

LEMMA HealthyNext ==
    ASSUME PoolTypeOK, CallShape, Blame, PausedOnlyUnanswered, Orderly,
           PoolTypeOK', CallShape', [PoolNext]_poolVars
    PROVE  Blame' /\ PausedOnlyUnanswered' /\ Orderly'
<1> USE PoolAssumption, NullCallAssumption
<1> DEFINE Paid(c, k) ==
              \A a \in Addresses : verification'[a] = "PAUSED" =>
                 /\ verification[a] = "PAUSED" \/ Writes(k, a)
                 /\ Writes(call[c], a) => Writes(k, a)
           Spent(c) ==
              LET a == call[c].address
              IN  Calm /\ Keeps(call[c], pool, socket) /\ a \in Addresses =>
                     \/ pool'[a] = pool[a]
                     \/ pool'[a] = Null /\ (pool[a] = Null \/ ~socket'[pool[a]].open)
           Fits(c, k) ==
              /\ k.op = call[c].op
              /\ k.address = call[c].address \/ call[c].op = "DISCONNECT"
              /\ Blames(k, socket')
              /\ Calm /\ Keeps(call[c], pool, socket) => Keeps(k, pool', socket')
<1> HIDE DEF Paid, Spent, Fits
\* A step that replaces the call of one caller.
<1>o. ASSUME NEW c \in Callers, call[c] # Null, NEW k \in Call \cup {Null},
             call' = [call EXCEPT ![c] = k], UNCHANGED crowded,
             k # Null => Fits(c, k),
             \A s \in Sockets : socket'[s].open => socket[s].open,
             \A a \in Addresses : a # call[c].address => pool'[a] = pool[a],
             Spent(c), Paid(c, k)
      PROVE  Blame' /\ PausedOnlyUnanswered' /\ Orderly'
  <2>1. /\ call'[c] = k /\ \A d \in Callers \ {c} : call'[d] = call[d] /\ SameCall(d)
    BY <1>o DEF PoolTypeOK, SameCall
  <2>2. Blame'
    BY <1>o, <2>1, BlameKept DEF Fits
  <2>3. PausedOnlyUnanswered'
    BY <1>o, <2>1, PausedKept DEF Paid
  <2>4. Orderly'
    BY <1>o, <2>1, OrderlyKept DEF Fits, Spent
  <2> QED
    BY <2>2, <2>3, <2>4
\* A command that settles.
<1>s. ASSUME NEW c \in Callers, call[c] # Null, NEW k, Settle(c, k), UNCHANGED <<pool, crowded>>,
             k # Null => Fits(c, k), Paid(c, k)
      PROVE  Blame' /\ PausedOnlyUnanswered' /\ Orderly'
  <2>1. /\ call'[c] = k /\ \A d \in Callers \ {c} : SameCall(d)
        /\ \A s \in Sockets : socket'[s].open = socket[s].open
    BY <1>s, SettledCalls DEF SameCall
  <2>2. Blame'
    BY <1>s, <2>1, SettledCalls, BlameKept DEF Fits
  <2>3. PausedOnlyUnanswered'
    BY <1>s, <2>1, PausedKept DEF Paid
  <2>4. Orderly'
    BY <1>s, <2>1, OrderlyKept DEF Fits
  <2> QED
    BY <2>2, <2>3, <2>4
\* A step that leaves the terminals and has no command in hand pays nothing.
<1>v. ASSUME NEW c \in Callers, NEW k, UNCHANGED verification,
             call[c] = Null \/ call[c].at \notin {"COMMAND", "RESUME"}
      PROVE  Paid(c, k)
  BY <1>v DEF Writes, Paid
<1>u. ASSUME NEW c \in Callers, UNCHANGED pool
      PROVE  Spent(c)
  BY <1>u DEF Spent
<1>2. ASSUME NEW c \in Callers, Lookup(c)
      PROVE  Blame' /\ PausedOnlyUnanswered' /\ Orderly'
  <2> DEFINE s == pool[call[c].address]
             k1 == [call[c] EXCEPT !.at = "HAVE", !.sock = s]
             k2 == [call[c] EXCEPT !.at = "OPEN"]
  <2>1. /\ call[c] \in Call /\ call[c].at = "LOOKUP" /\ call[c] # Null /\ call[c].sock = Null
        /\ call[c].address \in Addresses /\ s \in Sockets \cup {Null}
        /\ UNCHANGED <<socket, verification, crowded>>
        /\ Blames(call[c], socket)
    BY <1>2 DEF Lookup, At, PoolTypeOK, CallShape, ShapeOf, TerminalsUnchanged, Blame
  <2>2. ~call[c].robbed /\ ~call[c].failed
    BY <2>1 DEF Blames
  <2>3. CASE s # Null /\ ~IsDead(s)
    <3>1. call' = [call EXCEPT ![c] = k1] /\ UNCHANGED pool
      BY <1>2, <2>3 DEF Lookup
    <3>2. /\ k1 \in Call /\ k1.op = call[c].op /\ k1.address = call[c].address
          /\ k1.at = "HAVE" /\ k1.sock = s /\ ~k1.robbed /\ ~k1.failed
      BY <2>1, <2>2, <2>3 DEF Call
    <3> HIDE DEF k1
    <3>3. Fits(c, k1)
      BY <2>1, <2>3, <3>1, <3>2 DEF Blames, Keeps, s, Fits
    <3> QED
      BY <2>1, <3>1, <3>2, <3>3, <1>v, <1>u, <1>o
  <2>4. CASE s = Null \/ IsDead(s)
    <3>1. call' = [call EXCEPT ![c] = k2] /\ pool' = [pool EXCEPT ![call[c].address] = Null]
      BY <1>2, <2>4 DEF Lookup, Goto
    <3>2. /\ k2 \in Call /\ k2.op = call[c].op /\ k2.address = call[c].address
          /\ k2.at = "OPEN" /\ k2.sock = Null /\ ~k2.robbed /\ ~k2.failed
      BY <2>1, <2>2 DEF Call
    <3>4. /\ pool'[call[c].address] = Null
          /\ \A a \in Addresses : a # call[c].address => pool'[a] = pool[a]
      BY <2>1, <3>1 DEF PoolTypeOK
    <3> HIDE DEF k2
    <3>3. Fits(c, k2) /\ Spent(c)
      BY <2>1, <2>4, <3>2, <3>4 DEF Blames, Keeps, IsDead, Fits, Spent
    <3> QED
      BY <2>1, <3>1, <3>2, <3>3, <3>4, <1>v, <1>u, <1>o
  <2> QED
    BY <2>3, <2>4
<1>4. ASSUME NEW c \in Callers, OpenFails(c)
      PROVE  Blame' /\ PausedOnlyUnanswered' /\ Orderly'
  <2> DEFINE n == call[c].attempt + 1
             k1 == [call[c] EXCEPT !.attempt = n]
             k2 == [call[c] EXCEPT !.at = "FINALLY", !.attempt = 1]
  <2>1. /\ call[c] \in Call /\ call[c].at = "OPEN" /\ call[c] # Null /\ call[c].sock = Null
        /\ UNCHANGED <<pool, socket, verification, crowded>>
        /\ Blames(call[c], socket)
    BY <1>4 DEF OpenFails, At, PoolTypeOK, CallShape, ShapeOf, TerminalsUnchanged, Blame
  <2>2. \/ call' = [call EXCEPT ![c] = k1] /\ call[c].attempt <= ConnectRetries
        \/ call' = [call EXCEPT ![c] = k2]
        \/ call' = [call EXCEPT ![c] = Null]
    BY <1>4 DEF OpenFails
  <2>3. call[c].attempt <= ConnectRetries => n \in 1 .. ConnectRetries + 1
    BY <2>1 DEF Call
  <2> HIDE DEF n
  <2>4. /\ call[c].attempt <= ConnectRetries => k1 \in Call
        /\ k1.op = call[c].op /\ k1.address = call[c].address /\ k1.at = "OPEN"
        /\ k1.sock = Null /\ (k1.robbed <=> call[c].robbed) /\ (k1.failed <=> call[c].failed)
    BY <2>1, <2>3 DEF Call
  <2>8. 1 \in 1 .. ConnectRetries + 1
    OBVIOUS
  <2>5. /\ k2 \in Call
        /\ k2.op = call[c].op /\ k2.address = call[c].address /\ k2.at = "FINALLY"
        /\ k2.sock = Null /\ (k2.robbed <=> call[c].robbed) /\ (k2.failed <=> call[c].failed)
    BY <2>1, <2>8 DEF Call
  <2> HIDE DEF k1, k2
  <2>6. Fits(c, k1) /\ Fits(c, k2)
    BY <2>1, <2>4, <2>5 DEF Blames, Keeps, Fits
  <2>7. ASSUME NEW k \in Call \cup {Null}, call' = [call EXCEPT ![c] = k], k # Null => Fits(c, k)
        PROVE  Blame' /\ PausedOnlyUnanswered' /\ Orderly'
    BY <2>1, <2>7, <1>v, <1>u, <1>o
  <2> QED
    BY <2>2, <2>4, <2>5, <2>6, <2>7
<1>5. ASSUME NEW c \in Callers, Enqueue(c)
      PROVE  Blame' /\ PausedOnlyUnanswered' /\ Orderly'
  <2> DEFINE k == [call[c] EXCEPT !.at = "WAIT", !.after = socket[call[c].sock].tail]
  <2>1. /\ call[c] \in Call /\ call[c].at = "HAVE" /\ call[c] # Null /\ call[c].sock \in Sockets
        /\ call' = [call EXCEPT ![c] = k]
        /\ UNCHANGED <<pool, verification, crowded>>
        /\ Blames(call[c], socket)
    BY <1>5, ZenonT(40) DEF Enqueue, At, PoolTypeOK, CallShape, ShapeOf, Call, TerminalsUnchanged, Blame
  <2>2. socket[call[c].sock].tail \in Callers \cup {Null}
    BY <2>1 DEF PoolTypeOK, Socket
  <2>3. /\ k \in Call /\ k.op = call[c].op /\ k.address = call[c].address /\ k.at = "WAIT"
        /\ k.sock = call[c].sock /\ (k.robbed <=> call[c].robbed) /\ (k.failed <=> call[c].failed)
    BY <2>1, <2>2 DEF Call
  <2>4. \A s \in Sockets : socket'[s].open = socket[s].open
    BY <1>5, <2>1, ChainedSocket DEF Enqueue, PoolTypeOK
  <2> HIDE DEF k
  <2>5. Fits(c, k)
    BY <2>1, <2>3, <2>4 DEF Blames, Keeps, PoolTypeOK, Fits
  <2> QED
    BY <2>1, <2>3, <2>4, <2>5, <1>v, <1>u, <1>o
<1>6. ASSUME NEW c \in Callers, Run(c)
      PROVE  Blame' /\ PausedOnlyUnanswered' /\ Orderly'
  <2> DEFINE at == IF call[c].op = "WRITE" THEN "PAUSE" ELSE "COMMAND"
             k == [call[c] EXCEPT !.at = at]
  <2>1. /\ call[c] \in Call /\ call[c].at = "WAIT" /\ call[c] # Null
        /\ call' = [call EXCEPT ![c].at = at]
        /\ UNCHANGED <<pool, socket, verification, crowded>>
        /\ Blames(call[c], socket)
    BY <1>6 DEF Run, Goto, At, PoolTypeOK, TerminalsUnchanged, Blame
  <2>2. /\ k \in Call /\ k.op = call[c].op /\ k.address = call[c].address
        /\ k.at \in {"PAUSE", "COMMAND"}
        /\ k.sock = call[c].sock /\ (k.robbed <=> call[c].robbed) /\ (k.failed <=> call[c].failed)
        /\ call' = [call EXCEPT ![c] = k]
    BY <2>1 DEF Call
  <2> HIDE DEF k
  <2>3. Fits(c, k)
    BY <1>6, <2>1, <2>2 DEF Blames, Keeps, CallShape, ShapeOf, Run, At, Fits
  <2> QED
    BY <2>1, <2>2, <2>3, <1>v, <1>u, <1>o
<1>7. ASSUME NEW c \in Callers, PauseDevice(c)
      PROVE  Blame' /\ PausedOnlyUnanswered' /\ Orderly'
  <2> DEFINE k == [call[c] EXCEPT !.at = "COMMAND"]
  <2>1. /\ call[c] \in Call /\ call[c].at = "PAUSE" /\ call[c] # Null /\ call[c].op = "WRITE"
        /\ call' = [call EXCEPT ![c].at = "COMMAND"]
        /\ UNCHANGED <<pool, socket, crowded>>
        /\ Blames(call[c], socket) /\ call[c].sock # Null /\ call[c].address \in Addresses
    BY <1>7 DEF PauseDevice, Goto, At, PoolTypeOK, CallShape, ShapeOf, Blame
  <2>2. /\ k \in Call /\ k.op = call[c].op /\ k.address = call[c].address
        /\ k.at = "COMMAND" /\ k # Null
        /\ k.sock = call[c].sock /\ (k.robbed <=> call[c].robbed) /\ (k.failed <=> call[c].failed)
        /\ call' = [call EXCEPT ![c] = k]
    BY <2>1 DEF Call
  <2> HIDE DEF k
  <2>3. Fits(c, k)
    BY <2>1, <2>2 DEF Blames, Keeps, Fits
  <2>4. Paid(c, k)
    <3>1. \A a \in Addresses : a # call[c].address => verification'[a] = verification[a]
      BY <1>7, <2>1 DEF PauseDevice, Verify, PoolTypeOK
    <3> QED
      BY <2>1, <2>2, <3>1 DEF Writes, Paid
  <2> QED
    BY <2>1, <2>2, <2>3, <2>4, <1>u, <1>o
<1>8. ASSUME NEW c \in Callers, Command(c)
      PROVE  Blame' /\ PausedOnlyUnanswered' /\ Orderly'
  <2>1. /\ call[c] \in Call /\ call[c].at = "COMMAND" /\ call[c] # Null
        /\ UNCHANGED <<pool, crowded>> /\ Blames(call[c], socket)
        /\ call[c].sock # Null /\ call[c].address \in Addresses
    BY <1>8 DEF Command, At, PoolTypeOK, CallShape, ShapeOf, Blame
  <2>2. CASE call[c].op = "WRITE"
    <3> DEFINE k == [call[c] EXCEPT !.at = "RESUME"]
    <3>1. call' = [call EXCEPT ![c].at = "RESUME"] /\ UNCHANGED <<socket, verification>>
          /\ ~IsDead(call[c].sock)
      BY <1>8, <2>2 DEF Command, Goto
    <3>2. /\ k \in Call /\ k.op = call[c].op /\ k.address = call[c].address
          /\ k.at = "RESUME" /\ k # Null /\ (k.failed <=> call[c].failed)
          /\ k.sock = call[c].sock /\ (k.robbed <=> call[c].robbed)
          /\ call' = [call EXCEPT ![c] = k]
      BY <2>1, <3>1 DEF Call
    <3>3. ~call[c].failed
      BY <2>1 DEF Blames
    <3> HIDE DEF k
    <3>4. Fits(c, k) /\ Paid(c, k)
      BY <2>1, <2>2, <3>1, <3>2, <3>3 DEF Blames, Keeps, Writes, Fits, Paid
    <3> QED
      BY <2>1, <3>1, <3>2, <3>4, <1>u, <1>o
  <2>3. CASE call[c].op # "WRITE"
    <3> DEFINE k == AfterCommand(c, FALSE)
    <3>1. Settle(c, k)
      BY <1>8, <2>3 DEF Command
    <3>2. k # Null => /\ k.op = call[c].op /\ k.address = call[c].address
                      /\ k.at = "FINALLY" /\ k.sock = Null
      BY <2>1 DEF AfterCommand, Call
    <3>3. \A a \in Addresses : verification'[a] = "PAUSED" => verification[a] = "PAUSED"
      BY <1>8, <2>1 DEF Command, Verify, PoolTypeOK
    <3> HIDE DEF k
    <3>4. (k # Null => Fits(c, k)) /\ Paid(c, k)
      BY <2>1, <2>3, <3>2, <3>3 DEF Blames, Keeps, Writes, Fits, Paid
    <3> QED
      BY <2>1, <3>1, <3>4, <1>s
  <2> QED
    BY <2>2, <2>3
<1>9. ASSUME NEW c \in Callers, CommandFails(c)
      PROVE  Blame' /\ PausedOnlyUnanswered' /\ Orderly'
  <2> DEFINE f == call[c].fault \/ ~call[c].robbed
             hurt == [call[c] EXCEPT !.failed = TRUE, !.fault = f]
             h1 == [hurt EXCEPT !.at = "RESUME"]
             h2 == [hurt EXCEPT !.at = "CAUGHT"]
  <2>1. /\ call[c] \in Call /\ call[c].at = "COMMAND" /\ call[c] # Null
        /\ UNCHANGED <<pool, crowded, verification>> /\ Blames(call[c], socket)
        /\ call[c].sock # Null /\ call[c].address \in Addresses /\ call[c].robbed \in BOOLEAN
    BY <1>9 DEF CommandFails, At, PoolTypeOK, CallShape, ShapeOf, Blame, TerminalsUnchanged, Call
  <2>6. f \in BOOLEAN /\ (f <=> call[c].fault \/ ~call[c].robbed)
    OBVIOUS
  <2>7. CommandFails(c) =>
           \/ call[c].op = "WRITE" /\ call' = [call EXCEPT ![c] = h1] /\ UNCHANGED socket
           \/ call[c].op # "WRITE" /\ Settle(c, h2)
    BY DEF CommandFails
  <2> HIDE DEF f
  <2>8. /\ hurt \in Call /\ hurt.sock = call[c].sock /\ hurt.op = call[c].op
        /\ hurt.address = call[c].address /\ (hurt.robbed <=> call[c].robbed) /\ hurt.failed
        /\ (hurt.fault <=> f)
    BY <2>1, <2>6 DEF Call
  <2> HIDE DEF hurt
  <2>2. /\ h1 \in Call /\ h1 # Null /\ h1.at = "RESUME" /\ h1.sock = call[c].sock
        /\ h1.op = call[c].op /\ h1.address = call[c].address
        /\ (h1.robbed <=> call[c].robbed) /\ (h1.fault \/ h1.robbed)
    BY <2>1, <2>6, <2>8 DEF Call
  <2>3. /\ h2 \in Call /\ h2 # Null /\ h2.at = "CAUGHT" /\ h2.sock = call[c].sock
        /\ h2.op = call[c].op /\ h2.address = call[c].address
        /\ (h2.robbed <=> call[c].robbed) /\ (h2.fault \/ h2.robbed)
    BY <2>1, <2>6, <2>8 DEF Call
  <2>4. CASE call[c].op = "WRITE"
    <3>1. call' = [call EXCEPT ![c] = h1] /\ UNCHANGED socket
      BY <1>9, <2>4, <2>7
    <3> HIDE DEF h1, h2
    <3>2. Fits(c, h1) /\ Paid(c, h1)
      BY <2>1, <2>2, <2>4, <3>1 DEF Blames, Keeps, Writes, Fits, Paid
    <3> QED
      BY <2>1, <2>2, <3>1, <3>2, <1>u, <1>o
  <2>5. CASE call[c].op # "WRITE"
    <3>1. Settle(c, h2)
      BY <1>9, <2>5, <2>7
    <3>2. \A s \in Sockets : socket'[s].open = socket[s].open
      BY <3>1, SettledCalls
    <3>3. call[c].sock \in Sockets
      BY <2>1 DEF Call
    <3> HIDE DEF h1, h2
    <3>4. Fits(c, h2) /\ Paid(c, h2)
      BY <2>1, <2>3, <2>5, <3>2, <3>3 DEF Blames, Keeps, Writes, Fits, Paid
    <3> QED
      BY <2>1, <2>3, <3>1, <3>4, <1>s
  <2> QED
    BY <2>4, <2>5
<1>10. ASSUME NEW c \in Callers, ResumeDevice(c)
       PROVE  Blame' /\ PausedOnlyUnanswered' /\ Orderly'
  <2> DEFINE k == AfterCommand(c, call[c].failed)
  <2>1. /\ call[c] \in Call /\ call[c].at = "RESUME" /\ call[c] # Null
        /\ UNCHANGED <<pool, crowded>> /\ Blames(call[c], socket)
        /\ call[c].sock \in Sockets /\ call[c].sock # Null /\ call[c].address \in Addresses
        /\ Settle(c, k) /\ call[c].op = "WRITE"
    BY <1>10 DEF ResumeDevice, At, PoolTypeOK, CallShape, ShapeOf, Blame, Call
  <2>2. k = Null \/ (call[c].failed /\ k = [call[c] EXCEPT !.at = "CAUGHT"])
    BY <2>1 DEF AfterCommand
  <2>3. \A s \in Sockets : socket'[s].open = socket[s].open
    BY <2>1, SettledCalls
  <2>4. k # Null => /\ k.op = call[c].op /\ k.address = call[c].address
                    /\ k.at = "CAUGHT" /\ k.sock = call[c].sock /\ call[c].failed
                    /\ (k.robbed <=> call[c].robbed) /\ (k.fault <=> call[c].fault)
    BY <2>1, <2>2 DEF Call
  <2>5. /\ verification'[call[c].address] # "PAUSED"
        /\ \A a \in Addresses : a # call[c].address => verification'[a] = verification[a]
    BY <1>10, <2>1 DEF ResumeDevice, Verify, Unanswered, PoolTypeOK
  <2> HIDE DEF k
  <2>6. k # Null => Fits(c, k)
    BY <2>1, <2>3, <2>4 DEF Blames, Keeps, Fits
  <2>7. Paid(c, k)
    BY <2>5 DEF Writes, Paid
  <2> QED
    BY <2>1, <2>6, <2>7, <1>s
<1>11. ASSUME NEW c \in Callers, Retry(c)
       PROVE  Blame' /\ PausedOnlyUnanswered' /\ Orderly'
  <2> DEFINE k == [call[c] EXCEPT !.at = "LOOKUP", !.again = TRUE, !.failed = FALSE,
                                  !.robbed = FALSE, !.sock = Null]
  <2>1. /\ call[c] \in Call /\ call[c].at = "CAUGHT" /\ call[c] # Null
        /\ UNCHANGED <<socket, crowded, verification>>
        /\ IsDead(call[c].sock) /\ pool' = [pool EXCEPT ![call[c].address] = Null]
    BY <1>11 DEF Retry, At, PoolTypeOK, TerminalsUnchanged, LooksDisconnected
  <2>6. call[c].sock \in Sockets /\ call[c].sock # Null /\ call[c].address \in Addresses
    BY <2>1 DEF CallShape, ShapeOf, Call
  <2>2. call' = [call EXCEPT ![c] = k]
    BY <1>11, <2>1 DEF Retry, Call
  <2>3. /\ k \in Call /\ k.op = call[c].op /\ k.address = call[c].address
        /\ k.at = "LOOKUP" /\ k.sock = Null /\ ~k.robbed /\ ~k.failed
    BY <2>1 DEF Call
  <2>4. /\ pool'[call[c].address] = Null
        /\ \A a \in Addresses : a # call[c].address => pool'[a] = pool[a]
    BY <2>1 DEF PoolTypeOK
  <2> HIDE DEF k
  <2>5. Fits(c, k) /\ Spent(c)
    BY <2>1, <2>3, <2>4, <2>6 DEF Blames, Keeps, IsDead, Fits, Spent
  <2> QED
    BY <2>1, <2>2, <2>3, <2>4, <2>5, <2>6, <1>v, <1>u, <1>o
<1>12. ASSUME NEW c \in Callers, GiveUp(c)
       PROVE  Blame' /\ PausedOnlyUnanswered' /\ Orderly'
  <2> DEFINE m == [call[c] EXCEPT !.at = "FINALLY", !.sock = Null]
             k == IF call[c].op # "RESTART" THEN Null ELSE m
  <2>1. /\ call[c] \in Call /\ call[c].at = "CAUGHT" /\ call[c] # Null
        /\ UNCHANGED <<pool, socket, crowded, verification>>
        /\ call' = [call EXCEPT ![c] = k]
    BY <1>12 DEF GiveUp, At, PoolTypeOK, TerminalsUnchanged
  <2>2. /\ m \in Call /\ m.op = call[c].op /\ m.address = call[c].address
        /\ m.at = "FINALLY" /\ m.sock = Null
    BY <2>1 DEF Call
  <2> HIDE DEF m
  <2>3. k \in Call \cup {Null} /\ (k # Null => Fits(c, k))
    BY <2>2 DEF Blames, Keeps, Fits
  <2> HIDE DEF k
  <2> QED
    BY <2>1, <2>3, <1>v, <1>u, <1>o
<1>15. ASSUME NEW c \in Callers, Unpool(c)
       PROVE  Blame' /\ PausedOnlyUnanswered' /\ Orderly'
  <2> DEFINE k1 == [call[c] EXCEPT !.at = "OPEN"]
             k2 == [call[c] EXCEPT !.at = "CLOSE", !.address = Null]
             k == IF call[c].op = "CONNECT" THEN k1 ELSE k2
  <2>1. /\ call[c] \in Call /\ call[c].at = "UNPOOL" /\ call[c] # Null
        /\ UNCHANGED <<socket, crowded, verification>> /\ Blames(call[c], socket)
        /\ call[c].sock = Null /\ call[c].address \in Addresses
        /\ call[c].op \in {"CONNECT", "DISCONNECT"}
        /\ pool' = [pool EXCEPT ![call[c].address] = Null]
        /\ call' = [call EXCEPT ![c] = k]
    BY <1>15 DEF Unpool, At, PoolTypeOK, CallShape, ShapeOf, TerminalsUnchanged, Blame
  <2>2. /\ k1 \in Call /\ k1.op = call[c].op /\ k1.address = call[c].address
        /\ k1.at = "OPEN" /\ k1.sock = Null /\ (k1.robbed <=> call[c].robbed) /\ (k1.failed <=> call[c].failed)
    BY <2>1 DEF Call
  <2>3. /\ k2 \in Call /\ k2.op = call[c].op /\ k2.address = Null
        /\ k2.at = "CLOSE" /\ k2.sock = Null /\ (k2.robbed <=> call[c].robbed) /\ (k2.failed <=> call[c].failed)
    BY <2>1 DEF Call
  <2>4. /\ pool'[call[c].address] = Null
        /\ \A a \in Addresses : a # call[c].address => pool'[a] = pool[a]
    BY <2>1 DEF PoolTypeOK
  <2> HIDE DEF k1, k2
  <2>5. k \in Call /\ Fits(c, k) /\ Spent(c)
    <3>1. CASE call[c].op = "CONNECT"
      BY <2>1, <2>2, <2>4, <3>1 DEF Blames, Keeps, Fits, Spent
    <3>2. CASE call[c].op = "DISCONNECT"
      BY <2>1, <2>3, <2>4, <3>2 DEF Blames, Keeps, Fits, Spent
    <3> QED
      BY <2>1, <3>1, <3>2
  <2> HIDE DEF k
  <2> QED
    BY <2>1, <2>4, <2>5, <1>v, <1>u, <1>o
<1>16. ASSUME NEW c \in Callers, NothingToClose(c)
       PROVE  Blame' /\ PausedOnlyUnanswered' /\ Orderly'
  <2> DEFINE m == [call[c] EXCEPT !.at = "OPEN"]
  <2>1. /\ call[c] \in Call /\ call[c].at = "CLOSE" /\ call[c] # Null
        /\ UNCHANGED <<pool, socket, crowded, verification>> /\ Blames(call[c], socket)
        /\ call[c].sock = Null
    BY <1>16 DEF NothingToClose, At, PoolTypeOK, CallShape, ShapeOf, TerminalsUnchanged, Blame
  <2>2. CASE call[c].op = "CONNECT"
    <3>1. call' = [call EXCEPT ![c] = m] /\ pool[call[c].address] = Null
      BY <1>16, <2>1, <2>2 DEF NothingToClose, Goto
    <3>2. /\ m \in Call /\ m.op = call[c].op /\ m.address = call[c].address
          /\ m.at = "OPEN" /\ m.sock = Null /\ (m.robbed <=> call[c].robbed) /\ (m.failed <=> call[c].failed)
      BY <2>1 DEF Call
    <3> HIDE DEF m
    <3>3. Fits(c, m)
      BY <2>1, <3>1, <3>2 DEF Blames, Keeps, Fits
    <3> QED
      BY <2>1, <3>1, <3>2, <3>3, <1>v, <1>u, <1>o
  <2>3. CASE call[c].op # "CONNECT"
    <3>1. call' = [call EXCEPT ![c] = Null]
      BY <1>16, <2>3 DEF NothingToClose, Return
    <3> QED
      BY <2>1, <3>1, <1>v, <1>u, <1>o
  <2> QED
    BY <2>2, <2>3
\* A step that closes a connection under other calls.
<1>r. ASSUME NEW s \in Sockets, Close(s), NEW calls \in [Callers -> Call \cup {Null}],
             NEW d \in Callers, calls[d] = call[d], call'[d] = Rob(s, calls)[d]
      PROVE  SameCall(d) /\ (call'[d] # Null => Blames(call'[d], socket'))
  <2>1. CASE call'[d] = Null
    <3>2. Rob(s, calls)[d] = Null
      BY <1>r, <2>1
    <3>3. calls[d] = Null
      BY <3>2, RobbedCalls
    <3>1. call[d] = Null
      BY <1>r, <3>3
    <3> QED
      BY <2>1, <3>1 DEF SameCall
  <2>2. CASE call'[d] # Null
    BY <1>r, <2>2, BlameRobbed
  <2> QED
    BY <2>1, <2>2
<1>c. ASSUME NEW s \in Sockets, Close(s)
      PROVE  /\ ~socket'[s].open
             /\ \A t \in Sockets : socket'[t].open => socket[t].open
  BY <1>c, ClosedSocket DEF PoolTypeOK
<1>13. ASSUME NEW c \in Callers, RestartFinally(c)
       PROVE  Blame' /\ PausedOnlyUnanswered' /\ Orderly'
  <2> DEFINE calls == [call EXCEPT ![c] = Null]
             s == pool[call[c].address]
  <2>1. /\ call[c] # Null /\ call[c].at = "FINALLY" /\ call[c].address \in Addresses
        /\ UNCHANGED <<verification, crowded>>
        /\ pool' = [pool EXCEPT ![call[c].address] = Null]
    BY <1>13 DEF RestartFinally, At, CallShape, ShapeOf, TerminalsUnchanged
  <2>2. /\ calls \in [Callers -> Call \cup {Null}] /\ s \in Sockets \cup {Null}
        /\ calls[c] = Null /\ \A d \in Callers \ {c} : calls[d] = call[d]
    BY <2>1 DEF PoolTypeOK
  <2>3. \/ s = Null /\ call' = calls /\ UNCHANGED socket
        \/ s # Null /\ Close(s) /\ call' = Rob(s, calls)
    BY <1>13 DEF RestartFinally
  <2>4. /\ pool'[call[c].address] = Null
        /\ \A a \in Addresses : a # call[c].address => pool'[a] = pool[a]
    BY <2>1 DEF PoolTypeOK
  <2> HIDE DEF calls
  <2>5. CASE s = Null
    <3>1. Spent(c)
      BY <2>4, <2>5 DEF Spent
    <3>2. call' = [call EXCEPT ![c] = Null] /\ UNCHANGED socket
      BY <2>3, <2>5 DEF calls
    <3> QED
      BY <2>1, <2>4, <3>1, <3>2, <1>v, <1>o
  <2>6. CASE s # Null
    <3> HIDE DEF s
    <3>1. Close(s) /\ call' = Rob(s, calls) /\ s \in Sockets
      BY <2>2, <2>3, <2>6
    <3>2. \A d \in Callers \ {c} :
             SameCall(d) /\ (call'[d] # Null => Blames(call'[d], socket'))
      BY <2>2, <3>1, <1>r
    <3>3. call'[c] = Null
      BY <2>2, <3>1, RobbedCalls
    <3>4. Blame'
      BY <3>2, <3>3 DEF Blame
    <3>5. PausedOnlyUnanswered'
      BY <2>1, <3>2, <1>v, PausedKept DEF Paid
    <3>6. ~socket'[s].open /\ \A t \in Sockets : socket'[t].open => socket[t].open
      BY <3>1, <1>c
    <3>7. LET a == call[c].address
          IN  Calm /\ Keeps(call[c], pool, socket) /\ a \in Addresses =>
                 \/ pool'[a] = pool[a]
                 \/ pool'[a] = Null /\ (pool[a] = Null \/ ~socket'[pool[a]].open)
      BY <2>4, <3>6 DEF s
    <3>8. Orderly'
      BY <2>1, <2>4, <3>2, <3>3, <3>6, <3>7, OrderlyKept
    <3> QED
      BY <3>4, <3>5, <3>8
  <2> QED
    BY <2>5, <2>6
<1>14. ASSUME NEW c \in Callers, NEW a \in Addresses, CloseOld(c, a)
       PROVE  Blame' /\ PausedOnlyUnanswered' /\ Orderly'
  <2> DEFINE calls == Rob(pool[a], call)
  <2>1. /\ call[c] # Null /\ call[c] \in Call /\ call[c].at = "CLOSE" /\ call[c].sock = Null
        /\ pool[a] \in Sockets /\ Close(pool[a])
        /\ a = call[c].address \/ call[c].op = "DISCONNECT"
        /\ call' = [calls EXCEPT ![c].at = "UNPOOL", ![c].address = a]
        /\ call \in [Callers -> Call \cup {Null}] /\ Blames(call[c], socket)
        /\ UNCHANGED <<pool, verification, crowded>>
    BY <1>14 DEF CloseOld, At, PoolTypeOK, CallShape, ShapeOf, TerminalsUnchanged, Blame
  <2>2. calls = [d \in Callers |-> calls[d]]
    BY DEF Rob
  <2>3. calls[c] \in Call
    BY <2>1, RobbedCalls
  <2>4. pool[a] # Null
    BY <1>14 DEF CloseOld
  <2>5. /\ calls[c].op = call[c].op /\ calls[c].sock = Null /\ ~calls[c].robbed
        /\ ~calls[c].failed
    <3>1. call[c].robbed \in BOOLEAN /\ ~call[c].robbed /\ ~call[c].failed
      BY <2>1 DEF Blames, Call
    <3> QED
      BY <2>1, <2>4, <3>1, RobbedCalls
  <2>6. ASSUME NEW d \in Callers \ {c}
        PROVE  SameCall(d) /\ (call'[d] # Null => Blames(call'[d], socket'))
    <3>1. call'[d] = Rob(pool[a], call)[d]
      BY <2>1, <2>2
    <3> QED
      BY <2>1, <3>1, <1>r
  <2> HIDE DEF calls
  <2>7. /\ call'[c].at = "UNPOOL" /\ call'[c].address = a /\ call'[c].op = call[c].op
        /\ call'[c].sock = Null /\ ~call'[c].robbed /\ ~call'[c].failed
    BY <2>1, <2>2, <2>3, <2>5 DEF Call
  <2>8. ~socket'[pool[a]].open /\ \A t \in Sockets : socket'[t].open => socket[t].open
    BY <2>1, <1>c
  <2>9. Blame'
    <3>1. Blames(call'[c], socket')
      BY <2>7 DEF Blames
    <3> QED
      BY <2>6, <3>1 DEF Blame
  <2>10. PausedOnlyUnanswered'
    BY <2>1, <2>6, <1>v, PausedKept DEF Paid
  <2>11. Orderly'
    <3>1. Keeps(call'[c], pool', socket')
      BY <2>1, <2>7, <2>8 DEF Keeps
    <3>2. \A b \in Addresses : pool'[b] = pool[b]
      BY <2>1
    <3>3. call'[c].op = call[c].op
          /\ (call'[c].address = call[c].address \/ call[c].op = "DISCONNECT")
      BY <2>1, <2>7
    <3> QED
      BY <2>1, <2>6, <2>8, <3>1, <3>2, <3>3, OrderlyKept
  <2> QED
    BY <2>9, <2>10, <2>11
<1>17. ASSUME NEW s \in Sockets, Drop(s)
       PROVE  Blame' /\ PausedOnlyUnanswered' /\ Orderly'
  <2>1. /\ UNCHANGED <<pool, call, verification, crowded>>
        /\ \A t \in Sockets : socket'[t].open => socket[t].open
    BY <1>17, <1>c DEF Drop, TerminalsUnchanged
  <2>2. \A d \in Callers : call[d] # Null =>
           call[d].sock \in Sockets \cup {Null} /\ Blames(call[d], socket)
    BY DEF PoolTypeOK, Call, Blame
  <2>3. Blame'
    BY <2>1, <2>2 DEF Blame, Blames
  <2>4. PausedOnlyUnanswered'
    BY <2>1 DEF PausedOnlyUnanswered
  <2>5. \A d \in Callers : SameCall(d)
    BY <2>1 DEF SameCall
  <2>6. Orderly'
    BY <2>1, <2>5, OrderlyUntouched
  <2> QED
    BY <2>3, <2>4, <2>6
<1>18. ASSUME NEW a \in Addresses, SweepIdle(a)
       PROVE  Blame' /\ PausedOnlyUnanswered' /\ Orderly'
  <2>1. /\ pool[a] \in Sockets /\ Close(pool[a]) /\ call' = Rob(pool[a], call)
        /\ call \in [Callers -> Call \cup {Null}] /\ UNCHANGED <<verification, crowded>>
        /\ pool'[a] = Null /\ \A b \in Addresses : b # a => pool'[b] = pool[b]
    BY <1>18 DEF SweepIdle, PoolTypeOK, TerminalsUnchanged
  <2>2. \A d \in Callers : SameCall(d) /\ (call'[d] # Null => Blames(call'[d], socket'))
    BY <2>1, <1>r
  <2>3. ~socket'[pool[a]].open /\ \A t \in Sockets : socket'[t].open => socket[t].open
    BY <2>1, <1>c
  <2>4. Blame'
    BY <2>2 DEF Blame
  <2>5. PausedOnlyUnanswered'
    <3>1. \A d \in Callers, b \in Addresses : Writes(call[d], b) => Writes(call'[d], b)
      BY <2>2 DEF SameCall, Writes
    <3>2. \A b \in Addresses : verification'[b] = "PAUSED" =>
             \E d \in Callers : Writes(call'[d], b)
      BY <2>1, <3>1 DEF PausedOnlyUnanswered, Writes
    <3> QED
      BY <3>2 DEF PausedOnlyUnanswered, Writes
  <2>6. Orderly'
    BY <2>1, <2>2, <2>3, OrderlyUntouched
  <2> QED
    BY <2>4, <2>5, <2>6
<1>1. ASSUME NEW c \in Callers, NEW op \in PoolOps[c], NEW a \in Addresses, Begin(c, op, a)
      PROVE  Blame' /\ PausedOnlyUnanswered' /\ Orderly'
  <2> DEFINE b == IF op = "DISCONNECT" THEN Null ELSE a
             at == IF op \in {"CONNECT", "DISCONNECT"} THEN "CLOSE" ELSE "LOOKUP"
             k == NewCall(op, b, at)
  <2>1. /\ call[c] = Null /\ call' = [call EXCEPT ![c] = k]
        /\ UNCHANGED <<pool, socket, verification>>
        /\ crowded' = [e \in Addresses |->
              crowded[e] \/ ((e = a \/ op = "DISCONNECT") /\ Running(e) # {})]
    BY <1>1 DEF Begin
  <2>2. /\ k.op = op /\ k.address = b /\ k.sock = Null /\ k.at \in {"LOOKUP", "CLOSE"}
        /\ ~k.robbed /\ ~k.failed
    BY DEF NewCall
  <2> HIDE DEF k
  <2>3. call'[c] = k /\ \A d \in Callers \ {c} : call'[d] = call[d] /\ SameCall(d)
    BY <2>1 DEF PoolTypeOK, SameCall
  <2>4. Blame'
    BY <2>1, <2>2, <2>3 DEF Blame, Blames
  <2>5. PausedOnlyUnanswered'
    BY <2>1, <2>3, <1>v, PausedKept DEF Paid
  <2>6. Orderly'
    <3> SUFFICES ASSUME Calm'
                 PROVE  /\ OneEach'
                        /\ \A d \in Callers : call'[d] # Null => Keeps(call'[d], pool', socket')
                        /\ \A s \in Sockets : socket'[s].open => Pooled(s)' \/ Held(s)'
      BY DEF Orderly
    <3>1. /\ Calm
          /\ \A e \in Addresses : e = a \/ op = "DISCONNECT" => Running(e) = {}
      BY <2>1 DEF Calm, PoolTypeOK
    <3>2. /\ OneEach
          /\ \A d \in Callers : call[d] # Null => Keeps(call[d], pool, socket)
          /\ \A s \in Sockets : socket[s].open => Pooled(s) \/ Held(s)
      BY <3>1 DEF Orderly
    <3>3. ASSUME NEW d \in Callers, call[d] # Null
          PROVE  /\ call[d].op # "DISCONNECT" /\ op # "DISCONNECT" /\ call[d].address # a
      <4>1. call[d].op # "DISCONNECT" /\ call[d].address # a
        BY <3>1, <3>3 DEF Running
      <4>2. call[d].address \in Addresses
        BY <3>3, <4>1 DEF CallShape, ShapeOf
      <4>3. op # "DISCONNECT"
        BY <3>1, <3>3, <4>2 DEF Running
      <4> QED
        BY <4>1, <4>3
    <3>4. OneEach'
      <4>1. ASSUME NEW d \in Callers, NEW e \in Callers, d # e, call'[d] # Null, call'[e] # Null
            PROVE  call'[d].op # "DISCONNECT" /\ call'[d].address # call'[e].address
        <5>1. CASE d # c /\ e # c
          BY <2>3, <3>2, <4>1, <5>1 DEF OneEach
        <5>2. CASE d = c
          BY <2>2, <2>3, <3>3, <4>1, <5>2
        <5>3. CASE e = c
          BY <2>2, <2>3, <3>3, <4>1, <5>3
        <5> QED
          BY <5>1, <5>2, <5>3
      <4> QED
        BY <4>1 DEF OneEach
    <3>5. ASSUME NEW d \in Callers, call'[d] # Null
          PROVE  Keeps(call'[d], pool', socket')
      BY <2>1, <2>2, <2>3, <3>2, <3>5 DEF Keeps
    <3>6. ASSUME NEW s \in Sockets, socket'[s].open
          PROVE  Pooled(s)' \/ Held(s)'
      BY <2>1, <2>3, <3>2, <3>6 DEF Pooled, Held
    <3> QED
      BY <3>4, <3>5, <3>6
  <2> QED
    BY <2>4, <2>5, <2>6
<1>3. ASSUME NEW c \in Callers, NEW s \in Sockets, OpenConnection(c, s)
      PROVE  Blame' /\ PausedOnlyUnanswered' /\ Orderly'
  <2> DEFINE m == [call[c] EXCEPT !.at = "HAVE", !.sock = s, !.attempt = 1]
             k == IF call[c].op = "CONNECT" THEN Null ELSE m
             a == call[c].address
  <2>1. /\ call[c] # Null /\ call[c] \in Call /\ call[c].at = "OPEN" /\ call[c].sock = Null
        /\ a \in Addresses /\ Blames(call[c], socket) /\ Free(s)
        /\ call' = [call EXCEPT ![c] = k] /\ pool' = [pool EXCEPT ![a] = s]
        /\ socket' = [socket EXCEPT ![s].open = TRUE]
        /\ UNCHANGED <<verification, crowded>> /\ call[c].op # "DISCONNECT"
    BY <1>3 DEF OpenConnection, At, PoolTypeOK, CallShape, ShapeOf, TerminalsUnchanged, Blame
  <2>2. /\ m.op = call[c].op /\ m.address = a /\ m.at = "HAVE" /\ m.sock = s
        /\ (m.robbed <=> call[c].robbed) /\ (m.failed <=> call[c].failed)
    BY <2>1 DEF Call
  <2> HIDE DEF m
  <2>3. k # Null => /\ k.op = call[c].op /\ k.address = a /\ k.at = "HAVE" /\ k.sock = s
                    /\ ~k.robbed /\ ~k.failed
    BY <2>1, <2>2 DEF Blames
  <2> HIDE DEF k
  <2>4. call'[c] = k /\ \A d \in Callers \ {c} : call'[d] = call[d] /\ SameCall(d)
    BY <2>1 DEF PoolTypeOK, SameCall
  <2>5. /\ pool'[a] = s /\ \A b \in Addresses : b # a => pool'[b] = pool[b]
        /\ \A t \in Sockets : t # s => socket'[t] = socket[t]
        /\ s # Null /\ ~socket[s].open
    BY <2>1 DEF PoolTypeOK, Free, Sockets
  <2>6. \A d \in Callers : call[d] # Null => call[d].sock # s
    BY <2>1 DEF Free, Held
  <2>7. \A b \in Addresses : pool[b] # s
    BY <2>1 DEF Free, Pooled
  <2>8. ASSUME NEW d \in Callers, call'[d] # Null
        PROVE  Blames(call'[d], socket')
    <3>1. CASE d = c
      BY <2>3, <2>4, <2>8, <3>1 DEF Blames
    <3>2. CASE d # c
      <4>1. call'[d] = call[d] /\ call[d].sock \in Sockets \cup {Null} /\ Blames(call[d], socket)
        BY <2>4, <2>8, <3>2 DEF PoolTypeOK, Call, Blame
      <4> QED
        BY <2>5, <2>6, <2>8, <4>1 DEF Blames
    <3> QED
      BY <3>1, <3>2
  <2>9. PausedOnlyUnanswered'
    BY <2>1, <2>4, <1>v, PausedKept DEF Paid
  <2>10. Orderly'
    <3> SUFFICES ASSUME Calm'
                 PROVE  /\ OneEach'
                        /\ \A d \in Callers : call'[d] # Null => Keeps(call'[d], pool', socket')
                        /\ \A t \in Sockets : socket'[t].open => Pooled(t)' \/ Held(t)'
      BY DEF Orderly
    <3>1. /\ OneEach
          /\ \A d \in Callers : call[d] # Null => Keeps(call[d], pool, socket)
          /\ \A t \in Sockets : socket[t].open => Pooled(t) \/ Held(t)
      BY <2>1 DEF Orderly, Calm
    <3>2. pool[a] = Null
      BY <2>1, <3>1 DEF Keeps
    <3>3. ASSUME NEW d \in Callers, call'[d] # Null
          PROVE  /\ call[d] # Null /\ call'[d].op = call[d].op
                 /\ call'[d].address = call[d].address
      BY <2>1, <2>3, <2>4, <3>3
    <3>4. OneEach'
      BY <3>1, <3>3 DEF OneEach
    <3>5. ASSUME NEW d \in Callers, call'[d] # Null
          PROVE  Keeps(call'[d], pool', socket')
      <4>1. CASE d = c
        BY <2>3, <2>4, <2>5, <3>5, <4>1 DEF Keeps
      <4>2. CASE d # c
        <5>1. /\ call'[d] = call[d] /\ call[d] # Null /\ call[d].op # "DISCONNECT"
              /\ call[d].address # a /\ Keeps(call[d], pool, socket)
          BY <2>1, <2>4, <3>1, <3>5, <4>2 DEF OneEach
        <5>2. /\ call[d].address \in Addresses /\ call[d].sock \in Sockets \cup {Null}
              /\ pool'[call[d].address] = pool[call[d].address]
              /\ pool[call[d].address] \in Sockets \cup {Null}
          BY <2>5, <5>1 DEF CallShape, ShapeOf, PoolTypeOK, Call
        <5> QED
          BY <2>5, <2>6, <2>7, <5>1, <5>2 DEF Keeps
      <4> QED
        BY <4>1, <4>2
    <3>6. ASSUME NEW t \in Sockets, socket'[t].open
          PROVE  Pooled(t)' \/ Held(t)'
      <4>1. CASE t = s
        BY <2>1, <2>5, <4>1 DEF Pooled
      <4>2. CASE t # s
        <5>1. socket[t].open /\ t # Null
          BY <2>5, <3>6, <4>2 DEF Sockets
        <5>2. ASSUME NEW b \in Addresses, pool[b] = t
              PROVE  Pooled(t)'
          BY <2>5, <3>2, <5>1, <5>2 DEF Pooled
        <5>3. ASSUME NEW d \in Callers, call[d] # Null, call[d].sock = t
              PROVE  Held(t)'
          BY <2>1, <2>4, <5>1, <5>3 DEF Held
        <5> QED
          BY <3>1, <5>1, <5>2, <5>3 DEF Pooled, Held
      <4> QED
        BY <4>1, <4>2
    <3> QED
      BY <3>4, <3>5, <3>6
  <2> QED
    BY <2>8, <2>9, <2>10 DEF Blame
<1>19. CASE Shutdown
  <2>1. /\ \A c \in Callers : call'[c] = Null
        /\ \A s \in Sockets : ~socket'[s].open
        /\ \A a \in Addresses : verification'[a] # "PAUSED"
    BY <1>19 DEF Shutdown
  <2> QED
    BY <2>1 DEF Blame, PausedOnlyUnanswered, Orderly, OneEach
<1>20. CASE UNCHANGED poolVars
  <2>1. UNCHANGED <<pool, socket, call, verification, crowded>>
    BY <1>20 DEF poolVars
  <2> QED
    BY <2>1 DEF Blame, PausedOnlyUnanswered, Orderly, OneEach, Calm, Pooled, Held
<1> QED
  BY <1>1, <1>2, <1>3, <1>4, <1>5, <1>6, <1>7, <1>8, <1>9, <1>10, <1>11, <1>12, <1>13, <1>14,
     <1>15, <1>16, <1>17, <1>18, <1>19, <1>20 DEF PoolNext, CallStep

-----------------------------------------------------------------------------
PoolInv ==
    /\ PoolTypeOK /\ CallShape /\ Queued
    /\ Blame /\ PausedOnlyUnanswered /\ Orderly

LEMMA PoolInitInv == PoolInit => PoolInv
BY PoolInitTyped, QueuedInit, HealthyInit DEF PoolInv

LEMMA PoolStepInv == PoolInv /\ [PoolNext]_poolVars => PoolInv'
<1> SUFFICES ASSUME PoolInv, [PoolNext]_poolVars PROVE PoolInv'
  OBVIOUS
<1>1. PoolTypeOK' /\ CallShape'
  BY PoolNextTyped DEF PoolInv
<1>2. Queued'
  BY <1>1, QueuedNext DEF PoolInv
<1>3. Blame' /\ PausedOnlyUnanswered' /\ Orderly'
  BY <1>1, HealthyNext DEF PoolInv
<1> QED
  BY <1>1, <1>2, <1>3 DEF PoolInv

LEMMA PoolInvariant == PoolSpec => []PoolInv
BY PoolInitInv, PoolStepInv, PTL DEF PoolSpec

\* ZktecoRealClient's maps and locals are of their types; among others, a call tries
\* to connect no more often than connectRetries says.
THEOREM PoolTypeCorrect == PoolSpec => []PoolTypeOK
<1>1. PoolInv => PoolTypeOK
  BY DEF PoolInv
<1> QED
  BY <1>1, PoolInvariant, PTL

\* ConnectionEntry.queue: the promises chained on a socket are a line with one command
\* at its head, so no two commands are ever under way on one socket.
THEOREM SocketsServeOne == PoolSpec => []OneCommandAtATime
<1>1. PoolInv => OneCommandAtATime
  BY QueuedMeansOne DEF PoolInv
<1> QED
  BY <1>1, PoolInvariant, PTL

\* setUser, deleteUser, clearTemplates: a terminal is paused only under a command that
\* has its enableDevice still to come.
THEOREM TerminalsResume == PoolSpec => []PausedOnlyUnanswered
<1>1. PoolInv => PausedOnlyUnanswered
  BY DEF PoolInv
<1> QED
  BY <1>1, PoolInvariant, PTL

\* connect, restart, sweep and retry: one call at a time for each terminal leaves no
\* open socket behind that nothing refers to.
THEOREM SocketsStayReferenced == PoolSpec => []NothingLeaked
<1>1. PoolInv => NothingLeaked
  BY DEF PoolInv, Orderly, NothingLeaked, Calm
<1> QED
  BY <1>1, PoolInvariant, PTL

\* withConnection: the first connection that is closed under a command costs the caller
\* nothing: GiveUp needs a terminal to blame, or a second time.
THEOREM ClosesAreAbsorbed == PoolSpec => OneCloseAbsorbed
<1>1. PoolInv => [\A c \in Callers : GiveUp(c) => call[c].fault \/ call[c].again]_poolVars
  <2> SUFFICES ASSUME PoolInv, NEW c \in Callers, GiveUp(c)
               PROVE  call[c].fault \/ call[c].again
    OBVIOUS
  <2>1. /\ call[c] # Null /\ call[c].at = "CAUGHT" /\ (call[c].again \/ ~IsDead(call[c].sock))
    BY DEF GiveUp, At, LooksDisconnected
  <2>2. call[c].sock # Null /\ Blames(call[c], socket)
    BY <2>1 DEF PoolInv, CallShape, ShapeOf, Blame
  <2> QED
    BY <2>1, <2>2 DEF Blames, IsDead
<1> QED
  BY <1>1, PoolInvariant, PTL DEF OneCloseAbsorbed

-----------------------------------------------------------------------------
(* Who is signed in.  A page has a token only with its record, shows an area only  *)
(* with a token, signs in only from the login page without one, and sends its      *)
(* other calls from an area.                                                       *)
FitsPage(g) ==
    /\ g.token # Null => g.user # Null
    /\ g.hydrated /\ g.path # "LOGIN" => g.token # Null
    /\ g.call # Null /\ g.call.kind = "SIGNIN" =>
          /\ g.path = "LOGIN" /\ g.hydrated /\ g.token = Null
          /\ g.call.as # Null /\ g.call.to \notin {"LOGIN", "ROOT", Null}
    /\ g.call # Null /\ g.call.kind # "SIGNIN" =>
          g.path \notin {"LOGIN", "ROOT"} /\ g.hydrated /\ g.token # Null

PagesFit == \A p \in Pages : page[p] # Null => FitsPage(page[p])

(* As long as logins do not share the browser, every page shows the login whose    *)
(* record is kept or none, and the tabs it holds, and the layout, are that login's.*)
TabsOf(user) == IF user = Null THEN {} ELSE {user.of}

KinPage(g, k) ==
    /\ g.user # Null => /\ k.user # Null /\ k.user.of = g.user.of
                        /\ g.token = g.user.of
    /\ g.bench # Null => g.bench \subseteq TabsOf(g.user)

KinKept(k, tabs) ==
    /\ k.user # Null => k.token = k.user.of
    /\ tabs # Null => tabs \subseteq TabsOf(k.user)

OneLogin ==
    ~shared => /\ KinKept(kept, layout)
               /\ \A p \in Pages : page[p] # Null => KinPage(page[p], kept)

SessionInv == SessionTypeOK /\ PagesFit /\ OneLogin

LEMMA SessionInitInv == SessionInit => SessionInv
<1> SUFFICES ASSUME SessionInit PROVE SessionInv
  OBVIOUS
<1> USE SessionAssumption
<1>1. /\ \A p \in Pages : page[p] = Null
      /\ kept.token = Null /\ kept.user = Null /\ layout = Null
  BY DEF SessionInit, NobodyStored
<1>2. SessionTypeOK
  <2>1. page \in [Pages -> Page \cup {Null}]
    BY DEF SessionInit
  <2>2. kept \in [token : Visitors \cup {Null}, user : UserRecord \cup {Null}]
    BY DEF SessionInit, NobodyStored
  <2>3. roleOf \in [Visitors -> PortalRoles] /\ valid \subseteq Visitors /\ shared \in BOOLEAN
    BY DEF SessionInit
  <2> QED
    BY <1>1, <2>1, <2>2, <2>3 DEF SessionTypeOK
<1> QED
  BY <1>1, <1>2 DEF SessionInv, PagesFit, OneLogin, KinKept

LEMMA LoadedPage ==
    ASSUME NEW path \in Paths
    PROVE  /\ Loaded(path) \in Page /\ FitsPage(Loaded(path))
           /\ Loaded(path).user = Null /\ Loaded(path).bench = Null
BY DEF Loaded, Page, FitsPage

\* The effects of a page without a token lead to the login page, of one with a token
\* to an area.
LEMMA NextPathLeads ==
    ASSUME NEW g, g.path \in Paths, g.token # Null => g.user # Null
    PROVE  /\ NextPath(g) \in Paths
           /\ g.token = Null => NextPath(g) = "LOGIN"
           /\ g.token # Null => NextPath(g) \notin {"LOGIN", "ROOT"}
<1>1. \A role : HomeRoute(role) \in Paths \ {"LOGIN", "ROOT"}
  BY DEF HomeRoute, Paths
<1> DEFINE home == HomeRoute(IF g.user = Null THEN Null ELSE g.user.role)
<1>2. home \in Paths \ {"LOGIN", "ROOT"}
  BY <1>1
<1> HIDE DEF home
<1>3. NextPath(g) = CASE g.path = "LOGIN" -> IF g.token = Null THEN "LOGIN" ELSE home
                      [] g.path # "LOGIN" /\ g.token = Null -> "LOGIN"
                      [] g.path = "ROOT" /\ g.token # Null -> home
                      [] OTHER -> IF g.user = Null \/ InArea(g.path, g.user.role) THEN g.path
                                  ELSE home
  BY DEF NextPath, home
<1>4. "LOGIN" \in Paths
  BY DEF Paths
<1>5. CASE g.token = Null
  BY <1>3, <1>4, <1>5
<1>6. CASE g.token # Null
  BY <1>2, <1>3, <1>6
<1> QED
  BY <1>5, <1>6

LEMMA SessionNextInv ==
    ASSUME SessionInv, [SessionNext]_sessionVars
    PROVE  SessionInv'
<1> USE SessionAssumption
<1>0. SessionTypeOK /\ PagesFit /\ OneLogin
  BY DEF SessionInv
\* A step that replaces one page, by one that is in kin with what is kept.
<1>o. ASSUME NEW p \in Pages, NEW g \in Page \cup {Null}, page' = [page EXCEPT ![p] = g],
             g # Null => FitsPage(g), UNCHANGED <<kept, roleOf, shared>>,
             valid' \subseteq Visitors, layout' \in (SUBSET Visitors) \cup {Null},
             ~shared => /\ layout' # Null => layout' \subseteq TabsOf(kept.user)
                        /\ g # Null => KinPage(g, kept)
      PROVE  SessionInv'
  <2>1. /\ page' \in [Pages -> Page \cup {Null}]
        /\ page'[p] = g /\ \A q \in Pages \ {p} : page'[q] = page[q]
    BY <1>0, <1>o DEF SessionTypeOK
  <2>2. SessionTypeOK'
    BY <1>0, <1>o, <2>1 DEF SessionTypeOK
  <2>3. PagesFit'
    BY <1>0, <1>o, <2>1 DEF PagesFit
  <2>4. OneLogin'
    BY <1>0, <1>o, <2>1 DEF OneLogin, KinKept
  <2> QED
    BY <2>2, <2>3, <2>4 DEF SessionInv
\* A page sends a call.
<1>c. ASSUME NEW p \in Pages, page[p] # Null,
             NEW kind \in {"SIGNIN", "SIGNOUT", "CHANGE", "POLL"},
             NEW as \in Visitors \cup {Null}, NEW to \in Paths \cup {Null},
             SendCall(p, kind, as, to),
             kind = "SIGNIN" => /\ page[p].path = "LOGIN" /\ page[p].hydrated
                                /\ page[p].token = Null
                                /\ as # Null /\ to \notin {"LOGIN", "ROOT", Null},
             kind # "SIGNIN" => Ready(p)
      PROVE  SessionInv'
  <2> DEFINE w == [kind |-> kind, as |-> as, to |-> to]
             g == [page[p] EXCEPT !.call = w]
  <2>1. page[p] \in Page /\ FitsPage(page[p]) /\ (~shared => KinPage(page[p], kept))
    BY <1>0, <1>c DEF SessionTypeOK, PagesFit, OneLogin
  <2>a. w \in WebCall /\ w.kind = kind /\ w.as = as /\ w.to = to
    BY DEF WebCall
  <2> HIDE DEF w
  <2>2. w \in WebCall /\ w.kind = kind /\ w.as = as /\ w.to = to /\ w # Null
    BY <2>a
  <2>3. /\ g \in Page /\ g.path = page[p].path /\ (g.hydrated <=> page[p].hydrated)
        /\ g.token = page[p].token /\ g.user = page[p].user /\ g.bench = page[p].bench
        /\ g.call = w
    BY <2>1, <2>2 DEF Page
  <2>4. page' = [page EXCEPT ![p] = g] /\ UNCHANGED <<kept, layout, roleOf, valid, shared>>
    BY <1>c DEF SendCall, w
  <2> HIDE DEF g
  <2>5. FitsPage(g)
    BY <1>c, <2>1, <2>2, <2>3 DEF FitsPage, Ready
  <2>6. ~shared => KinPage(g, kept)
    BY <2>1, <2>3 DEF KinPage
  <2>7. /\ layout' \in (SUBSET Visitors) \cup {Null} /\ valid' \subseteq Visitors
        /\ ~shared /\ layout' # Null => layout' \subseteq TabsOf(kept.user)
    BY <1>0, <2>4 DEF SessionTypeOK, OneLogin, KinKept
  <2> QED
    BY <2>3, <2>4, <2>5, <2>6, <2>7, <1>o
\* What holds of the layout where it stays.
<1>l. /\ layout \in (SUBSET Visitors) \cup {Null} /\ valid \subseteq Visitors
      /\ ~shared /\ layout # Null => layout \subseteq TabsOf(kept.user)
  BY <1>0 DEF SessionTypeOK, OneLogin, KinKept
<1>p. ASSUME NEW p \in Pages, page[p] # Null
      PROVE  /\ page[p] \in Page /\ FitsPage(page[p]) /\ (~shared => KinPage(page[p], kept))
             /\ page[p].hydrated \in BOOLEAN /\ page[p].path \in Paths
             /\ page[p].token \in Visitors \cup {Null} /\ page[p].user \in UserRecord \cup {Null}
             /\ page[p].bench \in (SUBSET Visitors) \cup {Null}
             /\ page[p].call \in WebCall \cup {Null}
  <2>1. page[p] \in Page
    BY <1>0, <1>p DEF SessionTypeOK
  <2> QED
    BY <1>0, <1>p, <2>1 DEF PagesFit, OneLogin, Page
<1>k. /\ kept.token \in Visitors \cup {Null} /\ kept.user \in UserRecord \cup {Null}
      /\ kept.token # Null => kept.user # Null
      /\ ~shared => KinKept(kept, layout)
  BY <1>0 DEF SessionTypeOK, OneLogin
<1>1. ASSUME NEW p \in Pages, NEW path \in OpenedAt, OpenPage(p, path)
      PROVE  SessionInv'
  <2>1. path \in Paths
    OBVIOUS
  <2>2. KinPage(Loaded(path), kept)
    BY <2>1, LoadedPage DEF KinPage
  <2> QED
    BY <1>1, <2>1, <2>2, LoadedPage, <1>o, <1>l DEF OpenPage
<1>2. ASSUME NEW p \in Pages, ClosePage(p)
      PROVE  SessionInv'
  BY <1>2, <1>o, <1>l DEF ClosePage
\* The tabs a page with these stores has once it has hydrated or arrived.
<1>t. ASSUME NEW p \in Pages, page[p] # Null
      PROVE  /\ Tabs(page[p]) \in (SUBSET Visitors) \cup {Null}
             /\ Tabs(page[p]) # page[p].bench => Tabs(page[p]) # Null
             /\ ~shared /\ Tabs(page[p]) # Null =>
                   \/ Tabs(page[p]) = page[p].bench
                   \/ Tabs(page[p]) \subseteq TabsOf(kept.user)
  <2>1. Tabs(page[p]) \in {page[p].bench, {}, layout}
    BY DEF Tabs
  <2>2. Tabs(page[p]) # page[p].bench => Tabs(page[p]) \in SUBSET Visitors
    BY <1>l DEF Tabs
  <2>3. \A tabs \in SUBSET Visitors : tabs # Null
    OBVIOUS
  <2> QED
    BY <1>t, <1>l, <1>p, <2>1, <2>2, <2>3 DEF Tabs
<1>3. ASSUME NEW p \in Pages, Hydrate(p)
      PROVE  SessionInv'
  <2> DEFINE f == [page[p] EXCEPT !.hydrated = TRUE, !.token = kept.token, !.user = kept.user,
                                  !.bench = Tabs(page[p])]
             h == f.path = "LOGIN" \/ NextPath(f) # "LOGIN"
             g == [f EXCEPT !.path = NextPath(f), !.hydrated = h]
  <2>1. /\ page[p] # Null /\ ~page[p].hydrated /\ page' = [page EXCEPT ![p] = g]
        /\ layout' = (IF f.bench = page[p].bench THEN layout ELSE f.bench)
        /\ UNCHANGED <<kept, roleOf, valid, shared>>
    BY <1>3 DEF Hydrate
  <2>2. /\ f \in Page /\ f.path = page[p].path /\ f.token = kept.token /\ f.user = kept.user
        /\ f.bench = Tabs(page[p]) /\ f.call = page[p].call
    <3>1. page[p] \in Page
      BY <2>1, <1>p
    <3>2. Tabs(page[p]) \in (SUBSET Visitors) \cup {Null}
      BY <2>1, <1>t
    <3> QED
      BY <3>1, <3>2, <1>k DEF Page
  <2>3. f.call = Null
    BY <2>1, <2>2, <1>p DEF FitsPage
  <2> HIDE DEF f
  <2>4. /\ NextPath(f) \in Paths
        /\ kept.token = Null => NextPath(f) = "LOGIN"
        /\ kept.token # Null => NextPath(f) \notin {"LOGIN", "ROOT"}
    <3>1. f.path \in Paths /\ (f.token # Null => f.user # Null)
      BY <2>1, <2>2, <1>k, <1>p
    <3> QED
      BY <3>1, <2>2, NextPathLeads
  <2>5. h \in BOOLEAN
    OBVIOUS
  <2> DEFINE np == NextPath(f)
  <2> HIDE DEF h
  <2>6. /\ g \in Page /\ g.path = np /\ g.token = kept.token /\ g.user = kept.user
        /\ g.bench = Tabs(page[p]) /\ g.call = Null
    <3> HIDE DEF np
    <3>1. np \in Paths
      BY <2>4 DEF np
    <3>2. g = [f EXCEPT !.path = np, !.hydrated = h]
      BY DEF np
    <3> HIDE DEF g
    <3> QED
      BY <2>2, <2>3, <2>5, <3>1, <3>2 DEF Page
  <2> HIDE DEF g
  <2>7. FitsPage(g)
    BY <2>4, <2>6, <1>k DEF FitsPage
  <2>8. ~shared => KinPage(g, kept)
    <3> SUFFICES ASSUME ~shared PROVE KinPage(g, kept)
      OBVIOUS
    <3>1. Tabs(page[p]) # Null => Tabs(page[p]) \subseteq TabsOf(kept.user)
      BY <2>1, <1>t, <1>p DEF KinPage, TabsOf
    <3> QED
      BY <2>6, <3>1, <1>k DEF KinPage, KinKept
  <2>9. /\ layout' \in (SUBSET Visitors) \cup {Null}
        /\ ~shared /\ layout' # Null => layout' \subseteq TabsOf(kept.user)
    BY <2>1, <2>2, <1>l, <1>t
  <2> QED
    BY <2>1, <2>6, <2>7, <2>8, <2>9, <1>l, <1>o
<1>4. ASSUME NEW p \in Pages, Redirect(p)
      PROVE  SessionInv'
  <2> DEFINE np == NextPath(page[p])
             h == np # "LOGIN"
             g == [page[p] EXCEPT !.path = np, !.hydrated = h]
  <2>1. /\ page[p] # Null /\ page[p].hydrated /\ np # page[p].path
        /\ page' = [page EXCEPT ![p] = g]
        /\ UNCHANGED <<kept, layout, roleOf, valid, shared>>
    BY <1>4 DEF Redirect
  <2>2. /\ np \in Paths
        /\ page[p].token = Null => np = "LOGIN"
        /\ page[p].token # Null => np \notin {"LOGIN", "ROOT"}
    BY <2>1, <1>p, NextPathLeads DEF FitsPage
  <2>3. h \in BOOLEAN /\ (h <=> np # "LOGIN")
    OBVIOUS
  <2> HIDE DEF np, h
  <2>4. /\ g \in Page /\ g.path = np /\ (g.hydrated <=> h) /\ g.token = page[p].token
        /\ g.user = page[p].user /\ g.bench = page[p].bench /\ g.call = page[p].call
    BY <2>1, <2>2, <2>3, <1>p DEF Page
  <2> HIDE DEF g
  <2>6. FitsPage(g)
    BY <2>1, <2>2, <2>3, <2>4, <1>p DEF FitsPage
  <2>7. ~shared => KinPage(g, kept)
    BY <2>1, <2>4, <1>p DEF KinPage
  <2> QED
    BY <2>1, <2>4, <2>6, <2>7, <1>l, <1>o
\* A step that changes the tabs of a page that is signed in, and the layout with them.
<1>b. ASSUME NEW p \in Pages, page[p] # Null, page[p].user # Null, NEW tabs \in SUBSET Visitors,
             page' = [page EXCEPT ![p].bench = tabs], layout' = tabs,
             UNCHANGED <<kept, roleOf, valid, shared>>,
             ~shared => tabs \subseteq TabsOf(kept.user)
      PROVE  SessionInv'
  <2> DEFINE g == [page[p] EXCEPT !.bench = tabs]
  <2>1. /\ g \in Page /\ g.path = page[p].path /\ (g.hydrated <=> page[p].hydrated)
        /\ g.token = page[p].token
        /\ g.user = page[p].user /\ g.bench = tabs /\ g.call = page[p].call
    BY <1>b, <1>p DEF Page
  <2>2. page' = [page EXCEPT ![p] = g]
    BY <1>b
  <2> HIDE DEF g
  <2>3. FitsPage(g)
    BY <1>b, <2>1, <1>p DEF FitsPage
  <2>4. ~shared => KinPage(g, kept)
    <3> SUFFICES ASSUME ~shared PROVE KinPage(g, kept)
      OBVIOUS
    <3>1. kept.user # Null /\ kept.user.of = page[p].user.of /\ page[p].token = page[p].user.of
      BY <1>b, <1>p DEF KinPage
    <3>2. tabs \subseteq {page[p].user.of}
      BY <1>b, <3>1 DEF TabsOf
    <3> QED
      BY <1>b, <2>1, <3>1, <3>2 DEF KinPage, TabsOf
  <2> QED
    BY <1>b, <2>1, <2>2, <2>3, <2>4, <1>l, <1>o
<1>5. ASSUME NEW p \in Pages, RestoreLayout(p)
      PROVE  SessionInv'
  <2> DEFINE tabs == Tabs(page[p])
  <2>1. /\ page[p] # Null /\ page[p].hydrated /\ page[p].path = "HRADMIN" /\ page[p].bench = Null
        /\ page' = [page EXCEPT ![p].bench = tabs] /\ layout' = tabs
        /\ UNCHANGED <<kept, roleOf, valid, shared>>
    BY <1>5 DEF RestoreLayout
  <2>2. page[p].user # Null
    BY <2>1, <1>p DEF FitsPage
  <2>3. tabs \in SUBSET Visitors
    BY <2>1, <1>l DEF Tabs
  <2>4. ~shared => tabs \subseteq TabsOf(kept.user)
    BY <2>1, <2>3, <1>t
  <2> HIDE DEF tabs
  <2> QED
    BY <2>1, <2>2, <2>3, <2>4, <1>b
<1>6. ASSUME NEW p \in Pages, NEW tabs \in SUBSET Visitors, ChangeTabs(p, tabs)
      PROVE  SessionInv'
  <2>1. /\ page[p] # Null /\ page[p].bench # Null /\ page[p].user # Null
        /\ tabs \in {page[p].bench \cup {page[p].user.of}} \cup SUBSET page[p].bench
        /\ page' = [page EXCEPT ![p].bench = tabs] /\ layout' = tabs
        /\ UNCHANGED <<kept, roleOf, valid, shared>>
    BY <1>6 DEF ChangeTabs, Ready
  <2>2. ~shared => tabs \subseteq TabsOf(kept.user)
    BY <2>1, <1>p DEF KinPage, TabsOf
  <2> QED
    BY <2>1, <2>2, <1>b
<1>r. \A role : HomeRoute(role) \in Paths \ {"LOGIN", "ROOT"}
  BY DEF HomeRoute, Paths
<1>7. ASSUME NEW p \in Pages, NEW u \in Visitors, NEW form \in Forms, SignIn(p, u, form)
      PROVE  SessionInv'
  <2> DEFINE to == IF form = "STAFF" THEN "HRADMIN" ELSE HomeRoute(roleOf[u])
  <2>1. to \in Paths \ {"LOGIN", "ROOT"}
    BY <1>r DEF Paths
  <2>2. to # Null /\ u # Null
    BY <2>1
  <2>3. /\ page[p] # Null /\ page[p].path = "LOGIN" /\ page[p].hydrated /\ page[p].token = Null
        /\ SendCall(p, "SIGNIN", u, to)
    BY <1>7 DEF SignIn
  <2> HIDE DEF to
  <2> QED
    BY <2>1, <2>2, <2>3, <1>c
<1>8. ASSUME NEW p \in Pages, SignOut(p) \/ Poll(p) \/ SendNewPassword(p)
      PROVE  SessionInv'
  <2>1. /\ Ready(p) /\ page[p] # Null
        /\ \/ SendCall(p, "SIGNOUT", kept.token, Null)
           \/ SendCall(p, "POLL", kept.token, Null)
           \/ SendCall(p, "CHANGE", kept.token, Null)
    BY <1>8 DEF SignOut, Poll, SendNewPassword, HasHeader, Ready
  <2> QED
    BY <2>1, <1>k, <1>c
<1>9. ASSUME NEW p \in Pages, Admitted(p)
      PROVE  SessionInv'
  <2> DEFINE as == page[p].call.as
             to == page[p].call.to
  <2>1. /\ page[p] # Null /\ page[p].call # Null /\ page[p].call.kind = "SIGNIN"
        /\ shared' = (shared \/ ~(Elsewhere(p) \cup {kept.token} \subseteq {as, Null}))
        /\ valid' = valid \cup {as} /\ UNCHANGED <<layout, roleOf>>
    BY <1>9 DEF Admitted
  <2>2. PICK must \in (IF roleOf[as] = "EMPLOYEE" THEN BOOLEAN ELSE {FALSE}) :
           LET me == [of |-> as, role |-> roleOf[as], must |-> must] IN
           /\ kept' = [token |-> as, user |-> me]
           /\ page' = [page EXCEPT ![p] = [@ EXCEPT !.token = as, !.user = me,
                                                    !.call = Null, !.path = to]]
    BY <1>9 DEF Admitted
  <2> DEFINE me == [of |-> as, role |-> roleOf[as], must |-> must]
             g == [page[p] EXCEPT !.token = as, !.user = me, !.call = Null, !.path = to]
  <2>3. as \in Visitors /\ as # Null /\ to \in Paths \ {"LOGIN", "ROOT"}
    <3>1. page[p].call \in WebCall
      BY <2>1, <1>p
    <3> QED
      BY <2>1, <3>1, <1>p DEF FitsPage, WebCall
  <2>a. roleOf[as] \in PortalRoles
    BY <1>0, <2>3 DEF SessionTypeOK
  <2>b. me \in UserRecord /\ me.of = as
    BY <2>3, <2>a DEF UserRecord
  <2>c. page' = [page EXCEPT ![p] = g] /\ kept' = [token |-> as, user |-> me]
    BY <2>2
  <2> HIDE DEF me
  <2>4. me \in UserRecord /\ me.of = as /\ me # Null
    BY <2>b
  <2>5. /\ g \in Page /\ g.token = as /\ g.user = me /\ g.call = Null /\ g.path = to
        /\ g.bench = page[p].bench
    BY <2>1, <2>3, <2>4, <1>p DEF Page
  <2>6. page' = [page EXCEPT ![p] = g] /\ kept' = [token |-> as, user |-> me]
    BY <2>c
  <2> HIDE DEF g, as
  <2>7. /\ page' \in [Pages -> Page \cup {Null}] /\ page'[p] = g
        /\ \A q \in Pages \ {p} : page'[q] = page[q]
        /\ kept'.token = as /\ kept'.user = me
    BY <1>0, <2>5, <2>6 DEF SessionTypeOK
  <2>8. SessionTypeOK'
    BY <1>0, <2>1, <2>3, <2>4, <2>6, <2>7 DEF SessionTypeOK
  <2>9. PagesFit'
    <3>1. FitsPage(g)
      BY <2>3, <2>4, <2>5 DEF FitsPage
    <3> QED
      BY <1>0, <2>7, <3>1 DEF PagesFit
  <2>10. OneLogin'
    <3> SUFFICES ASSUME ~shared'
                 PROVE  /\ KinKept(kept', layout')
                        /\ \A q \in Pages : page'[q] # Null => KinPage(page'[q], kept')
      BY DEF OneLogin
    <3>1. ~shared /\ Elsewhere(p) \subseteq {as, Null} /\ kept.token \in {as, Null}
      BY <2>1
    <3>2. page[p].user = Null
      BY <2>1, <3>1, <2>3, <1>p DEF FitsPage, KinPage, UserRecord
    <3>3. kept.user # Null => kept.user.of = as
      <4>1. kept.user # Null => kept.user.of \in Visitors
        BY <1>k DEF UserRecord
      <4> QED
        BY <3>1, <4>1, <1>k DEF KinKept
    <3>4. KinKept(kept', layout')
      BY <2>1, <2>4, <2>7, <3>1, <3>3, <1>k DEF KinKept, TabsOf
    <3>5. KinPage(g, kept')
      BY <2>1, <2>4, <2>5, <2>7, <3>1, <3>2, <1>p DEF KinPage, TabsOf
    <3>6. ASSUME NEW q \in Pages \ {p}, page[q] # Null
          PROVE  KinPage(page[q], kept')
      BY <2>4, <2>7, <3>1, <3>3, <3>6, <1>p DEF KinPage
    <3> QED
      BY <2>7, <3>4, <3>5, <3>6
  <2> QED
    BY <2>8, <2>9, <2>10 DEF SessionInv
\* A page that lets go of what is kept; the others show nobody, or it is history.
<1>f. ASSUME NEW p \in Pages, page[p] # Null, kept' = NobodyStored, NEW g \in Page,
             page' = [page EXCEPT ![p] = g], FitsPage(g),
             ~shared => g.user = Null /\ g.bench \in {Null, {}},
             UNCHANGED <<roleOf, valid>>, layout' \in {layout, Null},
             ~shared' => /\ ~shared /\ Elsewhere(p) = {}
                         /\ layout' \in {Null, {}},
             shared' \in BOOLEAN
      PROVE  SessionInv'
  <2>1. /\ page' \in [Pages -> Page \cup {Null}] /\ page'[p] = g
        /\ \A q \in Pages \ {p} : page'[q] = page[q]
        /\ kept'.token = Null /\ kept'.user = Null
    BY <1>0, <1>f DEF SessionTypeOK, NobodyStored
  <2>2. SessionTypeOK'
    BY <1>0, <1>f, <2>1, <1>l DEF SessionTypeOK, NobodyStored
  <2>3. PagesFit'
    BY <1>0, <1>f, <2>1 DEF PagesFit
  <2>4. OneLogin'
    <3> SUFFICES ASSUME ~shared'
                 PROVE  /\ KinKept(kept', layout')
                        /\ \A q \in Pages : page'[q] # Null => KinPage(page'[q], kept')
      BY DEF OneLogin
    <3>1. KinKept(kept', layout')
      BY <1>f, <2>1 DEF KinKept
    <3>2. KinPage(g, kept')
      BY <1>f DEF KinPage
    <3>3. ASSUME NEW q \in Pages \ {p}, page[q] # Null
          PROVE  KinPage(page[q], kept')
      <4>1. page[q].user = Null
        <5>1. page[q].user # Null => page[q].user.of \in Elsewhere(p)
          BY <3>3 DEF Elsewhere
        <5>2. Elsewhere(p) = {}
          BY <1>f
        <5> QED
          BY <5>1, <5>2
      <4> QED
        BY <1>f, <3>3, <4>1, <1>p DEF KinPage
    <3> QED
      BY <2>1, <3>1, <3>2, <3>3
  <2> QED
    BY <2>2, <2>3, <2>4 DEF SessionInv
<1>10. ASSUME NEW p \in Pages, Unauthorized(p)
       PROVE  SessionInv'
  <2> DEFINE m == [page[p] EXCEPT !.call = Null]
             g == IF page[p].path = "LOGIN" THEN m ELSE Loaded("LOGIN")
  <2>1. /\ page[p] # Null /\ page[p].call # Null /\ kept' = NobodyStored
        /\ page' = [page EXCEPT ![p] = g]
        /\ shared' = (shared \/ Elsewhere(p) # {} \/ layout \notin {Null, {}})
        /\ UNCHANGED <<layout, roleOf, valid>>
    BY <1>10 DEF Unauthorized
  <2>2. /\ m \in Page /\ m.path = page[p].path /\ (m.hydrated <=> page[p].hydrated)
        /\ m.token = page[p].token /\ m.user = page[p].user /\ m.bench = page[p].bench
        /\ m.call = Null
    BY <2>1, <1>p DEF Page
  <2>3. "LOGIN" \in Paths
    BY DEF Paths
  <2>4. shared' \in BOOLEAN
    BY <2>1
  <2> HIDE DEF m
  <2>5. CASE page[p].path = "LOGIN"
    <3>1. page[p].token = Null
      BY <2>1, <2>5, <1>p DEF FitsPage
    <3>2. FitsPage(m)
      BY <2>1, <2>2, <1>p DEF FitsPage
    <3>3. ~shared => m.user = Null /\ m.bench \in {Null, {}}
      BY <2>1, <2>2, <3>1, <1>p DEF KinPage, TabsOf, UserRecord
    <3> QED
      BY <2>1, <2>2, <2>4, <2>5, <3>2, <3>3, <1>f
  <2>6. CASE page[p].path # "LOGIN"
    BY <2>1, <2>3, <2>4, <2>6, LoadedPage, <1>f
  <2> QED
    BY <2>5, <2>6
<1>11. ASSUME NEW p \in Pages, SignedOut(p)
       PROVE  SessionInv'
  <2>1. /\ page[p] # Null /\ kept' = NobodyStored /\ layout' = Null
        /\ page' = [page EXCEPT ![p] = Loaded("LOGIN")]
        /\ shared' = (shared \/ Elsewhere(p) # {})
        /\ UNCHANGED <<roleOf, valid>>
    BY <1>11 DEF SignedOut
  <2>2. "LOGIN" \in Paths
    BY DEF Paths
  <2>3. shared' \in BOOLEAN
    BY <2>1
  <2> QED
    BY <2>1, <2>2, <2>3, LoadedPage, <1>f
<1>12. ASSUME NEW p \in Pages, PasswordChanged(p)
       PROVE  SessionInv'
  <2> DEFINE me == [page[p].user EXCEPT !.must = FALSE]
             g == [page[p] EXCEPT !.user = me, !.call = Null]
  <2>1. /\ page[p] # Null /\ page[p].call # Null /\ page[p].call.kind = "CHANGE"
        /\ kept' = [kept EXCEPT !.user = me]
        /\ page' = [page EXCEPT ![p].user = me, ![p].call = Null]
        /\ UNCHANGED <<layout, roleOf, valid, shared>>
    BY <1>12 DEF PasswordChanged
  <2>2. page[p].token # Null /\ page[p].user \in UserRecord /\ page[p].user # Null
    BY <2>1, <1>p DEF FitsPage
  <2>3. me \in UserRecord /\ me # Null /\ me.of = page[p].user.of
    BY <2>2 DEF UserRecord
  <2> HIDE DEF me
  <2>4. /\ g \in Page /\ g.token = page[p].token /\ g.user = me /\ g.call = Null
        /\ g.path = page[p].path /\ (g.hydrated <=> page[p].hydrated)
        /\ g.bench = page[p].bench
    BY <2>1, <2>3, <1>p DEF Page
  <2>5. page' = [page EXCEPT ![p] = g]
    BY <2>1, <1>p DEF Page
  <2> HIDE DEF g
  <2>6. /\ page' \in [Pages -> Page \cup {Null}] /\ page'[p] = g
        /\ \A q \in Pages \ {p} : page'[q] = page[q]
    BY <1>0, <2>4, <2>5 DEF SessionTypeOK
  <2>7. /\ kept' \in [token : Visitors \cup {Null}, user : UserRecord \cup {Null}]
        /\ kept'.user = me /\ kept'.token = kept.token
    BY <1>0, <2>1, <2>3 DEF SessionTypeOK
  <2>8. SessionTypeOK'
    BY <1>0, <2>1, <2>3, <2>6, <2>7 DEF SessionTypeOK
  <2>9. PagesFit'
    <3>1. FitsPage(g)
      BY <2>1, <2>3, <2>4, <1>p DEF FitsPage
    <3> QED
      BY <1>0, <2>6, <3>1 DEF PagesFit
  <2>10. OneLogin'
    <3> SUFFICES ASSUME ~shared
                 PROVE  /\ KinKept(kept', layout')
                        /\ \A q \in Pages : page'[q] # Null => KinPage(page'[q], kept')
      BY <2>1 DEF OneLogin
    <3>1. kept.user # Null /\ kept.user.of = page[p].user.of /\ page[p].token = page[p].user.of
      BY <2>1, <2>2, <1>p DEF KinPage
    <3>2. KinKept(kept', layout')
      BY <2>1, <2>3, <2>7, <3>1, <1>k DEF KinKept, TabsOf
    <3>3. KinPage(g, kept')
      BY <2>1, <2>2, <2>3, <2>4, <2>7, <3>1, <1>p DEF KinPage, TabsOf
    <3>4. ASSUME NEW q \in Pages \ {p}, page[q] # Null
          PROVE  KinPage(page[q], kept')
      BY <2>3, <2>7, <3>1, <3>4, <1>p DEF KinPage
    <3> QED
      BY <2>6, <3>2, <3>3, <3>4
  <2> QED
    BY <2>8, <2>9, <2>10 DEF SessionInv
<1>13. ASSUME NEW p \in Pages, NothingChanges(p)
       PROVE  SessionInv'
  <2> DEFINE g == [page[p] EXCEPT !.call = Null]
  <2>1. /\ page[p] # Null /\ page' = [page EXCEPT ![p].call = Null]
        /\ UNCHANGED <<kept, layout, roleOf, valid, shared>>
    BY <1>13 DEF NothingChanges
  <2>2. /\ g \in Page /\ g.path = page[p].path /\ (g.hydrated <=> page[p].hydrated)
        /\ g.token = page[p].token /\ g.user = page[p].user /\ g.bench = page[p].bench
        /\ g.call = Null
    BY <2>1, <1>p DEF Page
  <2>3. page' = [page EXCEPT ![p] = g]
    BY <2>1
  <2> HIDE DEF g
  <2>4. FitsPage(g)
    BY <2>1, <2>2, <1>p DEF FitsPage
  <2>5. ~shared => KinPage(g, kept)
    BY <2>1, <2>2, <1>p DEF KinPage
  <2> QED
    BY <2>1, <2>2, <2>3, <2>4, <2>5, <1>l, <1>o
<1>14. ASSUME NEW u \in Visitors, Expire(u)
       PROVE  SessionInv'
  BY <1>0, <1>14 DEF Expire, SessionInv, SessionTypeOK, PagesFit, OneLogin
<1>15. CASE UNCHANGED sessionVars
  BY <1>0, <1>15 DEF sessionVars, SessionInv, SessionTypeOK, PagesFit, OneLogin
<1> QED
  BY <1>1, <1>2, <1>3, <1>4, <1>5, <1>6, <1>7, <1>8, <1>9, <1>10, <1>11, <1>12, <1>13, <1>14,
     <1>15 DEF SessionNext, Effects, Polling, Answer

LEMMA SessionStepInv == SessionInv /\ [SessionNext]_sessionVars => SessionInv'
BY SessionNextInv

LEMMA SessionInvariant == SessionSpec => []SessionInv
BY SessionInitInv, SessionStepInv, PTL DEF SessionSpec

\* The pages, and the token and record they share, are of their types, and no token is
\* kept without its record.
THEOREM SessionTypeCorrect == SessionSpec => []SessionTypeOK
<1>1. SessionInv => SessionTypeOK
  BY DEF SessionInv
<1> QED
  BY <1>1, SessionInvariant, PTL

\* useWorkbenchStore, clearPersistedWorkbench: as long as no login comes on top of
\* another, every Workbench that is shown holds the tabs of its own login.
THEOREM TabsStayWithTheirLogin == SessionSpec => []NobodyInherits
<1>1. SessionInv => NobodyInherits
  <2> SUFFICES ASSUME SessionInv, NEW p \in Pages, page[p] # Null, page[p].bench # Null,
                      page[p].user # Null, ~shared
               PROVE  page[p].bench \subseteq {page[p].user.of}
    BY DEF NobodyInherits, Ready
  <2> QED
    BY DEF SessionInv, OneLogin, KinPage, TabsOf
<1> QED
  BY <1>1, SessionInvariant, PTL

-----------------------------------------------------------------------------
(* The heartbeat and the calls about a terminal. *)

\* A pass that has probed a device knows which, and the flag is the pass's own.
HealthInv ==
    /\ HealthTypeOK
    /\ pass # Null /\ pass.at \in {"SAVE", "LOG"} => pass.dev \in Devices
    /\ running <=> pass # Null

\* What DevicesService and the world do leaves the pass alone.
LEMMA VisitsKeep ==
    ASSUME HealthInv, ClientNext \/ \E p \in Places : Flip(p)
    PROVE  HealthInv'
<1> USE DEF HealthInv, HealthTypeOK
<1>1. ASSUME NEW d \in Devices, NEW p \in Places, AddDeviceRow(d, p) \/ Readdress(d, p)
      PROVE  HealthInv'
  BY <1>1 DEF AddDeviceRow, Readdress, Device, Shown
<1>2. ASSUME NEW d \in Devices, RemoveDeviceRow(d) PROVE HealthInv'
  BY <1>2 DEF RemoveDeviceRow
<1>3. ASSUME NEW c \in Clients, NEW d \in Devices, NEW op \in DeviceCalls, Visit(c, op, d)
      PROVE  HealthInv'
  BY <1>3, DeviceCallsAssumption DEF Visit, Visiting, Device
<1>4. ASSUME NEW c \in Clients, TerminalAnswers(c) PROVE HealthInv'
  <2> DEFINE reached == visit[c].place \in up
  <2>1. reached \in BOOLEAN
    OBVIOUS
  <2> HIDE DEF reached
  <2>2. PICK ok \in {FALSE} \cup {reached} : visit' = [visit EXCEPT ![c].at = "SAVE", ![c].ok = ok]
    BY <1>4 DEF TerminalAnswers, reached
  <2>3. ok \in BOOLEAN
    BY <2>1, <2>2
  <2>4. visit[c] # Null /\ UNCHANGED <<device, up, pass, running>>
    BY <1>4 DEF TerminalAnswers
  <2>5. [visit[c] EXCEPT !.at = "SAVE", !.ok = ok] \in Visiting
    BY <2>3, <2>4 DEF Visiting
  <2>6. visit' = [visit EXCEPT ![c] = [visit[c] EXCEPT !.at = "SAVE", !.ok = ok]]
    BY <2>2
  <2> QED BY <2>4, <2>5, <2>6
<1>5. ASSUME NEW c \in Clients, SaveStatus(c) PROVE HealthInv'
  BY <1>5 DEF SaveStatus, Visiting, Device, Shown, StatusOf
<1>6. ASSUME NEW p \in Places, Flip(p) PROVE HealthInv'
  BY <1>6 DEF Flip
<1> QED BY <1>1, <1>2, <1>3, <1>4, <1>5, <1>6 DEF ClientNext

\* A pass goes from device to device, and whatever ends it clears the flag.
LEMMA PassKeeps ==
    ASSUME HealthInv, StartPass \/ PassStep \/ RestartServer
    PROVE  HealthInv'
<1> SUFFICES /\ pass' \in Passing \cup {Null} /\ device' \in [Devices -> Device \cup {Null}]
             /\ visit' = visit \/ visit' = [c \in Clients |-> Null]
             /\ up' = up /\ running' \in BOOLEAN
             /\ pass' # Null /\ pass'.at \in {"SAVE", "LOG"} => pass'.dev \in Devices
             /\ running' <=> pass' # Null
  BY DEF HealthInv, HealthTypeOK
<1>1. /\ device \in [Devices -> Device \cup {Null}] /\ pass \in Passing \cup {Null}
      /\ running \in BOOLEAN /\ (running <=> pass # Null)
      /\ pass # Null /\ pass.at \in {"SAVE", "LOG"} => pass.dev \in Devices
  BY DEF HealthInv, HealthTypeOK
<1>2. CASE StartPass
  <2>1. pass' \in Passing
    BY <1>1, <1>2 DEF StartPass, Passing
  <2> QED BY <1>1, <1>2, <2>1, NullPassAssumption DEF StartPass
<1>3. ASSUME NEW d \in Devices, Probe(d)
      PROVE  /\ pass' \in Passing /\ UNCHANGED <<device, visit, up, running>> /\ running
             /\ pass'.dev \in Devices
  <2> DEFINE reached == pass.seen[d].place \in up
  <2>1. reached \in BOOLEAN
    OBVIOUS
  <2> HIDE DEF reached
  <2>2. /\ pass # Null /\ pass' = [pass EXCEPT !.at = "SAVE", !.dev = d, !.reachable = reached]
        /\ UNCHANGED <<device, visit, up, running>>
    BY <1>3 DEF Probe, reached
  <2> QED BY <1>1, <2>1, <2>2 DEF Passing
\* The next device, after one whose row was written, logged or left as it was.
<1>4. ASSUME pass # Null PROVE Visited \in Passing /\ Visited.at = "NEXT"
  BY <1>1, <1>4 DEF Visited, Passing
<1>5. CASE SaveProbe
  <2>1. pass \in Passing /\ pass.dev \in Devices /\ running
    BY <1>1, <1>5 DEF SaveProbe
  <2>2. [pass EXCEPT !.at = "LOG"] \in Passing /\ [pass EXCEPT !.at = "LOG"].dev \in Devices
    BY <2>1 DEF Passing
  <2>3. device' \in [Devices -> Device \cup {Null}]
    <3>1. CASE device' = device
      BY <1>1, <3>1
    <3>2. CASE device' # device
      <4>1. /\ device[pass.dev] # Null
            /\ device' = [device EXCEPT ![pass.dev].status = StatusOf(pass.reachable)]
        BY <1>5, <3>2 DEF SaveProbe, Throw
      <4> QED BY <1>1, <2>1, <4>1 DEF Device, Shown, StatusOf
    <3> QED BY <3>1, <3>2
  <2>4. /\ UNCHANGED <<up, visit>>
        /\ \/ PassEnds
           \/ running' = running /\ pass' = [pass EXCEPT !.at = "LOG"]
           \/ running' = running /\ pass' = Visited
    BY <1>5 DEF SaveProbe, Throw
  <2> QED BY <1>4, <2>1, <2>2, <2>3, <2>4, NullPassAssumption DEF PassEnds
<1>6. CASE LogProbe
  <2>1. /\ pass # Null /\ UNCHANGED <<device, up, visit>>
        /\ PassEnds \/ (running' = running /\ pass' = Visited)
    BY <1>6 DEF LogProbe, Throw
  <2>2. pass \in Passing /\ running
    BY <1>1, <2>1
  <2>3. CASE PassEnds
    BY <1>1, <2>1, <2>3 DEF PassEnds
  <2>4. CASE running' = running /\ pass' = Visited
    BY <1>1, <1>4, <2>1, <2>2, <2>4, NullPassAssumption
  <2> QED BY <2>1, <2>3, <2>4
<1>7. CASE EndPass \/ RestartServer
  BY <1>1, <1>7 DEF EndPass, PassEnds, RestartServer
<1> QED BY <1>1, <1>2, <1>3, <1>5, <1>6, <1>7, NullPassAssumption DEF PassStep

LEMMA HealthInitInv == HealthInit => HealthInv
BY DEF HealthInit, HealthInv, HealthTypeOK

LEMMA HealthStepInv == HealthInv /\ [HealthNext]_healthVars => HealthInv'
<1>1. HealthInv /\ UNCHANGED healthVars => HealthInv'
  BY DEF HealthInv, HealthTypeOK, healthVars
<1> QED BY <1>1, VisitsKeep, PassKeeps DEF HealthNext

LEMMA HealthInvariant == HealthSpec => []HealthInv
BY HealthInitInv, HealthStepInv, PTL DEF HealthSpec

\* Device rows, running calls and the pass are of their types, however rows are
\* added, readdressed and removed under them.
THEOREM HealthTypeCorrect == HealthSpec => []HealthTypeOK
<1>1. HealthInv => HealthTypeOK
  BY DEF HealthInv
<1> QED BY <1>1, HealthInvariant, PTL

\* The heartbeat never locks itself out: the flag that turns the next tick away is
\* set only while a pass runs, in whichever way the last one ended.
THEOREM FlagGoesWithThePass == HealthSpec => [](running => pass # Null)
<1>1. HealthInv => (running => pass # Null)
  BY DEF HealthInv
<1> QED BY <1>1, HealthInvariant, PTL

-----------------------------------------------------------------------------
(* The clients as TLC runs them: one module in a behaviour, the others at rest. *)

LEMMA ClientsStepIsOfEach ==
    [ClientsNext]_clientsVars =>
      [PoolNext]_poolVars /\ [HealthNext]_healthVars /\ [SessionNext]_sessionVars /\ [Next]_vars
<1>1. UNCHANGED clientsVars => UNCHANGED <<poolVars, healthVars, sessionVars, vars>>
  BY DEF clientsVars
<1>2. SyncNext => Next
  BY DEF SyncNext, Next
<1>3. ClientsNext =>
        \/ PoolNext /\ UNCHANGED <<healthVars, sessionVars, vars>>
        \/ HealthNext /\ UNCHANGED <<poolVars, sessionVars, vars>>
        \/ SessionNext /\ UNCHANGED <<poolVars, healthVars, vars>>
        \/ SyncNext /\ UNCHANGED <<poolVars, healthVars, sessionVars>>
  BY DEF ClientsNext
<1> QED BY <1>1, <1>2, <1>3

\* Whatever part of them a behaviour runs, the clients are a behaviour of every module,
\* but for its fairness; so what the modules are proved to keep, the clients keep.
THEOREM ClientsAreOfEach ==
    ClientsSpec => /\ PoolInit /\ [][PoolNext]_poolVars
                   /\ HealthInit /\ [][HealthNext]_healthVars
                   /\ SessionInit /\ [][SessionNext]_sessionVars
                   /\ Init /\ [][Next]_vars
<1>1. ClientsInit => PoolInit /\ HealthInit /\ SessionInit /\ Init
  BY DEF ClientsInit
<1> QED
  BY <1>1, ClientsStepIsOfEach, PTL DEF ClientsSpec

\* Connections, calls, device rows, pages, employees and pushes are of their types.
THEOREM ClientsTypeCorrect == ClientsSpec => []ClientsTypeOK
<1>1. PoolInv /\ HealthInv /\ SessionInv /\ IInv => ClientsTypeOK
  BY DEF PoolInv, HealthInv, SessionInv, IInv, ClientsTypeOK
<1> QED
  BY <1>1, ClientsAreOfEach, PoolInitInv, PoolStepInv, HealthInitInv, HealthStepInv,
     SessionInitInv, SessionStepInv, InitIInv, NextIInv, PTL
=============================================================================
