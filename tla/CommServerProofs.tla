-------------------------- MODULE CommServerProofs --------------------------
(***************************************************************************)
(* CommServer, for any number of connections and any times: the variables  *)
(* keep their types and the acceptor's client is not deleted; and if no    *)
(* peer calls itself "Unknown", the listeners' view of who is connected    *)
(* agrees with the sockets.                                                *)
(*                                                                         *)
(* The check for another socket and the notification are two steps of the  *)
(* maintenance thread, and a name can be received in between.  That this   *)
(* does no harm rests on two facts.  A client has its first name until the *)
(* name is received, and receives it once (Unnamed).  And while the io     *)
(* thread can receive a name there is an idle client in the list, the      *)
(* acceptor's, that is called "Unknown" too (Spare): a client without a    *)
(* name is therefore always found to have another socket, and whatever     *)
(* name it receives after the check is not reported as disconnected.       *)
(***************************************************************************)
EXTENDS CommServer, TLAPS

Handling == io \in {"start", "frame", "connect", "authenticate", "broadcast"}

Timers ==
  \A c \in mClients :
    mConnectingTime[c] < ConnectingTimeout /\ mLastFrameTime[c] < ReceiveTimeout

Inside == Handling => ioConn # NoConn

\* Between rounds the maintenance thread has nothing left to do.
Rounds ==
  /\ maintenance = "sleep" => todo = {} /\ deletedClients = {}
  /\ maintenance # "notify" => deletedClient = NoConn
  /\ maintenance = "notify" => deletedClient # NoConn

\* The io thread is in a client, which is not the one that waits in the acceptor.
Serving ==
  /\ Handling => ioConn # accepting
  /\ io = "connect" => mConnectionState[ioConn] = "Connecting"
  /\ io = "authenticate" => mConnectionState[ioConn] = "Connected"

Waiting ==
  accepting # NoConn => /\ accepting \in mClients
                        /\ mConnectionState[accepting] = "Idle"
                        /\ peer[accepting] = "none"

\* The names of the clients.
Receives(c) == io = "connect" /\ ioConn = c

Unnamed ==
  \A c \in Conns :
    IF mConnectionState[c] \in {"Idle", "Connecting"} /\ ~Receives(c)
    THEN mName[c] = Unknown
    ELSE mConnectionState[c] # "Disconnected" => mName[c] # Unknown

Idle(c) == mConnectionState[c] = "Idle" /\ mName[c] = Unknown /\ peer[c] = "none"
Spare == io \notin {"start", "renew", "exited"} => \E c \in mClients : Idle(c)

\* The names the listeners hold.
Told == Unknown \notin told

Announced(c) ==
  mName[c] \in told \/ (ioConn = c /\ io \in {"connect", "authenticate"})
Live == \A c \in mClients : mName[c] \notin {Unknown, NoName} => Announced(c)

Leaving ==
  maintenance = "notify" /\ ~clientStillConnected =>
    /\ io \notin {"start", "renew", "exited"} => mName[deletedClient] # Unknown
    /\ mName[deletedClient] \notin {Unknown, NoName} =>
         \A c \in mClients : mName[c] = mName[deletedClient]
           => ioConn = c /\ io \in {"connect", "authenticate"}

Owed(n) == n \in (told \ late) \ {NoName}
Backed ==
  \A n \in AllNames : Owed(n) => \E c \in mClients \cup deletedClients : mName[c] = n
Staying ==
  maintenance = "notify" /\ clientStillConnected /\ Owed(mName[deletedClient]) =>
    \E c \in (mClients \cup deletedClients) \ {deletedClient} :
      mName[c] = mName[deletedClient]

TypeKept == TypeOK /\ Timers /\ Rounds
TypeInv == TypeKept /\ Inside
AcceptInv == Serving /\ Waiting
NameInv == Unnamed /\ Spare
ListenInv == Told /\ Live /\ Leaving /\ Backed /\ Staying

-----------------------------------------------------------------------------
(* Types.                                                                  *)

\* The times are positive integers.
LEMMA Limits ==
  /\ MaintenanceInterval \in Int /\ MaintenanceInterval > 0
  /\ ConnectingTimeout \in Int /\ ConnectingTimeout > 0
  /\ ReceiveTimeout \in Int /\ ReceiveTimeout > 0
BY ServerAssumption

\* The timers, as the numbers they are.
LEMMA TimerValues ==
  ASSUME TypeInv, NEW c \in Conns
  PROVE  /\ mConnectingTime[c] \in Int /\ mConnectingTime[c] >= 0
         /\ mLastFrameTime[c] \in Int /\ mLastFrameTime[c] >= 0
BY Limits DEF TypeInv, TypeKept, TypeOK

\* A timer that is reset is in range.
LEMMA Zero ==
  /\ 0 \in 0..(ConnectingTimeout + MaintenanceInterval - 1)
  /\ 0 \in 0..(ReceiveTimeout + MaintenanceInterval - 1)
BY Limits

\* Types at the start.
LEMMA TypeInit == Init => TypeInv
<1> SUFFICES ASSUME Init PROVE TypeInv
  OBVIOUS
<1>1. PICK c \in Conns :
        /\ allocated = {c} /\ mClients = {c} /\ accepting = c
        /\ mName = [x \in Conns |-> Unknown]
        /\ mConnectionState = [x \in Conns |-> "Idle"]
        /\ mConnectingTime = [x \in Conns |-> 0]
        /\ mLastFrameTime = [x \in Conns |-> 0]
        /\ peer = [x \in Conns |-> "none"]
        /\ io = "idle" /\ ioConn = NoConn
        /\ maintenance = "sleep" /\ todo = {} /\ deletedClients = {}
        /\ deletedClient = NoConn /\ clientStillConnected = FALSE
        /\ told = {} /\ late = {} /\ spurious = FALSE
  BY DEF Init
<1>2. TypeOK
  BY <1>1, Zero DEF TypeOK, AllNames
<1>3. Timers /\ Rounds /\ Inside
  BY <1>1, Limits DEF Timers, Rounds, Inside, Handling
<1>4. QED
  BY <1>2, <1>3 DEF TypeInv, TypeKept

\* The io thread is in a client whenever it works on one.
LEMMA InsideStep == TypeOK /\ Inside /\ [Next]_vars => Inside'
<1> SUFFICES ASSUME TypeOK, Inside, [Next]_vars PROVE Inside'
  OBVIOUS
<1>1. ASSUME UNCHANGED <<io, ioConn>> PROVE Inside'
  BY <1>1 DEF Inside, Handling
<1>2. ASSUME NEW c \in Conns, newClient(c) \/ handleRead(c) \/ socketClosed(c)
      PROVE  Inside'
  BY <1>2, ServerAssumption DEF newClient, handleRead, socketClosed, IoStep, Inside,
     Handling
<1>3. ASSUME \/ handleAccept \/ acceptFails \/ start \/ connect \/ clientAuthenticated
             \/ receiveObject \/ broadcast \/ \E n \in Names : receiveName(n)
      PROVE  Inside'
  BY <1>3 DEF handleAccept, acceptFails, start, connect, clientAuthenticated,
     receiveObject, broadcast, receiveName, IoStep, Inside, Handling
<1>4. ASSUME NEW c \in Conns, isInactive(c) \/ nextDeleted(c)
      PROVE  UNCHANGED <<io, ioConn>>
  BY <1>4 DEF isInactive, nextDeleted, MaintenanceStep
<1>5. ASSUME NEW c \in Conns, NEW how, PeerLeaves(c, how) PROVE UNCHANGED <<io, ioConn>>
  BY <1>5 DEF PeerLeaves
<1>6. ASSUME wakeUp \/ roundEnds \/ deleteClient PROVE UNCHANGED <<io, ioConn>>
  BY <1>6 DEF wakeUp, roundEnds, deleteClient, MaintenanceStep
<1>7. UNCHANGED vars => UNCHANGED <<io, ioConn>>
  BY DEF vars
<1>8. QED
  BY <1>1, <1>2, <1>3, <1>4, <1>5, <1>6, <1>7 DEF Next, IoNext, MaintenanceNext

\* Every step keeps the types, the timers below their limits between rounds.
LEMMA TypeStep == TypeInv /\ [Next]_vars => TypeInv'
<1> SUFFICES ASSUME TypeInv, [Next]_vars PROVE TypeKept'
  BY InsideStep DEF TypeInv, TypeKept
<1> TypeOK /\ Timers /\ Rounds /\ Inside
  BY DEF TypeInv, TypeKept
<1> USE DEF TypeKept
<1>1. ASSUME NEW c \in Conns, NEW how \in {"closed", "reset", "silent"}, PeerLeaves(c, how)
      PROVE  TypeKept'
  BY <1>1 DEF PeerLeaves, TypeOK, Timers, Rounds, connection, locals, listeners
<1>2. ASSUME handleAccept PROVE TypeKept'
  BY <1>2 DEF handleAccept, IoStep, TypeOK, Timers, Rounds, locals, listeners
<1>3. ASSUME acceptFails \/ start \/ broadcast PROVE TypeKept'
  BY <1>3 DEF acceptFails, start, broadcast, IoStep, TypeOK, Timers, Rounds, connection,
     locals, listeners
<1>4. ASSUME NEW c \in Conns, newClient(c) PROVE TypeKept'
  <2>1. TypeOK'
    BY <1>4, Zero DEF newClient, IoStep, TypeOK, locals, listeners, AllNames, ServerFree,
       Rounds
  <2>2. Timers'
    BY <1>4, Limits DEF newClient, Timers, TypeOK
  <2>3. Rounds'
    BY <1>4 DEF newClient, IoStep, Rounds, locals
  <2>4. QED
    BY <2>1, <2>2, <2>3
<1>5. ASSUME NEW c \in Conns, handleRead(c) PROVE TypeKept'
  BY <1>5 DEF handleRead, IoStep, TypeOK, Timers, Rounds, connection, locals, listeners
<1>6. ASSUME NEW n \in Names, receiveName(n) PROVE TypeKept'
  <2>1. mName' \in [Conns -> AllNames]
    BY <1>6 DEF receiveName, TypeOK, AllNames
  <2>2. QED
    BY <1>6, <2>1 DEF receiveName, IoStep, TypeOK, Timers, Rounds, locals, listeners
<1>7. ASSUME connect PROVE TypeKept'
  <2>1. TypeOK'
    BY <1>7, Zero DEF connect, IoStep, TypeOK, locals, listeners
  <2>2. Timers'
    BY <1>7, Limits DEF connect, Timers, TypeOK
  <2>3. Rounds'
    BY <1>7 DEF connect, IoStep, Rounds, locals
  <2>4. QED
    BY <2>1, <2>2, <2>3
<1>8. ASSUME clientAuthenticated PROVE TypeKept'
  <2>0. mName[ioConn] \in AllNames
    BY <1>8 DEF clientAuthenticated, IoStep, Inside, Handling, TypeOK
  <2>1. /\ told' \subseteq AllNames /\ late' \subseteq told' /\ spurious' \in BOOLEAN
    BY <1>8, <2>0 DEF clientAuthenticated, TypeOK, listeners
  <2>2. QED
    BY <1>8, <2>1 DEF clientAuthenticated, IoStep, TypeOK, Timers, Rounds, connection,
       locals
<1>9. ASSUME receiveObject PROVE TypeKept'
  <2>1. TypeOK'
    BY <1>9, Zero DEF receiveObject, IoStep, TypeOK, locals, listeners
  <2>2. Timers'
    BY <1>9, Limits DEF receiveObject, Timers, TypeOK
  <2>3. Rounds'
    BY <1>9 DEF receiveObject, IoStep, Rounds, locals
  <2>4. QED
    BY <2>1, <2>2, <2>3
<1>10. ASSUME NEW c \in Conns, socketClosed(c) PROVE TypeKept'
  BY <1>10 DEF socketClosed, IoStep, TypeOK, Timers, Rounds, locals, listeners
<1>11. ASSUME wakeUp PROVE TypeKept'
  BY <1>11 DEF wakeUp, MaintenanceStep, TypeOK, Timers, Rounds, listeners
<1>12. ASSUME NEW c \in Conns, isInactive(c) PROVE TypeKept'
  <2>1. c \in mClients
    BY <1>12 DEF isInactive, TypeOK
  <2>2. /\ mConnectingTime[c] \in Int /\ mConnectingTime[c] >= 0
        /\ mLastFrameTime[c] \in Int /\ mLastFrameTime[c] >= 0
        /\ mConnectingTime[c] < ConnectingTimeout /\ mLastFrameTime[c] < ReceiveTimeout
    BY <2>1, TimerValues DEF Timers, TypeInv, TypeKept
  <2>3. /\ mConnectingTime' = [mConnectingTime EXCEPT ![c] =
             IF mConnectionState[c] = "Connecting" THEN @ + MaintenanceInterval ELSE @]
        /\ mLastFrameTime' = [mLastFrameTime EXCEPT ![c] =
             IF mConnectionState[c] = "Connected" THEN @ + MaintenanceInterval ELSE @]
    BY <1>12 DEF isInactive
  <2>4. /\ mConnectingTime[c] + MaintenanceInterval
             \in 0..(ConnectingTimeout + MaintenanceInterval - 1)
        /\ mLastFrameTime[c] + MaintenanceInterval
             \in 0..(ReceiveTimeout + MaintenanceInterval - 1)
    BY <2>2, Limits
  <2>5. /\ mConnectingTime' \in [Conns -> 0..(ConnectingTimeout + MaintenanceInterval - 1)]
        /\ mLastFrameTime' \in [Conns -> 0..(ReceiveTimeout + MaintenanceInterval - 1)]
    BY <2>3, <2>4 DEF TypeOK
  <2>6. /\ mClients' = IF Inactive(c) THEN mClients \ {c} ELSE mClients
        /\ deletedClients' = IF Inactive(c) THEN deletedClients \cup {c} ELSE deletedClients
        /\ maintenance = "scan" /\ maintenance' = "scan" /\ todo' = todo \ {c}
    BY <1>12 DEF isInactive, MaintenanceStep, QueuedForDeletion
  <2>7. deletedClient' = NoConn /\ deletedClient = NoConn
    BY <1>12, <2>6 DEF isInactive, Rounds
  <2>8. /\ UNCHANGED <<allocated, mName, mConnectionState, peer, accepting, io, ioConn>>
        /\ UNCHANGED <<clientStillConnected, told, late, spurious>>
    BY <1>12 DEF isInactive, MaintenanceStep, listeners
  <2>9. TypeOK'
    BY <2>1, <2>5, <2>6, <2>7, <2>8 DEF TypeOK
  <2>10. Timers'
    <3> SUFFICES ASSUME NEW d \in mClients'
                 PROVE  mConnectingTime'[d] < ConnectingTimeout
                        /\ mLastFrameTime'[d] < ReceiveTimeout
      BY DEF Timers
    <3>1. CASE d # c
      BY <2>3, <2>6, <3>1 DEF Timers, TypeOK
    <3>2. CASE d = c
      <4>1. ~Inactive(c) /\ c \in Conns
        BY <2>6, <3>2
      <4>2. /\ mConnectingTime'[c] \in Int /\ mLastFrameTime'[c] \in Int
            /\ mConnectionState[c] # "Connecting" => mConnectingTime'[c] = mConnectingTime[c]
            /\ mConnectionState[c] # "Connected" => mLastFrameTime'[c] = mLastFrameTime[c]
        BY <2>2, <2>3, <2>5, Limits DEF TypeOK
      <4>3. QED
        BY <2>2, <3>2, <4>1, <4>2, Limits DEF Inactive
    <3>3. QED
      BY <3>1, <3>2
  <2>11. Rounds'
    BY <2>6, <2>7 DEF Rounds
  <2>12. QED
    BY <2>9, <2>10, <2>11
<1>13. ASSUME NEW c \in Conns, nextDeleted(c) PROVE TypeKept'
  <2>1. clientStillConnected' \in BOOLEAN
    BY <1>13, Zenon DEF nextDeleted, StillConnected
  <2>2. c # NoConn
    BY ServerAssumption
  <2>3. QED
    BY <1>13, <2>1, <2>2 DEF nextDeleted, MaintenanceStep, TypeOK, Timers, Rounds, listeners
<1>14. ASSUME deleteClient PROVE TypeKept'
  <2>1. deletedClient \in deletedClients
    BY <1>14 DEF deleteClient, MaintenanceStep, Rounds, TypeOK
  <2>2. /\ told' \subseteq AllNames /\ late' \subseteq told' /\ spurious' \in BOOLEAN
    BY <1>14 DEF deleteClient, clientDisConnected, TypeOK, listeners
  <2>3. TypeOK'
    BY <1>14, <2>1, <2>2, Zero DEF deleteClient, MaintenanceStep, TypeOK
  <2>4. Timers'
    BY <1>14, <2>1, Limits DEF deleteClient, Timers, TypeOK
  <2>5. Rounds'
    BY <1>14 DEF deleteClient, MaintenanceStep, Rounds
  <2>6. QED
    BY <2>3, <2>4, <2>5
<1>15. ASSUME roundEnds PROVE TypeKept'
  BY <1>15 DEF roundEnds, MaintenanceStep, TypeOK, Timers, Rounds, locals, listeners
<1>16. ASSUME UNCHANGED vars PROVE TypeKept'
  BY <1>16 DEF vars, TypeOK, Timers, Rounds, connection, locals, listeners
<1>17. QED
  BY <1>1, <1>2, <1>3, <1>4, <1>5, <1>6, <1>7, <1>8, <1>9, <1>10, <1>11, <1>12, <1>13,
     <1>14, <1>15, <1>16 DEF Next, IoNext, MaintenanceNext

\* Every reachable state is well typed, and no timer runs past its limit by more
\* than the interval between two rounds.
THEOREM TypeCorrect == Spec => []TypeOK
<1>1. TypeInv => TypeOK
  BY DEF TypeInv, TypeKept
<1>2. QED
  BY <1>1, TypeInit, TypeStep, PTL DEF Spec

-----------------------------------------------------------------------------
(* The acceptor's client.                                                  *)

\* No step deletes the acceptor's client, or handles a frame in it.
LEMMA AcceptStep == TypeInv /\ AcceptInv /\ [Next]_vars => AcceptInv'
<1> SUFFICES ASSUME TypeInv, AcceptInv, [Next]_vars PROVE AcceptInv'
  OBVIOUS
<1> TypeOK /\ Timers /\ Rounds /\ Inside /\ Serving /\ Waiting
  BY DEF TypeInv, TypeKept, AcceptInv
<1> USE DEF AcceptInv
<1>1. ASSUME NEW c \in Conns, NEW how \in {"closed", "reset", "silent"}, PeerLeaves(c, how)
      PROVE  AcceptInv'
  BY <1>1 DEF PeerLeaves, Serving, Waiting, Handling, connection, TypeOK
<1>2. ASSUME handleAccept PROVE AcceptInv'
  BY <1>2 DEF handleAccept, IoStep, Serving, Waiting
<1>3. ASSUME acceptFails \/ start \/ broadcast PROVE AcceptInv'
  BY <1>3 DEF acceptFails, start, broadcast, IoStep, Serving, Waiting, Handling, connection
<1>4. ASSUME NEW c \in Conns, newClient(c) PROVE AcceptInv'
  BY <1>4 DEF newClient, IoStep, Serving, Waiting, Handling, TypeOK
<1>5. ASSUME NEW c \in Conns, handleRead(c) PROVE AcceptInv'
  <2>1. c # accepting
    BY <1>5, ServerAssumption DEF handleRead, Waiting
  <2>2. QED
    BY <1>5, <2>1 DEF handleRead, IoStep, Serving, Waiting, connection
<1>6. ASSUME NEW n \in Names, receiveName(n) PROVE AcceptInv'
  BY <1>6 DEF receiveName, IoStep, Serving, Waiting, Handling
<1>7. ASSUME connect PROVE AcceptInv'
  BY <1>7 DEF connect, IoStep, Serving, Waiting, Handling, Inside, TypeOK
<1>8. ASSUME clientAuthenticated PROVE AcceptInv'
  BY <1>8 DEF clientAuthenticated, IoStep, Serving, Waiting, Handling, connection
<1>9. ASSUME receiveObject PROVE AcceptInv'
  BY <1>9 DEF receiveObject, IoStep, Serving, Waiting, Handling
<1>10. ASSUME NEW c \in Conns, socketClosed(c) PROVE AcceptInv'
  <2>1. c # accepting
    BY <1>10, ServerAssumption DEF socketClosed, Waiting
  <2>2. QED
    BY <1>10, <2>1 DEF socketClosed, IoStep, Serving, Waiting, Handling, TypeOK
<1>11. ASSUME wakeUp \/ roundEnds PROVE AcceptInv'
  BY <1>11 DEF wakeUp, roundEnds, MaintenanceStep, Serving, Waiting, Handling
<1>12. ASSUME NEW c \in Conns, isInactive(c) PROVE AcceptInv'
  <2>1. mConnectionState[c] = "Idle" => mClients' = mClients
    BY <1>12 DEF isInactive, Inactive
  <2>2. mClients' \in {mClients, mClients \ {c}}
    BY <1>12 DEF isInactive
  <2>3. accepting # NoConn => accepting \in mClients'
    BY <2>1, <2>2 DEF Waiting
  <2>4. QED
    BY <1>12, <2>3 DEF isInactive, MaintenanceStep, Serving, Waiting, Handling
<1>13. ASSUME NEW c \in Conns, nextDeleted(c) PROVE AcceptInv'
  BY <1>13 DEF nextDeleted, MaintenanceStep, Serving, Waiting, Handling
<1>14. ASSUME deleteClient PROVE AcceptInv'
  BY <1>14 DEF deleteClient, MaintenanceStep, Serving, Waiting, Handling, TypeOK
<1>15. ASSUME UNCHANGED vars PROVE AcceptInv'
  BY <1>15 DEF vars, connection, Serving, Waiting, Handling
<1>16. QED
  BY <1>1, <1>2, <1>3, <1>4, <1>5, <1>6, <1>7, <1>8, <1>9, <1>10, <1>11, <1>12, <1>13,
     <1>14, <1>15 DEF Next, IoNext, MaintenanceNext

\* However long nobody connects, the client the acceptor waits with is not
\* deleted, and stays in state Idle.
THEOREM AcceptorKept == Spec => []AcceptorClientAlive
<1>1. Init => AcceptInv
  BY DEF Init, AcceptInv, Serving, Waiting, Handling
<1>2. TypeInv /\ AcceptInv /\ [Next]_vars => TypeInv' /\ AcceptInv'
  BY TypeStep, AcceptStep
<1>3. AcceptInv => AcceptorClientAlive
  BY DEF AcceptInv, Waiting, AcceptorClientAlive
<1>4. QED
  BY <1>1, <1>2, <1>3, TypeInit, PTL DEF Spec

-----------------------------------------------------------------------------
(* Names.                                                                  *)

\* A client receives its name once, and an idle client is there meanwhile.
LEMMA NameStep ==
  ASSUME Unknown \notin Names
  PROVE  TypeInv /\ AcceptInv /\ NameInv /\ [Next]_vars => NameInv'
<1> SUFFICES ASSUME TypeInv, AcceptInv, NameInv, [Next]_vars PROVE NameInv'
  OBVIOUS
<1> TypeOK /\ Rounds /\ Inside /\ Serving /\ Waiting /\ Unnamed /\ Spare
  BY DEF TypeInv, TypeKept, AcceptInv, NameInv
<1> USE DEF NameInv
<1>1. ASSUME NEW c \in Conns, NEW how \in {"closed", "reset", "silent"}, PeerLeaves(c, how)
      PROVE  NameInv'
  BY <1>1 DEF PeerLeaves, Unnamed, Spare, Idle, Receives, connection, TypeOK
<1>2. ASSUME handleAccept PROVE NameInv'
  BY <1>2 DEF handleAccept, IoStep, Unnamed, Spare, Receives, Waiting, TypeOK
<1>3. ASSUME acceptFails \/ start \/ broadcast PROVE NameInv'
  BY <1>3 DEF acceptFails, start, broadcast, IoStep, Unnamed, Spare, Idle, Receives,
     connection
<1>4. ASSUME NEW c \in Conns, newClient(c) PROVE NameInv'
  <2>1. Unnamed'
    BY <1>4 DEF newClient, IoStep, Unnamed, Receives, TypeOK
  <2>2. c \in mClients' /\ Idle(c)'
    BY <1>4 DEF newClient, Idle, TypeOK
  <2>3. QED
    BY <2>1, <2>2 DEF Spare
<1>5. ASSUME NEW c \in Conns, handleRead(c) PROVE NameInv'
  BY <1>5 DEF handleRead, IoStep, Unnamed, Spare, Idle, Receives, connection
<1>6. ASSUME NEW n \in Names, receiveName(n) PROVE NameInv'
  <2>1. Unnamed'
    BY <1>6 DEF receiveName, IoStep, Unnamed, Receives, Inside, Handling, TypeOK
  <2>2. Spare'
    <3>1. PICK d \in mClients : Idle(d)
      BY <1>6 DEF receiveName, IoStep, Spare
    <3>2. d # ioConn /\ d \in Conns
      BY <1>6, <3>1 DEF receiveName, Idle, TypeOK
    <3>3. Idle(d)' /\ d \in mClients'
      BY <1>6, <3>1, <3>2 DEF receiveName, Idle, TypeOK
    <3>4. QED
      BY <3>3 DEF Spare
  <2>3. QED
    BY <2>1, <2>2
<1>7. ASSUME connect PROVE NameInv'
  <2>1. Unnamed'
    BY <1>7 DEF connect, IoStep, Unnamed, Receives, Serving, Inside, Handling, TypeOK
  <2>2. Spare'
    <3>1. PICK d \in mClients : Idle(d)
      BY <1>7 DEF connect, IoStep, Spare
    <3>2. d # ioConn /\ d \in Conns
      BY <1>7, <3>1 DEF connect, IoStep, Idle, Serving, TypeOK
    <3>3. Idle(d)' /\ d \in mClients'
      BY <1>7, <3>1, <3>2 DEF connect, Idle, TypeOK
    <3>4. QED
      BY <3>3 DEF Spare
  <2>3. QED
    BY <2>1, <2>2
<1>8. ASSUME clientAuthenticated \/ receiveObject PROVE NameInv'
  BY <1>8 DEF clientAuthenticated, receiveObject, IoStep, Unnamed, Spare, Idle, Receives,
     connection
<1>9. ASSUME NEW c \in Conns, socketClosed(c) PROVE NameInv'
  BY <1>9 DEF socketClosed, IoStep, Unnamed, Spare, Idle, Receives, TypeOK
<1>10. ASSUME wakeUp \/ roundEnds PROVE NameInv'
  BY <1>10 DEF wakeUp, roundEnds, MaintenanceStep, Unnamed, Spare, Idle, Receives
<1>11. ASSUME NEW c \in Conns, isInactive(c) PROVE NameInv'
  <2>1. /\ mConnectionState[c] = "Idle" => mClients' = mClients
        /\ mClients' \in {mClients, mClients \ {c}}
    BY <1>11 DEF isInactive, Inactive
  <2>2. UNCHANGED <<mName, mConnectionState, peer, io, ioConn>>
    BY <1>11 DEF isInactive, MaintenanceStep
  <2>3. QED
    BY <2>1, <2>2 DEF Unnamed, Spare, Idle, Receives
<1>12. ASSUME NEW c \in Conns, nextDeleted(c) PROVE NameInv'
  BY <1>12 DEF nextDeleted, MaintenanceStep, Unnamed, Spare, Idle, Receives
<1>13. ASSUME deleteClient PROVE NameInv'
  BY <1>13 DEF deleteClient, MaintenanceStep, Unnamed, Spare, Idle, Receives, TypeOK
<1>14. ASSUME UNCHANGED vars PROVE NameInv'
  BY <1>14 DEF vars, connection, Unnamed, Spare, Idle, Receives
<1>15. QED
  BY <1>1, <1>2, <1>3, <1>4, <1>5, <1>6, <1>7, <1>8, <1>9, <1>10, <1>11, <1>12, <1>13,
     <1>14 DEF Next, IoNext, MaintenanceNext

-----------------------------------------------------------------------------
(* What the listeners hold.                                                *)

\* Steps that change no name, no list and nothing that was told.
LEMMA ListenSame ==
  ASSUME ListenInv,
         UNCHANGED <<mClients, mName, told, late, deletedClients, deletedClient,
                     clientStillConnected, maintenance>>,
         io \in {"start", "renew", "exited"} => io' \in {"start", "renew", "exited"},
         io \in {"connect", "authenticate"} =>
           io' \in {"connect", "authenticate"} /\ ioConn' = ioConn
  PROVE  ListenInv'
<1>1. Told' /\ Live'
  BY DEF ListenInv, Told, Live, Announced
<1>2. Leaving'
  BY DEF ListenInv, Leaving
<1>3. Backed' /\ Staying'
  BY DEF ListenInv, Backed, Staying, Owed
<1>4. QED
  BY <1>1, <1>2, <1>3 DEF ListenInv

\* What the listeners were told and are about to be told agrees with the sockets.
LEMMA ListenStep ==
  ASSUME Unknown \notin Names
  PROVE  TypeInv /\ AcceptInv /\ NameInv /\ ListenInv /\ [Next]_vars => ListenInv'
<1> SUFFICES ASSUME TypeInv, AcceptInv, NameInv, ListenInv, [Next]_vars PROVE ListenInv'
  OBVIOUS
<1> /\ TypeOK /\ Rounds /\ Inside /\ Serving /\ Unnamed /\ Spare
    /\ Told /\ Live /\ Leaving /\ Backed /\ Staying
  BY DEF TypeInv, TypeKept, AcceptInv, NameInv, ListenInv
<1>1. ASSUME NEW c \in Conns, NEW how \in {"closed", "reset", "silent"}, PeerLeaves(c, how)
      PROVE  ListenInv'
  BY <1>1, ListenSame DEF PeerLeaves, connection, locals, listeners
<1>2. ASSUME handleAccept \/ acceptFails \/ start \/ receiveObject \/ broadcast
      PROVE  ListenInv'
  <2>1. UNCHANGED <<mClients, mName, told, late, deletedClients, deletedClient,
                    clientStillConnected, maintenance>>
    BY <1>2 DEF handleAccept, acceptFails, start, receiveObject, broadcast, IoStep,
       connection, locals, listeners
  <2>2. /\ io \notin {"connect", "authenticate"}
        /\ io \in {"start", "renew", "exited"} => io' \in {"start", "renew", "exited"}
    BY <1>2 DEF handleAccept, acceptFails, start, receiveObject, broadcast, IoStep
  <2>3. QED
    BY <2>1, <2>2, ListenSame
<1>3. ASSUME NEW c \in Conns, newClient(c) PROVE ListenInv'
  <2>1. /\ maintenance' = "sleep" /\ mClients' = mClients \cup {c} /\ c \notin allocated
        /\ UNCHANGED <<told, late, deletedClients>> /\ io = "renew"
        /\ mName' = [mName EXCEPT ![c] = Unknown]
    BY <1>3 DEF newClient, IoStep, ServerFree, locals, listeners
  <2>2. \A d \in mClients \cup deletedClients : mName'[d] = mName[d]
    BY <2>1 DEF TypeOK
  <2>3. Told' /\ Leaving' /\ Staying'
    BY <2>1 DEF Told, Leaving, Staying
  <2>4. Live'
    BY <2>1, <2>2 DEF Live, Announced, TypeOK
  <2>5. Backed'
    BY <2>1, <2>2 DEF Backed, Owed
  <2>6. QED
    BY <2>3, <2>4, <2>5 DEF ListenInv
<1>4. ASSUME NEW c \in Conns, handleRead(c) \/ socketClosed(c) PROVE ListenInv'
  <2>1. UNCHANGED <<mClients, mName, told, late, deletedClients, deletedClient,
                    clientStillConnected, maintenance>>
    BY <1>4 DEF handleRead, socketClosed, IoStep, connection, locals, listeners
  <2>2. io = "idle"
    BY <1>4 DEF handleRead, socketClosed, IoStep
  <2>3. QED
    BY <2>1, <2>2, ListenSame
<1>5. ASSUME NEW n \in Names, receiveName(n) PROVE ListenInv'
  <2>1. /\ UNCHANGED <<mClients, told, late, deletedClients, deletedClient,
                       clientStillConnected, maintenance>>
        /\ io = "frame" /\ io' = "connect" /\ ioConn' = ioConn
        /\ mName' = [mName EXCEPT ![ioConn] = n]
        /\ mConnectionState[ioConn] = "Connecting" /\ n # Unknown
    BY <1>5 DEF receiveName, IoStep, locals, listeners
  <2>2. ioConn \in Conns /\ mName[ioConn] = Unknown
    BY <2>1 DEF Inside, Handling, Unnamed, Receives, TypeOK
  <2>3. \A d \in Conns : mName'[d] = IF d = ioConn THEN n ELSE mName[d]
    BY <2>1 DEF TypeOK
  <2>4. mClients \subseteq Conns /\ deletedClients \subseteq Conns
    BY DEF TypeOK
  <2>5. maintenance = "notify" => deletedClient \in deletedClients
    BY DEF TypeOK, Rounds
  <2>6. Told'
    BY <2>1 DEF Told
  <2>7. Live'
    BY <2>1, <2>3, <2>4 DEF Live, Announced
  <2>8. Leaving'
    BY <2>1, <2>2, <2>3, <2>4, <2>5 DEF Leaving
  <2>9. Backed'
    BY <2>1, <2>2, <2>3, <2>4 DEF Backed, Owed, Told
  <2>10. Staying'
    <3> SUFFICES ASSUME maintenance = "notify", clientStillConnected,
                        Owed(mName'[deletedClient])
                 PROVE  \E w \in (mClients \cup deletedClients) \ {deletedClient} :
                          mName'[w] = mName'[deletedClient]
      BY <2>1 DEF Staying, Owed
    <3>1. mName'[deletedClient] # Unknown
      BY DEF Owed, Told
    <3>2. CASE deletedClient = ioConn
      <4>1. mName'[deletedClient] = n /\ n \in AllNames
        BY <2>2, <2>3, <3>2 DEF AllNames
      <4>2. PICK w \in mClients \cup deletedClients : mName[w] = n
        BY <4>1 DEF Backed
      <4>3. w # deletedClient /\ w \in Conns
        BY <2>1, <2>2, <2>4, <3>2, <4>2
      <4>4. QED
        BY <2>3, <3>2, <4>1, <4>2, <4>3
    <3>3. CASE deletedClient # ioConn
      <4>1. mName'[deletedClient] = mName[deletedClient]
        BY <2>3, <2>4, <2>5, <3>3
      <4>2. PICK w \in (mClients \cup deletedClients) \ {deletedClient} :
              mName[w] = mName[deletedClient]
        BY <4>1 DEF Staying
      <4>3. w # ioConn /\ w \in Conns
        BY <2>2, <2>4, <3>1, <4>1, <4>2
      <4>4. QED
        BY <2>3, <4>1, <4>2, <4>3
    <3>4. QED
      BY <3>2, <3>3
  <2>11. QED
    BY <2>6, <2>7, <2>8, <2>9, <2>10 DEF ListenInv
<1>6. ASSUME connect PROVE ListenInv'
  <2>1. UNCHANGED <<mClients, mName, told, late, deletedClients, deletedClient,
                    clientStillConnected, maintenance>>
    BY <1>6 DEF connect, IoStep, locals, listeners
  <2>2. io = "connect" /\ io' = "authenticate" /\ ioConn' = ioConn
    BY <1>6 DEF connect, IoStep
  <2>3. QED
    BY <2>1, <2>2, ListenSame
<1>7. ASSUME clientAuthenticated PROVE ListenInv'
  <2> DEFINE n == mName[ioConn]
  <2>1. /\ UNCHANGED <<mClients, mName, deletedClients, maintenance>>
        /\ maintenance = "sleep" /\ io = "authenticate"
    BY <1>7 DEF clientAuthenticated, IoStep, ServerFree, connection, locals
  <2>2. n # Unknown
    BY <2>1 DEF Unnamed, Receives, Serving, Inside, Handling, TypeOK
  <2>3. Leaving' /\ Staying'
    BY <2>1 DEF Leaving, Staying
  <2>4. CASE WasAlreadyConnected(ioConn)
    <3>1. UNCHANGED <<told, late>>
      BY <1>7, <2>4 DEF clientAuthenticated, listeners
    <3>2. PICK d \in mClients \ {ioConn} : mName[d] = n
      BY <2>4 DEF WasAlreadyConnected
    <3>3. n # NoName => n \in told
      BY <2>2, <3>2 DEF Live, Announced
    <3>4. Live'
      BY <2>1, <3>1, <3>3 DEF Live, Announced
    <3>5. Told' /\ Backed'
      BY <2>1, <3>1 DEF Told, Backed, Owed
    <3>6. QED
      BY <2>3, <3>4, <3>5 DEF ListenInv
  <2>5. CASE ~WasAlreadyConnected(ioConn)
    <3>1. /\ told' = told \cup {n}
          /\ late' = IF ioConn \in mClients THEN late \ {n} ELSE late \cup {n}
      BY <1>7, <2>5 DEF clientAuthenticated
    <3>2. Told'
      BY <2>2, <3>1 DEF Told
    <3>3. Live'
      BY <2>1, <3>1 DEF Live, Announced
    <3>4. Backed'
      BY <2>1, <3>1 DEF Backed, Owed
    <3>5. QED
      BY <2>3, <3>2, <3>3, <3>4 DEF ListenInv
  <2>6. QED
    BY <2>4, <2>5
<1>8. ASSUME wakeUp \/ roundEnds PROVE ListenInv'
  <2>1. /\ UNCHANGED <<mClients, mName, io, ioConn, told, late, deletedClients>>
        /\ maintenance' # "notify"
    BY <1>8 DEF wakeUp, roundEnds, MaintenanceStep, locals, listeners
  <2>2. QED
    BY <2>1 DEF ListenInv, Told, Live, Announced, Leaving, Backed, Staying, Owed
<1>9. ASSUME NEW c \in Conns, isInactive(c) PROVE ListenInv'
  <2>1. /\ UNCHANGED <<mName, io, ioConn, told, late>> /\ maintenance' # "notify"
        /\ mClients' \subseteq mClients
        /\ mClients' \cup deletedClients' = mClients \cup deletedClients
    BY <1>9 DEF isInactive, MaintenanceStep, QueuedForDeletion, listeners, TypeOK
  <2>2. QED
    BY <2>1 DEF ListenInv, Told, Live, Announced, Leaving, Backed, Staying, Owed
<1>10. ASSUME NEW c \in Conns, nextDeleted(c) PROVE ListenInv'
  <2>1. /\ UNCHANGED <<mClients, mName, io, ioConn, told, late, deletedClients>>
        /\ deletedClient' = c /\ c \in deletedClients /\ c \notin mClients
        /\ clientStillConnected' = \E d \in mClients : mName[d] = mName[c]
    BY <1>10 DEF nextDeleted, MaintenanceStep, StillConnected, listeners, TypeOK
  <2>2. Told' /\ Live' /\ Backed'
    BY <2>1 DEF Told, Live, Announced, Backed, Owed
  <2>3. Leaving'
    BY <2>1 DEF Leaving, Spare, Idle
  <2>4. Staying'
    BY <2>1 DEF Staying
  <2>5. QED
    BY <2>2, <2>3, <2>4 DEF ListenInv
<1>11. ASSUME deleteClient PROVE ListenInv'
  <2> DEFINE n == mName[deletedClient]
             leaves == ~clientStillConnected /\ n \notin {Unknown, NoName}
  <2>1. /\ UNCHANGED <<mClients, mName, io, ioConn>>
        /\ maintenance = "notify" /\ maintenance' = "scan"
        /\ deletedClients' = deletedClients \ {deletedClient}
        /\ IF leaves THEN told' = told \ {n} /\ late' = late \ {n}
           ELSE UNCHANGED <<told, late>>
    BY <1>11 DEF deleteClient, MaintenanceStep, clientDisConnected, listeners
  <2>2. Told' /\ Leaving' /\ Staying'
    BY <2>1 DEF Told, Leaving, Staying
  <2>3. Live'
    BY <2>1 DEF Live, Announced, Leaving
  <2>4. Backed'
    <3> SUFFICES ASSUME NEW m \in AllNames, Owed(m)'
                 PROVE  \E w \in mClients' \cup deletedClients' : mName'[w] = m
      BY DEF Backed
    <3>1. Owed(m) /\ (leaves => m # n)
      BY <2>1 DEF Owed
    <3>2. PICK w \in mClients \cup deletedClients : mName[w] = m
      BY <3>1 DEF Backed
    <3>3. CASE w # deletedClient
      BY <2>1, <3>2, <3>3
    <3>4. CASE w = deletedClient
      <4>1. m = n /\ ~leaves
        BY <3>1, <3>2, <3>4
      <4>2. n \notin {Unknown, NoName}
        BY <3>1, <4>1 DEF Owed, Told
      <4>3. clientStillConnected
        BY <4>1, <4>2
      <4>4. PICK v \in (mClients \cup deletedClients) \ {deletedClient} : mName[v] = n
        BY <2>1, <3>1, <4>1, <4>3 DEF Staying
      <4>5. QED
        BY <2>1, <4>1, <4>4
    <3>5. QED
      BY <3>3, <3>4
  <2>5. QED
    BY <2>2, <2>3, <2>4 DEF ListenInv
<1>12. ASSUME UNCHANGED vars PROVE ListenInv'
  BY <1>12, ListenSame DEF vars, connection, locals, listeners
<1>13. QED
  BY <1>1, <1>2, <1>3, <1>4, <1>5, <1>6, <1>7, <1>8, <1>9, <1>10, <1>11, <1>12
     DEF Next, IoNext, MaintenanceNext

\* The four parts together are inductive.
LEMMA Invariance ==
  ASSUME Unknown \notin Names
  PROVE  Spec => [](TypeInv /\ AcceptInv /\ NameInv /\ ListenInv)
<1>1. Init => AcceptInv /\ NameInv
  BY DEF Init, AcceptInv, Serving, Waiting, Handling, NameInv, Unnamed, Spare, Idle,
     Receives
<1>2. Init => ListenInv
  BY DEF Init, ListenInv, Told, Live, Announced, Leaving, Backed, Owed, Staying
<1>3. TypeInv /\ AcceptInv /\ NameInv /\ ListenInv /\ [Next]_vars
        => TypeInv' /\ AcceptInv' /\ NameInv' /\ ListenInv'
  BY TypeStep, AcceptStep, NameStep, ListenStep
<1>4. QED
  BY <1>1, <1>2, <1>3, TypeInit, PTL DEF Spec

\* As long as no peer calls itself "Unknown", a client in the list that has
\* finished its handshake is one the listeners hold for connected.
THEOREM LiveAreConnected == ASSUME Unknown \notin Names PROVE Spec => []LiveIsConnected
<1>1. TypeInv /\ AcceptInv /\ NameInv /\ ListenInv => LiveIsConnected
  <2> SUFFICES ASSUME TypeInv, AcceptInv, NameInv, ListenInv, NEW c \in mClients,
                      mConnectionState[c] = "Connected", mName[c] # NoName
               PROVE  mName[c] \in told \/ (io = "authenticate" /\ ioConn = c)
    BY DEF LiveIsConnected
  <2>1. ~Receives(c)
    BY DEF Receives, AcceptInv, Serving
  <2>2. mName[c] # Unknown
    BY DEF NameInv, Unnamed, TypeInv, TypeKept, TypeOK
  <2>3. QED
    BY <2>1, <2>2 DEF ListenInv, Live, Announced, Receives
<1>2. QED
  BY <1>1, Invariance, PTL

\* As long as no peer calls itself "Unknown", every name that the listeners hold for
\* connected between two rounds has a client in the list, if it is not the empty name
\* and was not announced by a client that had been deleted: the last client of a name
\* to be reaped takes it back, whatever handshakes run beside the round.
THEOREM ReapedNamesTakenBack == ASSUME Unknown \notin Names PROVE Spec => []ReapedIsTakenBack
<1>1. TypeInv /\ ListenInv => ReapedIsTakenBack
  BY DEF TypeInv, TypeKept, TypeOK, Rounds, ListenInv, Backed, Owed, ReapedIsTakenBack,
     ServerFree
<1>2. QED
  BY <1>1, Invariance, PTL

-----------------------------------------------------------------------------
(* Presence.                                                               *)

\* A step that leaves a session as it was or ends it.
LEMMA SessionLeaves ==
  ASSUME NEW c \in Conns, UNCHANGED told,
         \A d \in Conns \ {c} : Sessions'[d] = Sessions[d],
         Sessions'[c] \in {NoName, Sessions[c]}
  PROVE  [Present!Next]_<<Sessions, told \ {NoName}>>
<1>1. CASE Sessions'[c] = NoName
  <2>1. Sessions' = [Sessions EXCEPT ![c] = NoName]
    BY <1>1 DEF Sessions
  <2>2. Present!leave(c)
    BY <2>1 DEF Present!leave
  <2>3. QED
    BY <2>2 DEF Present!Next
<1>2. CASE Sessions'[c] = Sessions[c]
  <2>1. Sessions' = Sessions
    BY <1>2 DEF Sessions
  <2>2. QED
    BY <2>1
<1>3. QED
  BY <1>1, <1>2

\* What is told is told of a session that begins, or that was given up meanwhile.
LEMMA HandshakeTells ==
  ASSUME TypeInv, AcceptInv, NameInv, ListenInv, clientAuthenticated
  PROVE  [Present!Next]_<<Sessions, told \ {NoName}>>
<1> DEFINE n == mName[ioConn]
<1> TypeOK /\ Inside /\ Serving /\ Unnamed /\ Live
  BY DEF TypeInv, TypeKept, AcceptInv, NameInv, ListenInv
<1>1. /\ io = "authenticate" /\ io' = "idle" /\ ioConn \in Conns
      /\ UNCHANGED <<mClients, mName, mConnectionState>>
  BY DEF clientAuthenticated, IoStep, connection, Inside, Handling, TypeOK
<1>2. mConnectionState[ioConn] = "Connected" /\ n # Unknown /\ n \in AllNames
  BY <1>1 DEF Serving, Unnamed, Receives, TypeOK
<1>3. /\ told' = IF WasAlreadyConnected(ioConn) THEN told ELSE told \cup {n}
      /\ n # NoName => told' = told \cup {n}
  <2>1. told' = IF WasAlreadyConnected(ioConn) THEN told ELSE told \cup {n}
    BY DEF clientAuthenticated, listeners
  <2>2. ASSUME n # NoName, WasAlreadyConnected(ioConn) PROVE n \in told
    BY <1>2, <2>2 DEF WasAlreadyConnected, Live, Announced
  <2>3. QED
    BY <2>1, <2>2
<1>4. /\ \A d \in Conns \ {ioConn} : Sessions'[d] = Sessions[d]
      /\ Sessions[ioConn] = NoName
      /\ Sessions'[ioConn] = IF ioConn \in mClients THEN n ELSE NoName
  BY <1>1, <1>2 DEF Sessions, Authenticated
<1>5. CASE n = NoName
  <2>1. Sessions' = Sessions
    BY <1>4, <1>5 DEF Sessions
  <2>2. told' \ {NoName} = told \ {NoName}
    BY <1>3, <1>5
  <2>3. QED
    BY <2>1, <2>2
<1>6. CASE n # NoName
  <2>1. n \in Names \ {NoName} /\ told' \ {NoName} = (told \ {NoName}) \cup {n}
    BY <1>2, <1>3, <1>6 DEF AllNames
  <2>2. CASE ioConn \in mClients
    <3>1. Sessions' = [Sessions EXCEPT ![ioConn] = n]
      BY <1>1, <1>4, <2>2 DEF Sessions
    <3>2. Present!join(ioConn, n)
      BY <1>4, <2>1, <3>1 DEF Present!join
    <3>3. QED
      BY <1>1, <2>1, <3>2 DEF Present!Next
  <2>3. CASE ioConn \notin mClients
    <3>1. Sessions' = Sessions
      BY <1>4, <2>3 DEF Sessions
    <3>2. Present!joinLate(n)
      BY <2>1, <3>1 DEF Present!joinLate
    <3>3. QED
      BY <2>1, <3>2 DEF Present!Next
  <2>4. QED
    BY <2>2, <2>3
<1>7. QED
  BY <1>5, <1>6

\* A name is taken back when no session has it, whatever name the deleted client
\* has by then.
LEMMA RoundForgets ==
  ASSUME TypeInv, AcceptInv, ListenInv, deleteClient
  PROVE  [Present!Next]_<<Sessions, told \ {NoName}>>
<1> DEFINE n == mName[deletedClient]
<1> TypeOK /\ Rounds /\ Serving /\ Leaving
  BY DEF TypeInv, TypeKept, AcceptInv, ListenInv
<1>1. Sessions' = Sessions
  BY DEF deleteClient, MaintenanceStep, Sessions, Authenticated
<1>2. CASE ~clientStillConnected /\ n \notin {Unknown, NoName}
  <2>1. told' = told \ {n}
    BY <1>2 DEF deleteClient, clientDisConnected
  <2>2. deletedClient \in Conns /\ n \in Names \ {NoName}
    BY <1>2 DEF deleteClient, MaintenanceStep, Rounds, TypeOK, AllNames
  <2>3. \A c \in Conns : Sessions[c] # n
    <3>1. \A c \in mClients : mName[c] = n => ioConn = c /\ io \in {"connect", "authenticate"}
      BY <1>2 DEF deleteClient, MaintenanceStep, Leaving
    <3>2. \A c \in Conns : Authenticated(c) => mName[c] # n
      BY <3>1 DEF Authenticated, Serving
    <3>3. QED
      BY <1>2, <3>2 DEF Sessions
  <2>4. Present!forget(n)
    BY <1>1, <2>1, <2>3 DEF Present!forget
  <2>5. QED
    BY <2>2, <2>4 DEF Present!Next
<1>3. CASE ~(~clientStillConnected /\ n \notin {Unknown, NoName})
  <2>1. UNCHANGED told
    BY <1>3 DEF deleteClient, listeners
  <2>2. QED
    BY <1>1, <2>1
<1>4. QED
  BY <1>2, <1>3

\* Every step of the two threads is one of Presence, or the listeners and the
\* sessions do not see it.
LEMMA PresenceStep ==
  ASSUME TypeInv, AcceptInv, NameInv, ListenInv, [Next]_vars
  PROVE  [Present!Next]_<<Sessions, told \ {NoName}>>
<1> TypeOK /\ Inside /\ Serving
  BY DEF TypeInv, TypeKept, AcceptInv
<1>1. ASSUME NEW c \in Conns, NEW how \in {"closed", "reset", "silent"}, PeerLeaves(c, how)
      PROVE  UNCHANGED <<Sessions, told>>
  BY <1>1 DEF PeerLeaves, connection, listeners, Sessions, Authenticated
<1>2. ASSUME handleAccept PROVE UNCHANGED <<Sessions, told>>
  <2>1. accepting \in Conns /\ mConnectionState[accepting] # "Connected"
    BY <1>2 DEF handleAccept, AcceptInv, Waiting, TypeOK
  <2>2. QED
    BY <1>2, <2>1 DEF handleAccept, IoStep, listeners, Sessions, Authenticated, TypeOK
<1>3. ASSUME acceptFails \/ start \/ receiveObject \/ broadcast
      PROVE  UNCHANGED <<Sessions, told>>
  BY <1>3 DEF acceptFails, start, receiveObject, broadcast, IoStep, connection, listeners,
     Sessions, Authenticated
<1>4. ASSUME NEW c \in Conns, newClient(c) PROVE UNCHANGED <<Sessions, told>>
  BY <1>4 DEF newClient, IoStep, listeners, Sessions, Authenticated, TypeOK
<1>5. ASSUME NEW c \in Conns, handleRead(c) PROVE UNCHANGED <<Sessions, told>>
  BY <1>5 DEF handleRead, IoStep, connection, listeners, Sessions, Authenticated
<1>6. ASSUME NEW n \in Names, receiveName(n) PROVE UNCHANGED <<Sessions, told>>
  <2>1. ioConn \in Conns /\ mConnectionState[ioConn] # "Connected"
    BY <1>6 DEF receiveName, IoStep, Inside, Handling, TypeOK
  <2>2. QED
    BY <1>6, <2>1 DEF receiveName, IoStep, listeners, Sessions, Authenticated, TypeOK
<1>7. ASSUME connect PROVE UNCHANGED <<Sessions, told>>
  <2>1. ioConn \in Conns /\ mConnectionState[ioConn] # "Connected"
    BY <1>7 DEF connect, IoStep, Inside, Serving, Handling, TypeOK
  <2>2. QED
    BY <1>7, <2>1 DEF connect, IoStep, listeners, Sessions, Authenticated, TypeOK
<1>8. ASSUME NEW c \in Conns, socketClosed(c)
      PROVE  [Present!Next]_<<Sessions, told \ {NoName}>>
  <2>1. /\ UNCHANGED told /\ \A d \in Conns \ {c} : Sessions'[d] = Sessions[d]
        /\ Sessions'[c] = NoName
    BY <1>8 DEF socketClosed, IoStep, listeners, Sessions, Authenticated, TypeOK
  <2>2. QED
    BY <2>1, SessionLeaves
<1>9. ASSUME wakeUp \/ roundEnds PROVE UNCHANGED <<Sessions, told>>
  BY <1>9 DEF wakeUp, roundEnds, MaintenanceStep, listeners, Sessions, Authenticated
<1>10. ASSUME NEW c \in Conns, isInactive(c)
       PROVE  [Present!Next]_<<Sessions, told \ {NoName}>>
  <2>1. /\ mClients' \in {mClients, mClients \ {c}}
        /\ UNCHANGED <<mName, mConnectionState, io, ioConn, told>>
    BY <1>10 DEF isInactive, MaintenanceStep, listeners
  <2>2. /\ \A d \in Conns \ {c} : Sessions'[d] = Sessions[d]
        /\ Sessions'[c] \in {NoName, Sessions[c]}
    BY <2>1 DEF Sessions, Authenticated
  <2>3. QED
    BY <2>1, <2>2, SessionLeaves
<1>11. ASSUME NEW c \in Conns, nextDeleted(c) PROVE UNCHANGED <<Sessions, told>>
  BY <1>11 DEF nextDeleted, MaintenanceStep, listeners, Sessions, Authenticated
<1>12. ASSUME UNCHANGED vars PROVE UNCHANGED <<Sessions, told>>
  BY <1>12 DEF vars, connection, listeners, Sessions, Authenticated
<1>13. UNCHANGED <<Sessions, told>> => [Present!Next]_<<Sessions, told \ {NoName}>>
  OBVIOUS
<1>14. QED
  BY <1>1, <1>2, <1>3, <1>4, <1>5, <1>6, <1>7, <1>8, <1>9, <1>10, <1>11, <1>12, <1>13,
     HandshakeTells, RoundForgets DEF Next, IoNext, MaintenanceNext

\* If no peer calls itself "Unknown", the listeners see Presence: no session
\* begins untold, and no name is taken back that has one, however handshakes and
\* rounds of the maintenance thread interleave.
THEOREM ServerIsPresence ==
  ASSUME Unknown \notin Names
  PROVE  Spec => ImplementsPresence
<1>1. Init => Present!Init
  BY DEF Init, Present!Init, Sessions, Authenticated
<1>2. TypeInv /\ AcceptInv /\ NameInv /\ ListenInv /\ [Next]_vars
        => [Present!Next]_<<Sessions, told \ {NoName}>>
  BY PresenceStep
<1>3. QED
  BY <1>1, <1>2, Invariance, PTL DEF Spec, ImplementsPresence, Present!Spec

\* Presence alone keeps the name of every session told, which is what CommRouter,
\* ObjectWriter and AdminController take a connected client to be.
THEOREM SessionsAreTold ==
  Present!Spec => [](\A c \in Conns : Sessions[c] # NoName => Sessions[c] \in told)
<1> DEFINE AllTold == \A c \in Conns : Sessions[c] # NoName => Sessions[c] \in told
<1>1. Present!Init => AllTold
  BY DEF Present!Init
<1>2. AllTold /\ [Present!Next]_<<Sessions, told \ {NoName}>> => AllTold'
  <2> SUFFICES ASSUME AllTold, [Present!Next]_<<Sessions, told \ {NoName}>>,
                      NEW c \in Conns, Sessions'[c] # NoName
               PROVE  Sessions'[c] \in told' \ {NoName}
    OBVIOUS
  <2>1. Sessions[c] # NoName => Sessions[c] \in told \ {NoName}
    OBVIOUS
  <2>2. ASSUME NEW d \in Conns, Present!leave(d) PROVE Sessions'[c] \in told' \ {NoName}
    BY <2>1, <2>2 DEF Present!leave, Sessions
  <2>3. ASSUME NEW d \in Conns, NEW n \in Names \ {NoName}, Present!join(d, n)
        PROVE  Sessions'[c] \in told' \ {NoName}
    BY <2>1, <2>3 DEF Present!join, Sessions
  <2>4. ASSUME NEW n \in Names \ {NoName}, Present!joinLate(n) \/ Present!forget(n)
        PROVE  Sessions'[c] \in told' \ {NoName}
    BY <2>1, <2>4 DEF Present!joinLate, Present!forget
  <2>5. CASE UNCHANGED <<Sessions, told \ {NoName}>>
    BY <2>1, <2>5
  <2>6. QED
    BY <2>2, <2>3, <2>4, <2>5 DEF Present!Next
<1>3. QED
  BY <1>1, <1>2, PTL DEF Present!Spec

=============================================================================
