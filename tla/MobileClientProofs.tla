------------------------- MODULE MobileClientProofs -------------------------
(***************************************************************************)
(* MobileClient, for any times and any number of events: the variables     *)
(* keep their types, no object is left in the queue of a connected client, *)
(* the server does not time out a client that is well, and the interval on *)
(* its way to the phone is the one the server has on record.               *)
(*                                                                         *)
(* Only the last is inductive.  That no object is left rests on which      *)
(* callback is still to come (Noticed).  The counter of keepalives is      *)
(* bounded by how many are on their way, in both directions and over a     *)
(* change of sockets (Counted, Fresh).  The clocks of the two ends are     *)
(* bound to each other by what the server may have counted since the phone *)
(* last sent something (Heard), and the times of the system have to leave  *)
(* room for the longest such silence (Patience).                           *)
(***************************************************************************)
EXTENDS MobileClient, FiniteSetTheorems, SequenceTheorems, TLAPS

-----------------------------------------------------------------------------
(* What the network carries, and how many keepalives are in it.            *)

Messages ==
  ({"name", "servername", "keepalive", "object"} \X {0}) \cup ({"interval"} \X Intervals)

Indices(s) == {i \in 1..Len(s) : Kind(s[i]) = "keepalive"}
Count(s) == Cardinality(Indices(s))
InFlight == Count(up) + Count(down)

\* A queue holds a finite number of keepalives, none if it is empty.
LEMMA CountIsNat ==
  ASSUME NEW s \in Seq(Messages)
  PROVE  Count(s) \in Nat /\ IsFiniteSet(Indices(s)) /\ (s = <<>> => Count(s) = 0)
<1>1. IsFiniteSet(1..Len(s)) BY FS_Interval, LenProperties
<1>2. Indices(s) \in SUBSET (1..Len(s)) BY DEF Indices
<1>3. IsFiniteSet(Indices(s)) BY <1>1, <1>2, FS_Subset
<1>4. s = <<>> => Indices(s) = {} BY DEF Indices
<1>. QED BY <1>3, <1>4, FS_CardinalityType, FS_EmptySet DEF Count

\* A message that is added counts if it is a keepalive.
LEMMA CountAppend ==
  ASSUME NEW s \in Seq(Messages), NEW x \in Messages
  PROVE  Count(Append(s, x)) = Count(s) + IF Kind(x) = "keepalive" THEN 1 ELSE 0
<1>. DEFINE t == Append(s, x)
<1>1. /\ Len(t) = Len(s) + 1 /\ t[Len(s) + 1] = x /\ Len(s) \in Nat
      /\ \A i \in 1..Len(s) : t[i] = s[i]
  BY AppendProperties, LenProperties
<1>2. IsFiniteSet(Indices(s)) /\ Count(s) \in Nat BY CountIsNat
<1>3. CASE Kind(x) = "keepalive"
  <2>1. Indices(t) = Indices(s) \cup {Len(s) + 1} BY <1>1, <1>3 DEF Indices
  <2>2. Len(s) + 1 \notin Indices(s) BY <1>1 DEF Indices
  <2>. QED BY <1>2, <1>3, <2>1, <2>2, FS_AddElement DEF Count
<1>4. CASE Kind(x) # "keepalive"
  <2>1. Indices(t) = Indices(s) BY <1>1, <1>4 DEF Indices
  <2>. QED BY <1>2, <1>4, <2>1 DEF Count
<1>. QED BY <1>3, <1>4

\* The first message no longer counts when it is taken.
LEMMA CountTail ==
  ASSUME NEW s \in Seq(Messages), s # <<>>
  PROVE  Count(Tail(s)) = Count(s) - IF Kind(Head(s)) = "keepalive" THEN 1 ELSE 0
<1>. DEFINE t == Tail(s)
            R == Indices(s) \ {1}
            f == [i \in R |-> i - 1]
<1>1. /\ t \in Seq(Messages) /\ Len(t) = Len(s) - 1 /\ Len(s) \in Nat \ {0}
      /\ Head(s) = s[1] /\ \A i \in 1..Len(t) : t[i] = s[i + 1]
  BY HeadTailProperties, LenProperties, EmptySeq
<1>2. IsFiniteSet(Indices(s)) /\ Count(s) \in Nat BY CountIsNat
<1>3. R \subseteq 2..Len(s) BY <1>1 DEF Indices
<1>4. f \in Bijection(R, Indices(t))
  <2>1. \A i \in R : i - 1 \in Indices(t) BY <1>1, <1>3 DEF Indices
  <2>2. \A j \in Indices(t) : j + 1 \in R /\ f[j + 1] = j BY <1>1 DEF Indices
  <2>3. f \in [R -> Indices(t)] BY <2>1
  <2>4. \A i, j \in R : f[i] = f[j] => i = j BY <1>1, <1>3
  <2>. QED BY <2>2, <2>3, <2>4 DEF Bijection, Injection, IsInjective, Surjection
<1>5. IsFiniteSet(R) BY <1>2, FS_RemoveElement
<1>6. Count(t) = Cardinality(R)
  BY <1>4, <1>5, FS_Bijection DEF Count, ExistsBijection
<1>7. 1 \in Indices(s) <=> Kind(Head(s)) = "keepalive" BY <1>1 DEF Indices
<1>8. Cardinality(R) = IF 1 \in Indices(s) THEN Count(s) - 1 ELSE Count(s)
  BY <1>2, FS_RemoveElement DEF Count
<1>. QED BY <1>2, <1>6, <1>7, <1>8

\* Objects that are added do not count.
LEMMA CountObjects ==
  ASSUME NEW s \in Seq(Messages), NEW n \in Nat
  PROVE  /\ s \o [i \in 1..n |-> Frame("object")] \in Seq(Messages)
         /\ Count(s \o [i \in 1..n |-> Frame("object")]) = Count(s)
<1>. DEFINE o == [i \in 1..n |-> Frame("object")]
            t == s \o o
<1>1. o \in Seq(Messages) /\ Len(o) = n /\ \A i \in 1..n : o[i] = Frame("object")
  <2>1. Frame("object") \in Messages BY DEF Frame, Messages
  <2>. QED BY <2>1
<1>2. /\ t \in Seq(Messages) /\ Len(t) = Len(s) + n /\ Len(s) \in Nat
      /\ \A i \in 1..Len(t) : t[i] = IF i <= Len(s) THEN s[i] ELSE o[i - Len(s)]
  BY <1>1, ConcatProperties, LenProperties
<1>3. \A i \in 1..Len(t) : i > Len(s) => Kind(t[i]) = "object"
  <2>1. Kind(Frame("object")) = "object" BY DEF Kind, Frame
  <2>2. \A i \in 1..Len(t) : i > Len(s) => i - Len(s) \in 1..n BY <1>2
  <2>. QED BY <1>1, <1>2, <2>1, <2>2
<1>4. Indices(t) = Indices(s) BY <1>2, <1>3, SMTT(60) DEF Indices
<1>. QED BY <1>2, <1>4 DEF Count

-----------------------------------------------------------------------------
(* What a pass of the maintenance thread may find when it looks at the     *)
(* socket: a keepalive is due and the last one was not answered, or is     *)
(* sent; none is due; the socket has failed; there is nothing to do.       *)

InUse == mCommState = "Connected" /\ isActive
Seconds == keepAliveSendSecondsAgo + THREAD_INTERVAL_SECONDS

GivesUp ==
  /\ InUse /\ KeepAliveDue(Seconds) /\ mOutstandingKeepAlives > 0
  /\ keepAliveSendSecondsAgo' = 0 /\ changeState("Disconnected")
  /\ mConnectTimeoutSeconds' = RECONNECT_SECONDS /\ mSocketState' = "null"
  /\ UNCHANGED <<mOutstandingKeepAlives, up>>

Sends ==
  /\ InUse /\ KeepAliveDue(Seconds) /\ ~(mOutstandingKeepAlives > 0)
  /\ keepAliveSendSecondsAgo' = 0 /\ sendFrame(Frame("keepalive"))
  /\ mOutstandingKeepAlives' = mOutstandingKeepAlives + 1
  /\ UNCHANGED <<mCommState, told, mConnectTimeoutSeconds, mSocketState>>

LetsPass ==
  /\ InUse /\ ~KeepAliveDue(Seconds)
  /\ keepAliveSendSecondsAgo' = Seconds /\ UNCHANGED <<model, mSocketState, up>>

Drops ==
  /\ ~InUse /\ mSocketState = "Failed" /\ disconnect
  /\ UNCHANGED <<keepAliveSendSecondsAgo, mOutstandingKeepAlives, up>>

NothingToDo ==
  /\ ~InUse /\ mSocketState # "Failed"
  /\ UNCHANGED <<keepAliveSendSecondsAgo, model, mSocketState, up>>

\* A pass at the socket is one of these five cases.
LEMMA CheckCases ==
  ASSUME checkSocket
  PROVE  /\ MaintenanceStep("check", "sleep")
         /\ UNCHANGED <<down, session, named, mLastFrameTime>>
         /\ GivesUp \/ Sends \/ LetsPass \/ Drops \/ NothingToDo
<1>1. MaintenanceStep("check", "sleep") /\ UNCHANGED <<down, session, named, mLastFrameTime>>
  BY DEF checkSocket
<1>2. CASE InUse /\ KeepAliveDue(Seconds) /\ mOutstandingKeepAlives > 0
  <2>1. keepAliveSendSecondsAgo' = 0 /\ sendKeepAlive BY <1>2 DEF checkSocket, InUse, Seconds
  <2>2. disconnect /\ UNCHANGED <<mOutstandingKeepAlives, up>> BY <1>2, <2>1 DEF sendKeepAlive
  <2>3. GivesUp BY <1>2, <2>1, <2>2 DEF GivesUp, disconnect, InUse
  <2>. QED BY <1>1, <2>3
<1>3. CASE InUse /\ KeepAliveDue(Seconds) /\ ~(mOutstandingKeepAlives > 0)
  <2>1. keepAliveSendSecondsAgo' = 0 /\ sendKeepAlive BY <1>3 DEF checkSocket, InUse, Seconds
  <2>2. Sends BY <1>3, <2>1 DEF sendKeepAlive, Sends
  <2>. QED BY <1>1, <2>2
<1>4. CASE InUse /\ ~KeepAliveDue(Seconds)
  <2>1. LetsPass BY <1>4 DEF checkSocket, InUse, Seconds, LetsPass
  <2>. QED BY <1>1, <2>1
<1>5. CASE ~InUse
  <2>1. UNCHANGED <<keepAliveSendSecondsAgo, mOutstandingKeepAlives, up>>
    BY <1>5 DEF checkSocket, InUse
  <2>2. IF mSocketState = "Failed" THEN disconnect
        ELSE UNCHANGED <<mCommState, told, mConnectTimeoutSeconds, mSocketState>>
    BY <1>5 DEF checkSocket, InUse
  <2>3. Drops \/ NothingToDo BY <1>5, <2>1, <2>2 DEF Drops, NothingToDo, model
  <2>. QED BY <1>1, <2>3
<1>. QED BY <1>2, <1>3, <1>4, <1>5

-----------------------------------------------------------------------------
(* The values of the variables, the count of the keepalives apart.         *)

Values ==
  /\ mCommState \in {"Disconnected", "Connecting", "NameSend", "Connected"}
  /\ mConnectTimeoutSeconds \in -THREAD_INTERVAL_SECONDS..RECONNECT_SECONDS
  /\ maintenance # "connect" => mConnectTimeoutSeconds >= 0
  /\ mOutstandingKeepAlives \in Int
  /\ mSendQueue \in 0..events /\ events \in 0..MaxEvents /\ sender \in {"idle", "process"}
  /\ mSocketState \in {"null", "Connecting", "Connected", "Failed"}
  /\ pending \subseteq {"connected", "sendName", "servername", "process"}
  /\ maintenance \in {"sleep", "connect", "replace", "check"}
  /\ keepAliveSendSecondsAgo \in 0..KEEPALIVE_INTERVAL_SECONDS
  /\ mRequestedInterval \in Intervals /\ locationInterval \in Intervals
  /\ interval \in Intervals /\ mLastFrameTime \in Nat
  /\ session \in {"none", "Connecting", "Connected", "gone"}

Flags == told \in BOOLEAN /\ named \in BOOLEAN

Carried == up \in Seq(Messages) /\ down \in Seq(Messages)

\* Every step keeps the values; the timers need what the guards know of them.
LEMMA ValuesStep == Carried /\ Values /\ [Next]_vars => Values'
<1>. SUFFICES ASSUME Carried, Values, [Next]_vars PROVE Values'
  OBVIOUS
<1>. USE ClientAssumption DEF Values
<1>1. CASE linkFails
  BY <1>1 DEF linkFails, Event, model, queue, thread, network, server, env
<1>2. CASE linkReturns
  BY <1>2 DEF linkReturns, model, queue, thread, network, server, env
<1>3. CASE socketFails
  BY <1>3 DEF socketFails, model, queue, thread, network, server, env
<1>4. CASE connects
  BY <1>4 DEF connects, model, queue, thread, network, server, env
<1>5. CASE receiveFrame
  BY <1>5 DEF receiveFrame, model, queue, thread, network, server, env
<1>6. CASE pollInterval
  BY <1>6 DEF pollInterval, model, queue, thread, network, server, env
<1>7. CASE receiveName
  BY <1>7 DEF receiveName, model, queue, thread, network, server, env
<1>8. CASE handshakeTimesOut
  BY <1>8 DEF handshakeTimesOut, Event, model, queue, thread, network, server, env
<1>9. CASE keepAliveReceived
  BY <1>9 DEF keepAliveReceived, Received, model, queue, thread, network, server, env
<1>10. CASE intervalReceived
  <2>1. Kind(Head(down)) = "interval" => Head(down)[2] \in Intervals
    BY <1>10, HeadTailProperties DEF intervalReceived, Received, Carried, Messages, Kind
  <2>. QED BY <1>10, <2>1 DEF intervalReceived, Received, model, queue, thread, network, server, env
<1>11. CASE serverNameReceived
  BY <1>11 DEF serverNameReceived, Received, model, queue, thread, network, server, env
<1>12. CASE connected
  BY <1>12 DEF connected, Returned, AfterConnect, changeState, model, queue, thread, network, server, env
<1>13. CASE nameSend
  BY <1>13 DEF nameSend, Returned, changeState, model, queue, thread, network, server, env
<1>14. CASE sendName
  BY <1>14 DEF sendName, Returned, sendFrame, model, queue, thread, network, server, env
<1>15. CASE processAfterConnect
  BY <1>15 DEF processAfterConnect, Returned, processSendQueue, model, queue, thread, network, server, env
<1>16. CASE wakeUp
  <2>1. mConnectTimeoutSeconds' \in -THREAD_INTERVAL_SECONDS..RECONNECT_SECONDS
        /\ (maintenance' # "connect" => mConnectTimeoutSeconds' >= 0)
        /\ maintenance' \in {"connect", "check"}
    BY <1>16 DEF wakeUp, MaintenanceStep, ReconnectDue
  <2>2. mLastFrameTime' \in Nat /\ session' \in {"none", "Connecting", "Connected", "gone"}
    BY <1>16 DEF wakeUp, RoundsPass
  <2>3. UNCHANGED <<mCommState, mOutstandingKeepAlives, mSocketState, keepAliveSendSecondsAgo,
                    mSendQueue, sender, pending, mRequestedInterval, locationInterval,
                    interval, events>>
    BY <1>16 DEF wakeUp, MaintenanceStep, queue, env
  <2>. QED BY <2>1, <2>2, <2>3
<1>17. CASE startConnect
  BY <1>17 DEF startConnect, MaintenanceStep, changeState, Forgiven, model, queue, thread, network, server, env
<1>18. CASE replaceSocket
  BY <1>18 DEF replaceSocket, MaintenanceStep, model, queue, thread, network, server, env
<1>19. CASE checkSocket
  <2>1. /\ maintenance = "check" /\ maintenance' = "sleep"
        /\ UNCHANGED <<session, mLastFrameTime, mSendQueue, sender, pending,
                       mRequestedInterval, locationInterval, interval, events>>
    BY <1>19, CheckCases DEF MaintenanceStep, queue, env
  <2>2. CASE GivesUp BY <2>1, <2>2 DEF GivesUp, changeState
  <2>3. CASE Sends BY <2>1, <2>3 DEF Sends
  <2>4. CASE LetsPass BY <2>1, <2>4 DEF LetsPass, Seconds, KeepAliveDue, model
  <2>5. CASE Drops BY <2>1, <2>5 DEF Drops, disconnect, changeState
  <2>6. CASE NothingToDo BY <2>1, <2>6 DEF NothingToDo, model
  <2>. QED BY <1>19, <2>2, <2>3, <2>4, <2>5, <2>6, CheckCases
<1>20. CASE sendObjectQueued
  BY <1>20 DEF sendObjectQueued, SenderStep, Event, model, queue, thread, network, server, env
<1>21. CASE processAfterEnqueue
  BY <1>21 DEF processAfterEnqueue, SenderStep, processSendQueue, model, queue, thread, network, server, env
<1>22. ASSUME NEW v \in Intervals, editInterval(v) PROVE Values'
  BY <1>22 DEF editInterval, Event, model, queue, thread, network, server
<1>23. CASE UNCHANGED vars
  BY <1>23 DEF vars, model, queue, thread, network, server, env
<1>. QED BY <1>1, <1>2, <1>3, <1>4, <1>5, <1>6, <1>7, <1>8, <1>9, <1>10,
    <1>11, <1>12, <1>13, <1>14, <1>15, <1>16, <1>17, <1>18, <1>19, <1>20,
    <1>21, <1>22, <1>23 DEF Next, Network, Server, Callbacks, Thread

\* The two Booleans, apart from the values, which are arithmetic.
LEMMA FlagsStep == Flags /\ [Next]_vars => Flags'
<1>. SUFFICES ASSUME Flags, [Next]_vars PROVE Flags'
  OBVIOUS
<1>. USE DEF Flags
<1>1. CASE linkFails
  BY <1>1 DEF linkFails, Event, model, queue, thread, network, server, env
<1>2. CASE linkReturns
  BY <1>2 DEF linkReturns, model, queue, thread, network, server, env
<1>3. CASE socketFails
  BY <1>3 DEF socketFails, model, queue, thread, network, server, env
<1>4. CASE connects
  BY <1>4 DEF connects, model, queue, thread, network, server, env
<1>5. CASE receiveFrame
  BY <1>5 DEF receiveFrame, model, queue, thread, network, server, env
<1>6. CASE pollInterval
  BY <1>6 DEF pollInterval, model, queue, thread, network, server, env
<1>7. CASE receiveName
  BY <1>7 DEF receiveName, model, queue, thread, network, server, env
<1>8. CASE handshakeTimesOut
  BY <1>8 DEF handshakeTimesOut, Event, model, queue, thread, network,
    server, env
<1>9. CASE keepAliveReceived
  BY <1>9 DEF keepAliveReceived, Received, model, queue, thread, network,
    server, env
<1>10. CASE intervalReceived
  BY <1>10 DEF intervalReceived, Received, model, queue, thread, network,
    server, env
<1>11. CASE serverNameReceived
  BY <1>11 DEF serverNameReceived, Received, model, queue, thread, network,
    server, env
<1>12. CASE connected
  BY <1>12 DEF connected, Returned, AfterConnect, changeState, model, queue,
    thread, network, server, env
<1>13. CASE nameSend
  BY <1>13 DEF nameSend, Returned, changeState, model, queue, thread,
    network, server, env
<1>14. CASE sendName
  BY <1>14 DEF sendName, Returned, sendFrame, model, queue, thread, network,
    server, env
<1>15. CASE processAfterConnect
  BY <1>15 DEF processAfterConnect, Returned, processSendQueue, model,
    queue, thread, network, server, env
<1>16. CASE wakeUp
  BY <1>16 DEF wakeUp, MaintenanceStep, RoundsPass, model, queue, thread,
    network, server, env
<1>17. CASE startConnect
  BY <1>17 DEF startConnect, MaintenanceStep, changeState, Forgiven, model,
    queue, thread, network, server, env
<1>18. CASE replaceSocket
  BY <1>18 DEF replaceSocket, MaintenanceStep, model, queue, thread,
    network, server, env
<1>19. CASE checkSocket
  <2>1. named' = named /\ told' \in {told, TRUE, FALSE}
    BY <1>19, CheckCases
       DEF GivesUp, Sends, LetsPass, Drops, NothingToDo, disconnect, changeState, model
  <2>. QED BY <2>1
<1>20. CASE sendObjectQueued
  BY <1>20 DEF sendObjectQueued, SenderStep, Event, model, queue, thread,
    network, server, env
<1>21. CASE processAfterEnqueue
  BY <1>21 DEF processAfterEnqueue, SenderStep, processSendQueue, model,
    queue, thread, network, server, env
<1>22. ASSUME NEW v \in Intervals, editInterval(v) PROVE Flags'
  BY <1>22 DEF editInterval, model, queue, thread, network, server, env
<1>23. CASE UNCHANGED vars
  BY <1>23 DEF vars, model, queue, thread, network, server, env
<1>. QED BY <1>1, <1>2, <1>3, <1>4, <1>5, <1>6, <1>7, <1>8, <1>9, <1>10,
    <1>11, <1>12, <1>13, <1>14, <1>15, <1>16, <1>17, <1>18, <1>19, <1>20,
    <1>21, <1>22, <1>23 DEF Next, Network, Server, Callbacks, Thread

-----------------------------------------------------------------------------
(* The queue of objects.                                                   *)

\* If something is queued on a connection, and nobody is about to look at the
\* queue who queued it, then a handler is: that of the server name, or that of a
\* connection that will make the client wait for the server name first.
Noticed ==
  mSendQueue > 0 /\ sender = "idle" /\ mCommState = "Connected"
    /\ mSocketState = "Connected" => pending \cap {"connected", "process"} # {}

\* Who queues and who connects cannot both leave an object to the other.
LEMMA NoticedStep == Noticed /\ [Next]_vars => Noticed'
<1>. SUFFICES ASSUME Noticed, [Next]_vars PROVE Noticed'
  OBVIOUS
<1>. USE DEF Noticed
<1>1. CASE linkFails
  BY <1>1 DEF linkFails, Event, model, queue, thread, network, server, env
<1>2. CASE linkReturns
  BY <1>2 DEF linkReturns, model, queue, thread, network, server, env
<1>3. CASE socketFails
  BY <1>3 DEF socketFails, model, queue, thread, network, server, env
<1>4. CASE connects
  BY <1>4 DEF connects, model, queue, thread, network, server, env
<1>5. CASE receiveFrame
  BY <1>5 DEF receiveFrame, model, queue, thread, network, server, env
<1>6. CASE pollInterval
  BY <1>6 DEF pollInterval, model, queue, thread, network, server, env
<1>7. CASE receiveName
  BY <1>7 DEF receiveName, model, queue, thread, network, server, env
<1>8. CASE handshakeTimesOut
  BY <1>8 DEF handshakeTimesOut, Event, model, queue, thread, network,
    server, env
<1>9. CASE keepAliveReceived
  BY <1>9 DEF keepAliveReceived, Received, model, queue, thread, network,
    server, env
<1>10. CASE intervalReceived
  BY <1>10 DEF intervalReceived, Received, model, queue, thread, network,
    server, env
<1>11. CASE serverNameReceived
  BY <1>11 DEF serverNameReceived, Received, model, queue, thread, network,
    server, env
<1>12. CASE connected
  BY <1>12 DEF connected, Returned, AfterConnect, changeState, model, queue,
    thread, network, server, env
<1>13. CASE nameSend
  BY <1>13 DEF nameSend, Returned, changeState, model, queue, thread,
    network, server, env
<1>14. CASE sendName
  BY <1>14 DEF sendName, Returned, sendFrame, model, queue, thread, network,
    server, env
<1>15. CASE processAfterConnect
  BY <1>15 DEF processAfterConnect, Returned, processSendQueue, model,
    queue, thread, network, server, env
<1>16. CASE wakeUp
  BY <1>16 DEF wakeUp, MaintenanceStep, RoundsPass, model, queue, thread,
    network, server, env
<1>17. CASE startConnect
  BY <1>17 DEF startConnect, MaintenanceStep, changeState, Forgiven, model,
    queue, thread, network, server, env
<1>18. CASE replaceSocket
  BY <1>18 DEF replaceSocket, MaintenanceStep, model, queue, thread,
    network, server, env
<1>19. CASE checkSocket
  <2>1. UNCHANGED <<mSendQueue, sender, pending>>
    BY <1>19, CheckCases DEF MaintenanceStep, queue
  <2>2. mCommState' = "Connected" /\ mSocketState' = "Connected"
          => mCommState = "Connected" /\ mSocketState = "Connected"
    BY <1>19, CheckCases
       DEF GivesUp, Sends, LetsPass, Drops, NothingToDo, disconnect, changeState, model
  <2>. QED BY <2>1, <2>2
<1>20. CASE sendObjectQueued
  BY <1>20 DEF sendObjectQueued, SenderStep, Event, model, queue, thread,
    network, server, env
<1>21. CASE processAfterEnqueue
  BY <1>21 DEF processAfterEnqueue, SenderStep, processSendQueue, model,
    queue, thread, network, server, env
<1>22. ASSUME NEW v \in Intervals, editInterval(v) PROVE Noticed'
  BY <1>22 DEF editInterval, model, queue, thread, network, server, env
<1>23. CASE UNCHANGED vars
  BY <1>23 DEF vars, model, queue, thread, network, server, env
<1>. QED BY <1>1, <1>2, <1>3, <1>4, <1>5, <1>6, <1>7, <1>8, <1>9, <1>10,
    <1>11, <1>12, <1>13, <1>14, <1>15, <1>16, <1>17, <1>18, <1>19, <1>20,
    <1>21, <1>22, <1>23 DEF Next, Network, Server, Callbacks, Thread

-----------------------------------------------------------------------------
(* What the connection carries.                                            *)

\* The frames of the model are messages, of the kind they are named for.
LEMMA FrameIsMessage ==
  /\ \A k \in {"name", "servername", "keepalive", "object"} :
       Frame(k) \in Messages /\ Kind(Frame(k)) = k
  /\ \A v \in Intervals : IntervalFrame(v) \in Messages /\ Kind(IntervalFrame(v)) = "interval"
BY DEF Frame, IntervalFrame, Messages, Kind

\* The server answers a keepalive, and nothing else, with one of its own.
LEMMA EchoIsMessage ==
  ASSUME NEW s \in Seq(Messages), NEW x \in Messages
  PROVE  /\ s \o Echo(x) \in Seq(Messages)
         /\ Count(s \o Echo(x)) = Count(s) + IF Kind(x) = "keepalive" THEN 1 ELSE 0
<1>1. CASE Kind(x) = "keepalive"
  <2>1. s \o Echo(x) = Append(s, x) BY <1>1, AppendIsConcat DEF Echo
  <2>. QED BY <1>1, <2>1, CountAppend, AppendProperties
<1>2. CASE Kind(x) # "keepalive"
  <2>1. Echo(x) = <<>> BY <1>2 DEF Echo
  <2>2. s \o Echo(x) = s BY <2>1, EmptySeq, ConcatEmptySeq
  <2>. QED BY <1>2, <2>2, CountIsNat
<1>. QED BY <1>1, <1>2

\* Nothing but messages is ever carried.
LEMMA CarriedStep == Carried /\ Values /\ [Next]_vars => Carried'
<1>. SUFFICES ASSUME Carried, Values, [Next]_vars PROVE Carried'
  OBVIOUS
<1>. USE DEF Carried
<1>1. CASE linkFails
  BY <1>1 DEF linkFails, Event, model, queue, thread, network, server, env
<1>2. CASE linkReturns
  BY <1>2 DEF linkReturns, model, queue, thread, network, server, env
<1>3. CASE socketFails
  BY <1>3 DEF socketFails, model, queue, thread, network, server, env
<1>4. CASE connects
  BY <1>4 DEF connects, model, queue, thread, network, server, env
<1>5. CASE receiveFrame
  <2>1. Head(up) \in Messages /\ Tail(up) \in Seq(Messages)
    BY <1>5, HeadTailProperties DEF receiveFrame
  <2>2. down \o Echo(Head(up)) \in Seq(Messages) BY <2>1, EchoIsMessage
  <2>. QED BY <1>5, <2>1, <2>2 DEF receiveFrame
<1>6. CASE pollInterval
  <2>1. IntervalFrame(interval) \in Messages BY FrameIsMessage DEF Values
  <2>. QED BY <1>6, <2>1, AppendProperties DEF pollInterval, Polled
<1>7. CASE receiveName
  <2>1. Tail(up) \in Seq(Messages) BY <1>7, HeadTailProperties DEF receiveName
  <2>. QED BY <1>7, <2>1, FrameIsMessage, AppendProperties DEF receiveName
<1>8. CASE handshakeTimesOut
  BY <1>8 DEF handshakeTimesOut, Event, model, queue, thread, network,
    server, env
<1>9. CASE keepAliveReceived
  BY <1>9, HeadTailProperties DEF keepAliveReceived, Received
<1>10. CASE intervalReceived
  BY <1>10, HeadTailProperties DEF intervalReceived, Received
<1>11. CASE serverNameReceived
  BY <1>11, HeadTailProperties DEF serverNameReceived, Received
<1>12. CASE connected
  BY <1>12 DEF connected, Returned, AfterConnect, changeState, model, queue,
    thread, network, server, env
<1>13. CASE nameSend
  BY <1>13 DEF nameSend, Returned, changeState, model, queue, thread,
    network, server, env
<1>14. CASE sendName
  <2>1. Append(up, Frame("name")) \in Seq(Messages) BY FrameIsMessage, AppendProperties
  <2>. QED BY <1>14, <2>1 DEF sendName, Returned, sendFrame
<1>15. CASE processAfterConnect
  <2>1. mSendQueue \in Nat BY ClientAssumption DEF Values
  <2>2. up \o [i \in 1..mSendQueue |-> Frame("object")] \in Seq(Messages)
    BY <2>1, CountObjects
  <2>. QED BY <1>15, <2>2 DEF processAfterConnect, Returned, processSendQueue
<1>16. CASE wakeUp
  BY <1>16 DEF wakeUp, MaintenanceStep, RoundsPass, model, queue, thread,
    network, server, env
<1>17. CASE startConnect
  BY <1>17 DEF startConnect, MaintenanceStep, changeState, Forgiven, model,
    queue, thread, network, server, env
<1>18. CASE replaceSocket
  BY <1>18, EmptySeq DEF replaceSocket
<1>19. CASE checkSocket
  <2>1. Append(up, Frame("keepalive")) \in Seq(Messages)
    BY FrameIsMessage, AppendProperties
  <2>. QED BY <1>19, <2>1, CheckCases
           DEF GivesUp, Sends, LetsPass, Drops, NothingToDo, sendFrame
<1>20. CASE sendObjectQueued
  BY <1>20 DEF sendObjectQueued, SenderStep, Event, model, queue, thread,
    network, server, env
<1>21. CASE processAfterEnqueue
  <2>1. mSendQueue \in Nat BY ClientAssumption DEF Values
  <2>2. up \o [i \in 1..mSendQueue |-> Frame("object")] \in Seq(Messages)
    BY <2>1, CountObjects
  <2>. QED BY <1>21, <2>2 DEF processAfterEnqueue, SenderStep, processSendQueue
<1>22. ASSUME NEW v \in Intervals, editInterval(v) PROVE Carried'
  BY <1>22 DEF editInterval, model, queue, thread, network, server, env
<1>23. CASE UNCHANGED vars
  BY <1>23 DEF vars, model, queue, thread, network, server, env
<1>. QED BY <1>1, <1>2, <1>3, <1>4, <1>5, <1>6, <1>7, <1>8, <1>9, <1>10,
    <1>11, <1>12, <1>13, <1>14, <1>15, <1>16, <1>17, <1>18, <1>19, <1>20,
    <1>21, <1>22, <1>23 DEF Next, Network, Server, Callbacks, Thread

\* A connection that is being made carries nothing, and the server does not know
\* of it.
Fresh == mSocketState = "Connecting" => up = <<>> /\ down = <<>> /\ session = "none"

\* A new connection begins empty at both ends.
LEMMA FreshStep == Fresh /\ [Next]_vars => Fresh'
<1>. SUFFICES ASSUME Fresh, [Next]_vars PROVE Fresh'
  OBVIOUS
<1>. USE DEF Fresh
<1>1. CASE linkFails
  BY <1>1 DEF linkFails, Event, model, queue, thread, network, server, env
<1>2. CASE linkReturns
  BY <1>2 DEF linkReturns, model, queue, thread, network, server, env
<1>3. CASE socketFails
  BY <1>3 DEF socketFails, model, queue, thread, network, server, env
<1>4. CASE connects
  BY <1>4 DEF connects, model, queue, thread, network, server, env
<1>5. CASE receiveFrame
  BY <1>5 DEF receiveFrame, model, queue, thread, network, server, env
<1>6. CASE pollInterval
  BY <1>6 DEF pollInterval, model, queue, thread, network, server, env
<1>7. CASE receiveName
  BY <1>7 DEF receiveName, model, queue, thread, network, server, env
<1>8. CASE handshakeTimesOut
  BY <1>8 DEF handshakeTimesOut, Event, model, queue, thread, network,
    server, env
<1>9. CASE keepAliveReceived
  BY <1>9 DEF keepAliveReceived, Received, model, queue, thread, network,
    server, env
<1>10. CASE intervalReceived
  BY <1>10 DEF intervalReceived, Received, model, queue, thread, network,
    server, env
<1>11. CASE serverNameReceived
  BY <1>11 DEF serverNameReceived, Received, model, queue, thread, network,
    server, env
<1>12. CASE connected
  BY <1>12 DEF connected, Returned, AfterConnect, changeState, model, queue,
    thread, network, server, env
<1>13. CASE nameSend
  BY <1>13 DEF nameSend, Returned, changeState, model, queue, thread,
    network, server, env
<1>14. CASE sendName
  BY <1>14 DEF sendName, Returned, sendFrame, model, queue, thread, network,
    server, env
<1>15. CASE processAfterConnect
  BY <1>15 DEF processAfterConnect, Returned, processSendQueue, server
<1>16. CASE wakeUp
  BY <1>16 DEF wakeUp, MaintenanceStep, RoundsPass, model, queue, thread,
    network, server, env
<1>17. CASE startConnect
  BY <1>17 DEF startConnect, MaintenanceStep, changeState, Forgiven, model,
    queue, thread, network, server, env
<1>18. CASE replaceSocket
  BY <1>18 DEF replaceSocket, MaintenanceStep, model, queue, thread,
    network, server, env
<1>19. CASE checkSocket
  <2>1. CASE GivesUp BY <1>19, <2>1, CheckCases DEF GivesUp
  <2>2. CASE Sends BY <1>19, <2>2, CheckCases DEF Sends, sendFrame
  <2>3. CASE LetsPass BY <1>19, <2>3, CheckCases DEF LetsPass
  <2>4. CASE Drops BY <1>19, <2>4, CheckCases DEF Drops, disconnect
  <2>5. CASE NothingToDo BY <1>19, <2>5, CheckCases DEF NothingToDo
  <2>. QED BY <1>19, <2>1, <2>2, <2>3, <2>4, <2>5, CheckCases
<1>20. CASE sendObjectQueued
  BY <1>20 DEF sendObjectQueued, SenderStep, Event, model, queue, thread,
    network, server, env
<1>21. CASE processAfterEnqueue
  BY <1>21 DEF processAfterEnqueue, SenderStep, processSendQueue, server
<1>22. ASSUME NEW v \in Intervals, editInterval(v) PROVE Fresh'
  BY <1>22 DEF editInterval, model, queue, thread, network, server, env
<1>23. CASE UNCHANGED vars
  BY <1>23 DEF vars, model, queue, thread, network, server, env
<1>. QED BY <1>1, <1>2, <1>3, <1>4, <1>5, <1>6, <1>7, <1>8, <1>9, <1>10,
    <1>11, <1>12, <1>13, <1>14, <1>15, <1>16, <1>17, <1>18, <1>19, <1>20,
    <1>21, <1>22, <1>23 DEF Next, Network, Server, Callbacks, Thread

-----------------------------------------------------------------------------
(* The keepalives that were not answered.  mOutstandingKeepAlives is reset *)
(* before the socket is replaced, and the answer to a keepalive of the old *)
(* socket may arrive in between: the counter may be one below what is on   *)
(* its way, and no more than that, since a client that is no longer        *)
(* connected was sent at most one keepalive on the socket it still has.    *)

\* The client is not connected, or about to say that it no longer is.
Leaving == mCommState # "Connected" \/ maintenance = "connect" \/ "connected" \in pending

Counted ==
  /\ mOutstandingKeepAlives \in -1..1
  /\ mSocketState = "Connected" =>
       /\ InFlight <= mOutstandingKeepAlives + 1
       /\ Leaving /\ maintenance # "replace" => InFlight <= 1
       /\ "connected" \in pending /\ maintenance # "sleep" => InFlight = 0

\* What is carried is a number of keepalives, none if nothing is carried.
LEMMA InFlightIsNat ==
  ASSUME Carried
  PROVE  /\ InFlight \in Nat /\ Count(up) \in Nat /\ Count(down) \in Nat
         /\ up = <<>> /\ down = <<>> => InFlight = 0
BY CountIsNat DEF Carried, InFlight

\* The answer to a keepalive that is handled is no longer on its way.
LEMMA AnswerTaken ==
  ASSUME Carried, keepAliveReceived
  PROVE  InFlight' = InFlight - 1
<1>1. down # <<>> /\ Kind(Head(down)) = "keepalive" /\ down' = Tail(down) /\ up' = up
  BY DEF keepAliveReceived, Received
<1>2. Count(Tail(down)) = Count(down) - 1 BY <1>1, CountTail DEF Carried
<1>. QED BY <1>1, <1>2, InFlightIsNat DEF InFlight

\* A pass adds one keepalive at the most, and only on a connection.
LEMMA KeepAliveAdded ==
  ASSUME Carried, checkSocket
  PROVE  /\ Sends => InFlight' <= InFlight + 1
         /\ Sends /\ mSocketState = "Connected" => Count(up') > 0
         /\ ~Sends => InFlight' = InFlight /\ up' = up
<1>1. down' = down BY CheckCases
<1>2. Count(Append(up, Frame("keepalive"))) = Count(up) + 1
  BY FrameIsMessage, CountAppend DEF Carried
<1>3. Sends => up' = IF mSocketState = "Connected" THEN Append(up, Frame("keepalive")) ELSE up
  BY DEF Sends, sendFrame
<1>4. ~Sends => up' = up
  BY CheckCases DEF GivesUp, LetsPass, Drops, NothingToDo
<1>5. Count(down') = Count(down) BY <1>1
<1>6. Sends => Count(up') = Count(up) \/ Count(up') = Count(up) + 1 BY <1>2, <1>3
<1>7. Sends /\ mSocketState = "Connected" => Count(up') = Count(up) + 1 BY <1>2, <1>3
<1>8. InFlight' = Count(up') + Count(down') BY DEF InFlight
<1>9. InFlight = Count(up) + Count(down) BY DEF InFlight
<1>. QED BY <1>4, <1>5, <1>6, <1>7, <1>8, <1>9, InFlightIsNat

\* The step of the maintenance thread that may send a keepalive.
Checking == maintenance = "check" /\ maintenance' = "sleep"

\* In every other step keepalives are answered, taken or lost, never added.
LEMMA FewerInFlight ==
  ASSUME Carried, Values, [Next]_vars, ~Checking
  PROVE  InFlight' <= InFlight
<1>0. InFlight \in Nat /\ Count(up) \in Nat /\ Count(down) \in Nat BY InFlightIsNat
<1>. USE <1>0 DEF InFlight
<1>1. CASE linkFails
  BY <1>1 DEF linkFails, Event, model, queue, thread, network, server, env
<1>2. CASE linkReturns
  BY <1>2 DEF linkReturns, model, queue, thread, network, server, env
<1>3. CASE socketFails
  BY <1>3 DEF socketFails, model, queue, thread, network, server, env
<1>4. CASE connects
  BY <1>4 DEF connects, model, queue, thread, network, server, env
<1>5. CASE receiveFrame
  <2>1. up # <<>> /\ Head(up) \in Messages BY <1>5, HeadTailProperties DEF receiveFrame, Carried
  <2>2. Count(Tail(up)) = Count(up) - IF Kind(Head(up)) = "keepalive" THEN 1 ELSE 0
    BY <2>1, CountTail DEF Carried
  <2>3. Count(down \o Echo(Head(up)))
          = Count(down) + IF Kind(Head(up)) = "keepalive" THEN 1 ELSE 0
    BY <2>1, EchoIsMessage DEF Carried
  <2>4. up' = Tail(up) /\ (down' = down \/ down' = down \o Echo(Head(up)))
    BY <1>5 DEF receiveFrame
  <2>5. Count(up') = Count(Tail(up)) BY <2>4
  <2>6. Count(down') = Count(down) \/ Count(down') = Count(down \o Echo(Head(up))) BY <2>4
  <2>. QED BY <2>2, <2>3, <2>5, <2>6
<1>6. CASE pollInterval
  <2>1. IntervalFrame(interval) \in Messages /\ Kind(IntervalFrame(interval)) = "interval"
    BY FrameIsMessage DEF Values
  <2>2. Count(Append(down, IntervalFrame(interval))) = Count(down)
    BY <2>1, CountAppend DEF Carried
  <2>. QED BY <1>6, <2>2 DEF pollInterval, Polled
<1>7. CASE receiveName
  <2>1. Count(Tail(up)) = Count(up) \/ Count(Tail(up)) = Count(up) - 1
    BY <1>7, CountTail DEF receiveName, Carried
  <2>2. Count(Append(down, Frame("servername"))) = Count(down)
    BY FrameIsMessage, CountAppend DEF Carried
  <2>3. up' = Tail(up) /\ down' = Append(down, Frame("servername")) BY <1>7 DEF receiveName
  <2>4. Count(up') = Count(up) \/ Count(up') = Count(up) - 1 BY <2>1, <2>3
  <2>5. Count(down') = Count(down) BY <2>2, <2>3
  <2>. QED BY <2>4, <2>5
<1>8. CASE handshakeTimesOut
  BY <1>8 DEF handshakeTimesOut, Event, model, queue, thread, network,
    server, env
<1>9. CASE keepAliveReceived
  BY <1>9, AnswerTaken
<1>10. CASE intervalReceived
  BY <1>10, CountTail DEF intervalReceived, Received, Carried
<1>11. CASE serverNameReceived
  BY <1>11, CountTail DEF serverNameReceived, Received, Carried
<1>12. CASE connected
  BY <1>12 DEF connected, Returned, AfterConnect, changeState, model, queue,
    thread, network, server, env
<1>13. CASE nameSend
  BY <1>13 DEF nameSend, Returned, changeState, model, queue, thread,
    network, server, env
<1>14. CASE sendName
  <2>1. Count(Append(up, Frame("name"))) = Count(up)
    BY FrameIsMessage, CountAppend DEF Carried
  <2>. QED BY <1>14, <2>1 DEF sendName, Returned, sendFrame
<1>15. CASE processAfterConnect
  <2>1. mSendQueue \in Nat BY ClientAssumption DEF Values
  <2>2. Count(up \o [i \in 1..mSendQueue |-> Frame("object")]) = Count(up)
    BY <2>1, CountObjects DEF Carried
  <2>3. up' = up \/ up' = up \o [i \in 1..mSendQueue |-> Frame("object")]
    BY <1>15 DEF processAfterConnect, Returned, processSendQueue
  <2>4. Count(up') = Count(up) BY <2>2, <2>3
  <2>5. down' = down BY <1>15 DEF processAfterConnect, Returned
  <2>. QED BY <2>4, <2>5
<1>16. CASE wakeUp
  BY <1>16 DEF wakeUp, MaintenanceStep, RoundsPass, model, queue, thread,
    network, server, env
<1>17. CASE startConnect
  BY <1>17 DEF startConnect, MaintenanceStep, changeState, Forgiven, model,
    queue, thread, network, server, env
<1>18. CASE replaceSocket
  <2>1. Count(<<>>) = 0 BY EmptySeq, CountIsNat
  <2>. QED BY <1>18, <2>1 DEF replaceSocket
<1>19. CASE checkSocket
  BY <1>19, CheckCases DEF MaintenanceStep, Checking
<1>20. CASE sendObjectQueued
  BY <1>20 DEF sendObjectQueued, SenderStep, Event, model, queue, thread,
    network, server, env
<1>21. CASE processAfterEnqueue
  <2>1. mSendQueue \in Nat BY ClientAssumption DEF Values
  <2>2. Count(up \o [i \in 1..mSendQueue |-> Frame("object")]) = Count(up)
    BY <2>1, CountObjects DEF Carried
  <2>3. up' = up \/ up' = up \o [i \in 1..mSendQueue |-> Frame("object")]
    BY <1>21 DEF processAfterEnqueue, SenderStep, processSendQueue
  <2>4. Count(up') = Count(up) BY <2>2, <2>3
  <2>5. down' = down BY <1>21 DEF processAfterEnqueue, SenderStep
  <2>. QED BY <2>4, <2>5
<1>22. ASSUME NEW v \in Intervals, editInterval(v) PROVE InFlight' <= InFlight
  BY <1>22 DEF editInterval, model, queue, thread, network, server, env
<1>23. CASE UNCHANGED vars
  BY <1>23 DEF vars, model, queue, thread, network, server, env
<1>. QED BY <1>1, <1>2, <1>3, <1>4, <1>5, <1>6, <1>7, <1>8, <1>9, <1>10,
    <1>11, <1>12, <1>13, <1>14, <1>15, <1>16, <1>17, <1>18, <1>19, <1>20,
    <1>21, <1>22, <1>23 DEF Next, Network, Server, Callbacks, Thread

\* The counter and what is on its way stay within one of each other.
LEMMA CountedStep == Counted /\ Fresh /\ Carried /\ Values /\ [Next]_vars => Counted'
<1>. SUFFICES ASSUME Counted, Fresh, Carried, Values, [Next]_vars PROVE Counted'
  OBVIOUS
<1>a. InFlight \in Nat /\ InFlight' \in Nat
  BY CarriedStep, InFlightIsNat, CountIsNat DEF Carried, InFlight
<1>b. ~Checking => InFlight' <= InFlight BY FewerInFlight
<1>. USE <1>a, <1>b DEF Counted, Leaving, Checking
<1>1. CASE linkFails
  BY <1>1 DEF linkFails, Event, model, queue, thread, network, server, env
<1>2. CASE linkReturns
  BY <1>2 DEF linkReturns, model, queue, thread, network, server, env
<1>3. CASE socketFails
  BY <1>3 DEF socketFails, model, queue, thread, network, server, env
<1>4. CASE connects
  <2>1. InFlight = 0 BY <1>4, InFlightIsNat DEF connects, Fresh
  <2>2. InFlight' = InFlight BY <1>4 DEF connects, network, InFlight
  <2>3. mOutstandingKeepAlives' = mOutstandingKeepAlives BY <1>4 DEF connects, model
  <2>. QED BY <2>1, <2>2, <2>3
<1>5. CASE receiveFrame
  BY <1>5 DEF receiveFrame, model, queue, thread, network, server, env
<1>6. CASE pollInterval
  BY <1>6 DEF pollInterval, model, queue, thread, network, server, env
<1>7. CASE receiveName
  BY <1>7 DEF receiveName, model, queue, thread, network, server, env
<1>8. CASE handshakeTimesOut
  BY <1>8 DEF handshakeTimesOut, Event, model, queue, thread, network,
    server, env
<1>9. CASE keepAliveReceived
  <2>1. InFlight' = InFlight - 1 BY <1>9, AnswerTaken
  <2>2. /\ mSocketState = "Connected" /\ UNCHANGED <<mSocketState, mCommState, maintenance>>
        /\ mOutstandingKeepAlives' = mOutstandingKeepAlives - 1 /\ pending' = pending
    BY <1>9 DEF keepAliveReceived, Received, thread
  <2>. QED BY <2>1, <2>2
<1>10. CASE intervalReceived
  BY <1>10 DEF intervalReceived, Received, model, queue, thread, network,
    server, env
<1>11. CASE serverNameReceived
  BY <1>11 DEF serverNameReceived, Received, model, queue, thread, network,
    server, env
<1>12. CASE connected
  BY <1>12 DEF connected, Returned, AfterConnect, changeState, model, queue,
    thread, network, server, env
<1>13. CASE nameSend
  BY <1>13 DEF nameSend, Returned, changeState, model, queue, thread,
    network, server, env
<1>14. CASE sendName
  BY <1>14 DEF sendName, Returned, sendFrame, model, queue, thread, network,
    server, env
<1>15. CASE processAfterConnect
  BY <1>15 DEF processAfterConnect, Returned, processSendQueue, model,
    queue, thread, network, server, env
<1>16. CASE wakeUp
  <2>1. pending = {} /\ pending' = {} BY <1>16 DEF wakeUp, Prompt, MaintenanceStep
  <2>2. /\ UNCHANGED <<mSocketState, mCommState, mOutstandingKeepAlives>>
        /\ maintenance' \in {"connect", "check"} /\ maintenance = "sleep"
        /\ maintenance' = "connect" => mCommState # "Connected"
    BY <1>16 DEF wakeUp, MaintenanceStep
  <2>. QED BY <2>1, <2>2
<1>17. CASE startConnect
  BY <1>17 DEF startConnect, MaintenanceStep, changeState, Forgiven, model,
    queue, thread, network, server, env
<1>18. CASE replaceSocket
  BY <1>18 DEF replaceSocket, MaintenanceStep, model, queue, thread,
    network, server, env
<1>19. CASE checkSocket
  <2>1. maintenance = "check" /\ maintenance' = "sleep" /\ pending' = pending
    BY <1>19, CheckCases DEF MaintenanceStep
  <2>2. CASE GivesUp BY <1>19, <2>1, <2>2, KeepAliveAdded DEF GivesUp
  <2>3. CASE Sends
    <3>1. InFlight' <= InFlight + 1 BY <1>19, <2>3, KeepAliveAdded
    <3>2. /\ mCommState = "Connected" /\ mOutstandingKeepAlives <= 0
          /\ mOutstandingKeepAlives' = mOutstandingKeepAlives + 1
          /\ UNCHANGED <<mCommState, mSocketState>>
      BY <2>3 DEF Sends, InUse
    <3>. QED BY <2>1, <3>1, <3>2
  <2>4. CASE LetsPass
    <3>1. InFlight' = InFlight BY <1>19, <2>4, KeepAliveAdded DEF LetsPass, Sends
    <3>. QED BY <2>1, <2>4, <3>1 DEF LetsPass, model
  <2>5. CASE Drops
    <3>1. mSocketState' # "Connected" /\ mOutstandingKeepAlives' = mOutstandingKeepAlives
      BY <2>5 DEF Drops, disconnect
    <3>. QED BY <3>1
  <2>6. CASE NothingToDo
    <3>1. InFlight' = InFlight BY <1>19, <2>6, KeepAliveAdded DEF NothingToDo, Sends
    <3>. QED BY <2>1, <2>6, <3>1 DEF NothingToDo, model
  <2>. QED BY <1>19, <2>2, <2>3, <2>4, <2>5, <2>6, CheckCases
<1>20. CASE sendObjectQueued
  BY <1>20 DEF sendObjectQueued, SenderStep, Event, model, queue, thread,
    network, server, env
<1>21. CASE processAfterEnqueue
  BY <1>21 DEF processAfterEnqueue, SenderStep, processSendQueue, model,
    queue, thread, network, server, env
<1>22. ASSUME NEW v \in Intervals, editInterval(v) PROVE Counted'
  BY <1>22 DEF editInterval, model, queue, thread, network, server, env
<1>23. CASE UNCHANGED vars
  BY <1>23 DEF vars, model, queue, thread, network, server, env
<1>. QED BY <1>1, <1>2, <1>3, <1>4, <1>5, <1>6, <1>7, <1>8, <1>9, <1>10,
    <1>11, <1>12, <1>13, <1>14, <1>15, <1>16, <1>17, <1>18, <1>19, <1>20,
    <1>21, <1>22, <1>23 DEF Next, Network, Server, Callbacks, Thread

-----------------------------------------------------------------------------
(* The silence that the server hears.  A client that is not connected yet  *)
(* gives up after RECONNECT_SECONDS; a client that is connected sends a    *)
(* keepalive within KEEPALIVE_INTERVAL_SECONDS and the pass that finds it  *)
(* due; and in each pass the server counts a bounded number of seconds.    *)

\* What the times have to satisfy: with the 5, 15 and 30 seconds of the phone
\* and the server's 90, up to 8 seconds in a pass; three rounds of 2 s are 6.
Patience ==
  \A seconds \in RoundsPerTick :
    seconds * (RECONNECT_SECONDS + KEEPALIVE_INTERVAL_SECONDS + THREAD_INTERVAL_SECONDS)
      < THREAD_INTERVAL_SECONDS * ReceiveTimeout

\* The longest such round.
Longest ==
  (THREAD_INTERVAL_SECONDS * ReceiveTimeout - 1)
    \div (RECONNECT_SECONDS + KEEPALIVE_INTERVAL_SECONDS + THREAD_INTERVAL_SECONDS)

\* What the server may count while the phone counts so many seconds, and what it
\* has counted, both times the seconds of a pass.
Allowed(seconds) == Longest * seconds
Silent == THREAD_INTERVAL_SECONDS * mLastFrameTime

\* Products are monotone.
LEMMA Product ==
  ASSUME NEW a \in Nat, NEW b \in Nat, NEW d \in Nat, a <= b
  PROVE  a * d \in Nat /\ a * d <= b * d
<1>1. PICK c \in Nat : b = a + c
  <2>. WITNESS b - a \in Nat
  <2>. QED OBVIOUS
<1>2. b * d = a * d + c * d BY <1>1
<1>3. a * d \in Nat /\ c * d \in Nat BY <1>1
<1>. QED BY <1>2, <1>3

\* A quotient is the greatest number that fits.
LEMMA Quotient ==
  ASSUME NEW a \in Nat, NEW d \in Nat \ {0}
  PROVE  /\ a \div d \in Nat /\ (a \div d) * d <= a
         /\ \A n \in Nat : n * d <= a => n <= a \div d
<1>1. a \div d \in Nat /\ d * (a \div d) <= a OBVIOUS
<1>2. d * (a \div d) = (a \div d) * d BY <1>1
<1>3. ASSUME NEW n \in Nat, n * d <= a PROVE n <= a \div d BY <1>3
<1>. QED BY <1>1, <1>2, <1>3

\* Patience, said of the longest pass there may be.
LEMMA LongestRound ==
  ASSUME Patience
  PROVE  /\ Longest \in Nat
         /\ Allowed(RECONNECT_SECONDS + KEEPALIVE_INTERVAL_SECONDS + THREAD_INTERVAL_SECONDS)
              < THREAD_INTERVAL_SECONDS * ReceiveTimeout
         /\ \A seconds \in RoundsPerTick : seconds <= Longest
<1>. DEFINE d == RECONNECT_SECONDS + KEEPALIVE_INTERVAL_SECONDS + THREAD_INTERVAL_SECONDS
            a == THREAD_INTERVAL_SECONDS * ReceiveTimeout
<1>1. d \in Nat \ {0} BY ClientAssumption
<1>2. a \in Nat \ {0} BY ClientAssumption
<1>3. \A seconds \in RoundsPerTick : seconds \in Nat /\ seconds * d \in Nat /\ seconds * d < a
  BY <1>1, ClientAssumption DEF Patience
<1>. HIDE DEF a, d
<1>4. a - 1 \in Nat BY <1>2
<1>5. \A seconds \in RoundsPerTick : seconds * d <= a - 1 BY <1>2, <1>3
<1>6. /\ (a - 1) \div d \in Nat /\ ((a - 1) \div d) * d <= a - 1
      /\ \A seconds \in RoundsPerTick : seconds <= (a - 1) \div d
  BY <1>1, <1>3, <1>4, <1>5, Quotient
<1>7. Longest = (a - 1) \div d BY DEF Longest, a, d
<1>8. Longest \in Nat /\ Longest * d <= a - 1 BY <1>6, <1>7
<1>9. Longest * d \in Nat /\ Longest * d < a BY <1>1, <1>2, <1>8
<1>. QED BY <1>6, <1>7, <1>8, <1>9 DEF Allowed, a, d

\* More seconds of the phone allow the server more, in proportion.
LEMMA AllowedIsMonotone ==
  ASSUME Patience, NEW a \in Nat, NEW b \in Nat, a <= b
  PROVE  /\ Allowed(a) \in Nat /\ Allowed(a) <= Allowed(b)
         /\ Allowed(a + THREAD_INTERVAL_SECONDS)
              = Allowed(a) + Allowed(THREAD_INTERVAL_SECONDS)
         /\ Allowed(THREAD_INTERVAL_SECONDS) \in Nat
<1>1. Longest \in Nat /\ THREAD_INTERVAL_SECONDS \in Nat BY LongestRound, ClientAssumption
<1>2. a * Longest \in Nat /\ a * Longest <= b * Longest BY <1>1, Product
<1>. QED BY <1>1, <1>2 DEF Allowed

\* The socket is in use at both ends, between two steps of startConnect.
Settled ==
  mSocketState = "Connected" /\ session = "Connected" /\ maintenance \in {"sleep", "check"}

\* The seconds since the client last sent a keepalive or began to connect.
Waited ==
  IF mCommState = "Connected"
  THEN RECONNECT_SECONDS + keepAliveSendSecondsAgo
         + IF maintenance = "check" THEN THREAD_INTERVAL_SECONDS ELSE 0
  ELSE RECONNECT_SECONDS - mConnectTimeoutSeconds

Heard ==
  /\ mSocketState = "Connected" => linkUp \/ lossy
  /\ session = "Connecting" => mLastFrameTime = 0
  /\ mSocketState = "Connected" /\ "connected" \in pending => mLastFrameTime = 0
  /\ Settled => Silent <= Allowed(Waited) \/ (mCommState = "Connected" /\ Count(up) > 0)

\* The seconds that have passed at either end are a number.
LEMMA WaitedIsNat == Values => Waited \in Nat /\ mLastFrameTime \in Nat
BY ClientAssumption DEF Values, Waited

\* The server never counts more than it may, or a keepalive is on its way to it.
LEMMA HeardStep ==
  ASSUME Patience, Heard, Values, Carried, [Next]_vars
  PROVE  Heard'
<1>a. /\ Waited' \in Nat /\ Waited \in Nat /\ mLastFrameTime' \in Nat
      /\ mLastFrameTime \in Nat /\ Count(up) \in Nat /\ Count(up') \in Nat
  <2>1. Values' BY ValuesStep
  <2>2. Carried' BY CarriedStep
  <2>3. Waited' \in Nat /\ mLastFrameTime' \in Nat
    BY <2>1, ClientAssumption DEF Values, Waited
  <2>4. Waited \in Nat /\ mLastFrameTime \in Nat BY WaitedIsNat
  <2>5. Count(up) \in Nat BY CountIsNat DEF Carried
  <2>6. Count(up') \in Nat BY <2>2, CountIsNat DEF Carried
  <2>. QED BY <2>3, <2>4, <2>5, <2>6
<1>b. Silent \in Nat /\ Silent' \in Nat BY <1>a, ClientAssumption DEF Silent
<1>c. Allowed(Waited) \in Nat /\ Allowed(Waited') \in Nat BY <1>a, AllowedIsMonotone
<1>d. mLastFrameTime' = 0 => Silent' <= Allowed(Waited')
  <2>1. mLastFrameTime' = 0 => Silent' = 0 BY ClientAssumption DEF Silent
  <2>. QED BY <1>c, <2>1
<1>e. UNCHANGED <<mCommState, keepAliveSendSecondsAgo, maintenance, mConnectTimeoutSeconds>>
        => Waited' = Waited
  BY DEF Waited
<1>f. UNCHANGED mLastFrameTime => Silent' = Silent BY DEF Silent
<1>. USE <1>a, <1>b, <1>c, <1>d, <1>e, <1>f DEF Heard, Settled
<1>1. CASE linkFails
  BY <1>1 DEF linkFails, Event, model, queue, thread, network, server, env
<1>2. CASE linkReturns
  BY <1>2 DEF linkReturns, model, queue, thread, network, server, env
<1>3. CASE socketFails
  BY <1>3 DEF socketFails, model, queue, thread, network, server, env
<1>4. CASE connects
  BY <1>4 DEF connects, model, queue, thread, network, server, env
<1>5. CASE receiveFrame
  BY <1>5 DEF receiveFrame, model, queue, thread, network, server, env
<1>6. CASE pollInterval
  BY <1>6 DEF pollInterval, model, queue, thread, network, server, env
<1>7. CASE receiveName
  BY <1>7 DEF receiveName, model, queue, thread, network, server, env
<1>8. CASE handshakeTimesOut
  BY <1>8 DEF handshakeTimesOut, Event, model, queue, thread, network,
    server, env
<1>9. CASE keepAliveReceived
  BY <1>9 DEF keepAliveReceived, Received, model, queue, thread, network,
    server, env
<1>10. CASE intervalReceived
  BY <1>10 DEF intervalReceived, Received, model, queue, thread, network,
    server, env
<1>11. CASE serverNameReceived
  BY <1>11 DEF serverNameReceived, Received, model, queue, thread, network,
    server, env
<1>12. CASE connected
  <2>1. /\ mCommState' = "Connected" /\ pending' \subseteq pending \cup {"process"}
        /\ UNCHANGED <<mSocketState, session, linkUp, lossy, maintenance, mLastFrameTime, up,
                       keepAliveSendSecondsAgo, mConnectTimeoutSeconds>>
    BY <1>12 DEF connected, Returned, AfterConnect, changeState, thread, server
  <2>2. Settled => Waited <= Waited'
    BY <2>1, ClientAssumption DEF Waited, Values
  <2>3. Settled => Allowed(Waited) <= Allowed(Waited') BY <2>2, AllowedIsMonotone
  <2>. QED BY <2>1, <2>3
<1>13. CASE nameSend
  <2>1. /\ mCommState' = "NameSend" /\ pending' \subseteq pending \cup {"sendName"}
        /\ "connected" \in pending
        /\ UNCHANGED <<mSocketState, session, linkUp, lossy, maintenance, mLastFrameTime>>
    BY <1>13 DEF nameSend, Returned, changeState, thread, server
  <2>. QED BY <2>1
<1>14. CASE sendName
  <2>1. /\ pending' \subseteq pending
        /\ UNCHANGED <<mSocketState, session, linkUp, lossy, maintenance, mLastFrameTime,
                       mCommState, keepAliveSendSecondsAgo, mConnectTimeoutSeconds>>
    BY <1>14 DEF sendName, Returned, thread, server
  <2>2. Count(Append(up, Frame("name"))) = Count(up)
    BY FrameIsMessage, CountAppend DEF Carried
  <2>3. up' = up \/ up' = Append(up, Frame("name"))
    BY <1>14 DEF sendName, sendFrame
  <2>4. Count(up') = Count(up) BY <2>2, <2>3
  <2>. QED BY <2>1, <2>4
<1>15. CASE processAfterConnect
  <2>1. /\ pending' \subseteq pending
        /\ UNCHANGED <<mSocketState, session, linkUp, lossy, maintenance, mLastFrameTime,
                       mCommState, keepAliveSendSecondsAgo, mConnectTimeoutSeconds>>
    BY <1>15 DEF processAfterConnect, Returned, model, thread, server
  <2>2. mSendQueue \in Nat BY ClientAssumption DEF Values
  <2>3. Count(up \o [i \in 1..mSendQueue |-> Frame("object")]) = Count(up)
    BY <2>2, CountObjects DEF Carried
  <2>4. up' = up \/ up' = up \o [i \in 1..mSendQueue |-> Frame("object")]
    BY <1>15 DEF processAfterConnect, processSendQueue
  <2>5. Count(up') = Count(up) BY <2>3, <2>4
  <2>. QED BY <2>1, <2>5
<1>16. CASE wakeUp
  <2>1. /\ maintenance = "sleep" /\ pending = {} /\ pending' = {}
        /\ UNCHANGED <<mSocketState, mCommState, keepAliveSendSecondsAgo, linkUp, lossy, up>>
        /\ session = "Connecting" \/ session' # "Connecting"
    BY <1>16 DEF wakeUp, MaintenanceStep, RoundsPass, Prompt
  <2>2. CASE session = "Connected"
    <3>1. PICK seconds \in RoundsPerTick : mLastFrameTime' = mLastFrameTime + seconds
      BY <1>16, <2>2 DEF wakeUp, RoundsPass
    <3>2. /\ seconds \in Nat /\ seconds <= Longest /\ Longest \in Nat
          /\ THREAD_INTERVAL_SECONDS \in Nat
      BY LongestRound, ClientAssumption
    <3>3. seconds * THREAD_INTERVAL_SECONDS \in Nat
          /\ seconds * THREAD_INTERVAL_SECONDS <= Longest * THREAD_INTERVAL_SECONDS
      BY <3>2, Product
    <3>4. Silent' = Silent + seconds * THREAD_INTERVAL_SECONDS
      BY <3>1, <3>2 DEF Silent
    <3>5. Settled' => Waited' = Waited + THREAD_INTERVAL_SECONDS
      BY <1>16, <2>1, ClientAssumption DEF wakeUp, MaintenanceStep, Waited, Values
    <3>6. Allowed(Waited + THREAD_INTERVAL_SECONDS)
            = Allowed(Waited) + Longest * THREAD_INTERVAL_SECONDS
      BY AllowedIsMonotone DEF Allowed
    <3>7. Longest * THREAD_INTERVAL_SECONDS \in Nat BY <3>2
    <3>8. session' = "Connecting" => FALSE BY <2>1, <2>2
    <3>9. Settled' => Settled BY <2>1, <2>2
    <3>10. Settled' => Silent' <= Allowed(Waited') \/ (mCommState' = "Connected" /\ Count(up') > 0)
      BY <2>1, <3>3, <3>4, <3>5, <3>6, <3>7, <3>9
    <3>. QED BY <2>1, <3>8, <3>10
  <2>3. CASE session # "Connected"
    <3>1. UNCHANGED <<mLastFrameTime, session>> BY <1>16, <2>3 DEF wakeUp, RoundsPass
    <3>. QED BY <2>1, <2>3, <3>1
  <2>. QED BY <2>2, <2>3
<1>17. CASE startConnect
  BY <1>17 DEF startConnect, MaintenanceStep, changeState, Forgiven, model,
    queue, thread, network, server, env
<1>18. CASE replaceSocket
  BY <1>18 DEF replaceSocket, MaintenanceStep, model, queue, thread,
    network, server, env
<1>19. CASE checkSocket
  <2>1. /\ maintenance = "check" /\ maintenance' = "sleep"
        /\ UNCHANGED <<pending, linkUp, lossy, session, mLastFrameTime>>
    BY <1>19, CheckCases DEF MaintenanceStep
  <2>2. CASE GivesUp BY <2>1, <2>2 DEF GivesUp
  <2>3. CASE Sends
    <3>1. UNCHANGED <<mCommState, mSocketState>> /\ mCommState = "Connected"
      BY <2>3 DEF Sends, InUse
    <3>2. mSocketState = "Connected" => Count(up') > 0 BY <1>19, <2>3, KeepAliveAdded
    <3>. QED BY <2>1, <3>1, <3>2
  <2>4. CASE LetsPass
    <3>1. UNCHANGED <<mCommState, mSocketState, up>> BY <2>4 DEF LetsPass, model
    <3>2. Waited' = Waited
      BY <2>1, <2>4, ClientAssumption DEF LetsPass, InUse, Seconds, model, Waited, Values
    <3>. QED BY <2>1, <3>1, <3>2
  <2>5. CASE Drops
    <3>1. mSocketState' # "Connected" BY <2>5 DEF Drops, disconnect
    <3>. QED BY <2>1, <3>1
  <2>6. CASE NothingToDo
    <3>1. UNCHANGED <<mCommState, mSocketState, up>> BY <2>6 DEF NothingToDo, model
    <3>2. mSocketState = "Connected" => mCommState # "Connected"
      BY <2>6 DEF NothingToDo, InUse, isActive
    <3>3. mSocketState = "Connected" => Waited' = Waited
      BY <2>1, <2>6, <3>2 DEF NothingToDo, model, Waited
    <3>. QED BY <2>1, <3>1, <3>3
  <2>. QED BY <1>19, <2>2, <2>3, <2>4, <2>5, <2>6, CheckCases
<1>20. CASE sendObjectQueued
  BY <1>20 DEF sendObjectQueued, SenderStep, Event, model, queue, thread,
    network, server, env
<1>21. CASE processAfterEnqueue
  <2>1. /\ pending' \subseteq pending
        /\ UNCHANGED <<mSocketState, session, linkUp, lossy, maintenance, mLastFrameTime,
                       mCommState, keepAliveSendSecondsAgo, mConnectTimeoutSeconds>>
    BY <1>21 DEF processAfterEnqueue, SenderStep, model, thread, server
  <2>2. mSendQueue \in Nat BY ClientAssumption DEF Values
  <2>3. Count(up \o [i \in 1..mSendQueue |-> Frame("object")]) = Count(up)
    BY <2>2, CountObjects DEF Carried
  <2>4. up' = up \/ up' = up \o [i \in 1..mSendQueue |-> Frame("object")]
    BY <1>21 DEF processAfterEnqueue, processSendQueue
  <2>5. Count(up') = Count(up) BY <2>3, <2>4
  <2>. QED BY <2>1, <2>5
<1>22. ASSUME NEW v \in Intervals, editInterval(v) PROVE Heard'
  BY <1>22 DEF editInterval, model, queue, thread, network, server, env
<1>23. CASE UNCHANGED vars
  BY <1>23 DEF vars, model, queue, thread, network, server, env
<1>. QED BY <1>1, <1>2, <1>3, <1>4, <1>5, <1>6, <1>7, <1>8, <1>9, <1>10,
    <1>11, <1>12, <1>13, <1>14, <1>15, <1>16, <1>17, <1>18, <1>19, <1>20,
    <1>21, <1>22, <1>23 DEF Next, Network, Server, Callbacks, Thread

\* Only a round of the server gives up a client that has told its name.
LEMMA OnlyRounds ==
  ASSUME [Next]_vars, session = "Connected", session' = "gone"
  PROVE  wakeUp
<1>1. CASE linkFails
  BY <1>1 DEF linkFails, Event, model, queue, thread, network, server, env
<1>2. CASE linkReturns
  BY <1>2 DEF linkReturns, model, queue, thread, network, server, env
<1>3. CASE socketFails
  BY <1>3 DEF socketFails, model, queue, thread, network, server, env
<1>4. CASE connects
  BY <1>4 DEF connects, model, queue, thread, network, server, env
<1>5. CASE receiveFrame
  BY <1>5 DEF receiveFrame, model, queue, thread, network, server, env
<1>6. CASE pollInterval
  BY <1>6 DEF pollInterval, model, queue, thread, network, server, env
<1>7. CASE receiveName
  BY <1>7 DEF receiveName, model, queue, thread, network, server, env
<1>8. CASE handshakeTimesOut
  BY <1>8 DEF handshakeTimesOut, Event, model, queue, thread, network,
    server, env
<1>9. CASE keepAliveReceived
  BY <1>9 DEF keepAliveReceived, Received, model, queue, thread, network,
    server, env
<1>10. CASE intervalReceived
  BY <1>10 DEF intervalReceived, Received, model, queue, thread, network,
    server, env
<1>11. CASE serverNameReceived
  BY <1>11 DEF serverNameReceived, Received, model, queue, thread, network,
    server, env
<1>12. CASE connected
  BY <1>12 DEF connected, Returned, AfterConnect, changeState, model, queue,
    thread, network, server, env
<1>13. CASE nameSend
  BY <1>13 DEF nameSend, Returned, changeState, model, queue, thread,
    network, server, env
<1>14. CASE sendName
  BY <1>14 DEF sendName, Returned, sendFrame, model, queue, thread, network,
    server, env
<1>15. CASE processAfterConnect
  BY <1>15 DEF processAfterConnect, Returned, processSendQueue, model,
    queue, thread, network, server, env
<1>16. CASE wakeUp BY <1>16
<1>17. CASE startConnect
  BY <1>17 DEF startConnect, MaintenanceStep, changeState, Forgiven, model,
    queue, thread, network, server, env
<1>18. CASE replaceSocket
  BY <1>18 DEF replaceSocket, MaintenanceStep, model, queue, thread,
    network, server, env
<1>19. CASE checkSocket
  BY <1>19, CheckCases DEF model, queue, thread, network, server, env
<1>20. CASE sendObjectQueued
  BY <1>20 DEF sendObjectQueued, SenderStep, Event, model, queue, thread,
    network, server, env
<1>21. CASE processAfterEnqueue
  BY <1>21 DEF processAfterEnqueue, SenderStep, processSendQueue, model,
    queue, thread, network, server, env
<1>22. ASSUME NEW v \in Intervals, editInterval(v) PROVE wakeUp
  BY <1>22 DEF editInterval, model, queue, thread, network, server, env
<1>23. CASE UNCHANGED vars
  BY <1>23 DEF vars, model, queue, thread, network, server, env
<1>. QED BY <1>1, <1>2, <1>3, <1>4, <1>5, <1>6, <1>7, <1>8, <1>9, <1>10,
    <1>11, <1>12, <1>13, <1>14, <1>15, <1>16, <1>17, <1>18, <1>19, <1>20,
    <1>21, <1>22, <1>23 DEF Next, Network, Server, Callbacks, Thread

\* A round that gives up a connected client finds nothing under way, and so only
\* after more silence than Patience leaves, unless the link was down.
LEMMA TimesOutIfLost ==
  ASSUME Patience, Heard, Values, Carried, [Next]_vars, mCommState = "Connected",
         mSocketState = "Connected", session = "Connected", session' = "gone"
  PROVE  lossy
<1>. SUFFICES ASSUME ~lossy PROVE FALSE
  OBVIOUS
<1>1. wakeUp BY OnlyRounds
<1>2. PICK seconds \in RoundsPerTick : /\ mLastFrameTime' = mLastFrameTime + seconds
                                       /\ mLastFrameTime' >= ReceiveTimeout
  BY <1>1 DEF wakeUp, RoundsPass
<1>3. maintenance = "sleep" /\ up = <<>>
  BY <1>1 DEF wakeUp, MaintenanceStep, Prompt, Heard
<1>4. Count(up) = 0 BY <1>3, CountIsNat DEF Carried
<1>5. Silent <= Allowed(Waited) BY <1>3, <1>4 DEF Heard, Settled
<1>. DEFINE most == RECONNECT_SECONDS + KEEPALIVE_INTERVAL_SECONDS
<1>6. most \in Nat /\ Waited \in Nat /\ Waited <= most
  BY <1>3, ClientAssumption DEF Waited, Values
<1>7. /\ Allowed(Waited) \in Nat /\ Allowed(Waited) <= Allowed(most) /\ Allowed(most) \in Nat
      /\ Allowed(most + THREAD_INTERVAL_SECONDS)
           = Allowed(most) + Allowed(THREAD_INTERVAL_SECONDS)
  <2>. HIDE DEF most
  <2>. QED BY <1>6, AllowedIsMonotone
<1>8. /\ seconds \in Nat /\ seconds <= Longest /\ Longest \in Nat
      /\ THREAD_INTERVAL_SECONDS \in Nat /\ mLastFrameTime \in Nat /\ ReceiveTimeout \in Nat
  BY LongestRound, ClientAssumption DEF Values
<1>9. /\ seconds * THREAD_INTERVAL_SECONDS \in Nat
      /\ seconds * THREAD_INTERVAL_SECONDS <= Longest * THREAD_INTERVAL_SECONDS
  BY <1>8, Product
<1>10. Silent' = Silent + seconds * THREAD_INTERVAL_SECONDS /\ Silent \in Nat
  BY <1>2, <1>8 DEF Silent
<1>11. ReceiveTimeout * THREAD_INTERVAL_SECONDS <= mLastFrameTime' * THREAD_INTERVAL_SECONDS
  BY <1>2, <1>8, Product
<1>12. THREAD_INTERVAL_SECONDS * ReceiveTimeout <= Silent' BY <1>2, <1>8, <1>11 DEF Silent
<1>13. Allowed(THREAD_INTERVAL_SECONDS) = Longest * THREAD_INTERVAL_SECONDS
       /\ Allowed(THREAD_INTERVAL_SECONDS) \in Nat
  BY <1>8 DEF Allowed
<1>14. Allowed(most + THREAD_INTERVAL_SECONDS) < THREAD_INTERVAL_SECONDS * ReceiveTimeout
  BY LongestRound
<1>15. THREAD_INTERVAL_SECONDS * ReceiveTimeout \in Nat BY <1>8
<1>. QED BY <1>5, <1>7, <1>9, <1>10, <1>12, <1>13, <1>14, <1>15

-----------------------------------------------------------------------------
(* The interval that is on its way, and the one the server has on record.  *)

\* What SettingUnderWay says of what is carried (s), of the record (v) and of what
\* the phone obeys (r).
Record(s, v, r) ==
  /\ \A i \in 1..Len(s) :
       IsInterval(s[i]) /\ (\A j \in (i + 1)..Len(s) : ~IsInterval(s[j]))
         => s[i] = IntervalFrame(v)
  /\ (\A i \in 1..Len(s) : ~IsInterval(s[i])) => r = v

\* A message that is no interval changes nothing when it is added,
LEMMA RecordAppend ==
  ASSUME NEW s \in Seq(Messages), NEW x \in Messages, ~IsInterval(x), NEW v, NEW r,
         Record(s, v, r)
  PROVE  Record(Append(s, x), v, r)
<1>. DEFINE t == Append(s, x)
<1>1. /\ Len(t) = Len(s) + 1 /\ t[Len(s) + 1] = x /\ Len(s) \in Nat
      /\ \A i \in 1..Len(s) : t[i] = s[i]
  BY AppendProperties, LenProperties
<1>2. ASSUME NEW i \in 1..Len(t), IsInterval(t[i]),
             \A j \in (i + 1)..Len(t) : ~IsInterval(t[j])
      PROVE  t[i] = IntervalFrame(v)
  <2>1. i \in 1..Len(s) /\ IsInterval(s[i]) BY <1>1, <1>2
  <2>2. \A j \in (i + 1)..Len(s) : ~IsInterval(s[j])
    <3>1. \A j \in (i + 1)..Len(s) : j \in (i + 1)..Len(t) /\ t[j] = s[j] BY <1>1, <2>1
    <3>. QED BY <1>2, <3>1
  <2>. QED BY <1>1, <2>1, <2>2 DEF Record
<1>3. ASSUME \A i \in 1..Len(t) : ~IsInterval(t[i]) PROVE r = v
  <2>1. \A i \in 1..Len(s) : i \in 1..Len(t) /\ t[i] = s[i] BY <1>1
  <2>. QED BY <1>3, <2>1 DEF Record
<1>. QED BY <1>2, <1>3 DEF Record

\* an interval that is put on record is the last one under way,
LEMMA RecordPoll ==
  ASSUME NEW s \in Seq(Messages), NEW v \in Intervals, NEW r
  PROVE  Record(Append(s, IntervalFrame(v)), v, r)
<1>. DEFINE t == Append(s, IntervalFrame(v))
<1>1. /\ IntervalFrame(v) \in Messages /\ IsInterval(IntervalFrame(v))
  BY FrameIsMessage DEF IsInterval
<1>2. /\ Len(t) = Len(s) + 1 /\ t[Len(s) + 1] = IntervalFrame(v) /\ Len(s) \in Nat
  BY <1>1, AppendProperties, LenProperties
<1>. HIDE DEF t
<1>3. ASSUME NEW i \in 1..Len(t), i # Len(s) + 1
      PROVE  Len(s) + 1 \in (i + 1)..Len(t)
  BY <1>2, <1>3
<1>4. \A i \in 1..Len(t) :
        (\A j \in (i + 1)..Len(t) : ~IsInterval(t[j])) => t[i] = IntervalFrame(v)
  BY <1>1, <1>2, <1>3
<1>5. ~(\A i \in 1..Len(t) : ~IsInterval(t[i])) BY <1>1, <1>2
<1>. QED BY <1>4, <1>5 DEF Record, t

\* and what is taken off the front is obeyed if it is one.
LEMMA RecordTail ==
  ASSUME NEW s \in Seq(Messages), s # <<>>, NEW v, NEW r, Record(s, v, r)
  PROVE  Record(Tail(s), v, IF IsInterval(Head(s)) THEN Head(s)[2] ELSE r)
<1>. DEFINE t == Tail(s)
            q == IF IsInterval(Head(s)) THEN Head(s)[2] ELSE r
<1>1. /\ Len(t) = Len(s) - 1 /\ Len(s) \in Nat \ {0}
      /\ Head(s) = s[1] /\ \A i \in 1..Len(t) : t[i] = s[i + 1]
  BY HeadTailProperties, LenProperties, EmptySeq
<1>. HIDE DEF t
<1>2. ASSUME NEW i \in 1..Len(t), IsInterval(t[i]),
             \A j \in (i + 1)..Len(t) : ~IsInterval(t[j])
      PROVE  t[i] = IntervalFrame(v)
  <2>1. i + 1 \in 1..Len(s) /\ t[i] = s[i + 1] BY <1>1
  <2>2. ASSUME NEW j \in ((i + 1) + 1)..Len(s) PROVE ~IsInterval(s[j])
    <3>1. j - 1 \in (i + 1)..Len(t) /\ j - 1 \in 1..Len(t) /\ (j - 1) + 1 = j BY <1>1
    <3>2. t[j - 1] = s[j] BY <1>1, <3>1
    <3>. QED BY <1>2, <3>1, <3>2
  <2>. QED BY <1>2, <2>1, <2>2 DEF Record
<1>3. ASSUME \A i \in 1..Len(t) : ~IsInterval(t[i]) PROVE q = v
  <2>1. ASSUME NEW j \in 2..Len(s) PROVE ~IsInterval(s[j])
    <3>1. j - 1 \in 1..Len(t) /\ (j - 1) + 1 = j BY <1>1
    <3>2. t[j - 1] = s[j] BY <1>1, <3>1
    <3>. QED BY <1>3, <3>1, <3>2
  <2>2. CASE IsInterval(Head(s))
    <3>1. 1 \in 1..Len(s) /\ \A j \in (1 + 1)..Len(s) : ~IsInterval(s[j]) BY <1>1, <2>1
    <3>2. s[1] = IntervalFrame(v) BY <1>1, <2>2, <3>1 DEF Record
    <3>. QED BY <1>1, <2>2, <3>2 DEF IntervalFrame
  <2>3. CASE ~IsInterval(Head(s))
    <3>1. \A j \in 1..Len(s) : ~IsInterval(s[j]) BY <1>1, <2>1, <2>3
    <3>. QED BY <2>3, <3>1 DEF Record
  <2>. QED BY <2>2, <2>3
<1>. QED BY <1>2, <1>3 DEF Record, t

\* A connection begins with nothing on record; from then on every step of either
\* end, and of the network, keeps the record and what is carried together.
LEMMA SettingStep == SettingUnderWay /\ Carried /\ Values /\ [Next]_vars => SettingUnderWay'
<1>. SUFFICES ASSUME SettingUnderWay, Carried, Values, [Next]_vars PROVE SettingUnderWay'
  OBVIOUS
<1>a. /\ mSocketState = "Connected" /\ locationInterval # 0
           => Record(down, locationInterval, mRequestedInterval)
      /\ (mSocketState' = "Connected" /\ locationInterval' # 0
           => Record(down', locationInterval', mRequestedInterval')) => SettingUnderWay'
  BY DEF SettingUnderWay, Record
<1>b. ASSUME UNCHANGED <<down, locationInterval, mRequestedInterval>>,
             mSocketState' = "Connected" => mSocketState = "Connected"
      PROVE  SettingUnderWay'
  BY <1>a, <1>b
<1>1. CASE linkFails \/ linkReturns \/ socketFails
  BY <1>1, <1>b DEF linkFails, linkReturns, socketFails, network, server
<1>2. CASE connects
  BY <1>2, <1>a DEF connects
<1>3. CASE receiveFrame
  <2>1. UNCHANGED <<locationInterval, mRequestedInterval, mSocketState>>
    BY <1>3 DEF receiveFrame
  <2>2. Head(up) \in Messages BY <1>3, HeadTailProperties DEF receiveFrame, Carried
  <2>3. down' \in {down, Append(down, Head(up))} /\ (down' # down => ~IsInterval(Head(up)))
    <3>1. down' \in {down, down \o Echo(Head(up))} BY <1>3 DEF receiveFrame
    <3>2. CASE Kind(Head(up)) = "keepalive"
      <4>1. down \o Echo(Head(up)) = Append(down, Head(up))
        BY <2>2, <3>2, AppendIsConcat DEF Echo, Carried
      <4>. QED BY <3>1, <3>2, <4>1 DEF IsInterval
    <3>3. CASE Kind(Head(up)) # "keepalive"
      <4>1. down \o Echo(Head(up)) = down
        BY <3>3, EmptySeq, ConcatEmptySeq DEF Echo, Carried
      <4>. QED BY <3>1, <4>1
    <3>. QED BY <3>2, <3>3
  <2>. QED BY <1>a, <2>1, <2>2, <2>3, RecordAppend DEF Carried
<1>4. CASE pollInterval
  <2>1. /\ locationInterval' = interval /\ interval \in Intervals
        /\ down' = Append(down, IntervalFrame(interval))
    BY <1>4 DEF pollInterval, Polled, Values
  <2>. QED BY <1>a, <2>1, RecordPoll DEF Carried
<1>5. CASE receiveName
  <2>1. /\ down' = Append(down, Frame("servername"))
        /\ UNCHANGED <<locationInterval, mRequestedInterval, mSocketState>>
    BY <1>5 DEF receiveName
  <2>2. Frame("servername") \in Messages /\ ~IsInterval(Frame("servername"))
    BY FrameIsMessage DEF IsInterval
  <2>. QED BY <1>a, <2>1, <2>2, RecordAppend DEF Carried
<1>6. CASE handshakeTimesOut
  BY <1>6, <1>b DEF handshakeTimesOut, network
<1>7. CASE keepAliveReceived \/ serverNameReceived \/ intervalReceived
  <2>1. /\ down # <<>> /\ down' = Tail(down) /\ UNCHANGED <<locationInterval, mSocketState>>
        /\ mRequestedInterval' = IF IsInterval(Head(down)) THEN Head(down)[2]
                                 ELSE mRequestedInterval
    BY <1>7 DEF keepAliveReceived, serverNameReceived, intervalReceived, Received, server,
      IsInterval
  <2>. QED BY <1>a, <2>1, RecordTail DEF Carried
<1>8. CASE connected \/ nameSend \/ sendName \/ processAfterConnect
  BY <1>8, <1>b DEF connected, nameSend, sendName, processAfterConnect, Returned, server
<1>9. CASE wakeUp \/ startConnect
  BY <1>9, <1>b DEF wakeUp, startConnect, MaintenanceStep
<1>10. CASE replaceSocket
  BY <1>10, <1>a DEF replaceSocket
<1>11. CASE checkSocket
  <2>1. /\ UNCHANGED <<down, locationInterval, mRequestedInterval>>
        /\ mSocketState' = "Connected" => mSocketState = "Connected"
    BY <1>11, CheckCases
       DEF MaintenanceStep, GivesUp, Sends, LetsPass, Drops, NothingToDo, disconnect
  <2>. QED BY <1>b, <2>1
<1>12. CASE sendObjectQueued \/ processAfterEnqueue
  BY <1>12, <1>b DEF sendObjectQueued, processAfterEnqueue, SenderStep, server
<1>13. ASSUME NEW v \in Intervals, editInterval(v) PROVE SettingUnderWay'
  BY <1>13, <1>b DEF editInterval, network, server
<1>14. CASE UNCHANGED vars
  BY <1>14, <1>b DEF vars, network, server
<1>. QED BY <1>1, <1>2, <1>3, <1>4, <1>5, <1>6, <1>7, <1>8, <1>9, <1>10,
    <1>11, <1>12, <1>13, <1>14 DEF Next, Network, Server, Callbacks, Thread

-----------------------------------------------------------------------------
(* The theorems.                                                           *)

\* The invariant; Heard is apart, since only it needs Patience.
Inv == Values /\ Flags /\ Noticed /\ Carried /\ Fresh /\ Counted

\* It holds at the start, where nothing is connected and nothing counted.
LEMMA InvInit == Init => Inv /\ Heard
<1>. SUFFICES ASSUME Init PROVE Inv /\ Heard
  OBVIOUS
<1>1. Values BY ClientAssumption DEF Init, Values
<1>2. Flags BY DEF Init, Flags
<1>3. Noticed /\ Fresh /\ Heard BY DEF Init, Noticed, Fresh, Heard, Settled
<1>4. Carried BY EmptySeq DEF Init, Carried
<1>5. Counted BY DEF Init, Counted
<1>. QED BY <1>1, <1>2, <1>3, <1>4, <1>5 DEF Inv

\* Every step preserves it.
LEMMA InvStep == Inv /\ [Next]_vars => Inv'
BY ValuesStep, FlagsStep, NoticedStep, CarriedStep, FreshStep, CountedStep DEF Inv

\* The variables keep their types; in particular the connect timer, which counts
\* down past zero, and the keepalives that were not answered, which the answer to a
\* keepalive of the socket before it may take below zero, stay within bounds
\* (CommModel.cs:124, 338-350, 423-426).
THEOREM ClientTypeOK == Spec => []TypeOK
<1>1. Inv => TypeOK
  <2>. SUFFICES ASSUME Inv PROVE TypeOK
    OBVIOUS
  <2>1. mSendQueue \in 0..MaxEvents BY ClientAssumption DEF Inv, Values
  <2>2. told \in BOOLEAN /\ named \in BOOLEAN BY DEF Inv, Flags
  <2>3. mOutstandingKeepAlives \in -1..1 BY DEF Inv, Counted
  <2>. QED BY <2>1, <2>2, <2>3 DEF Inv, Values, TypeOK
<1>. QED BY <1>1, InvInit, InvStep, PTL DEF Spec

\* An object does not stay in the queue of a client that is connected, whoever
\* queued it and whatever became of the connection meanwhile
\* (CommModel.cs:89-97, 111-117).
THEOREM NothingStranded == Spec => []NoStrandedObject
<1>1. Inv => NoStrandedObject
  BY ClientAssumption DEF Inv, Noticed, Values, NoStrandedObject
<1>. QED BY <1>1, InvInit, InvStep, PTL DEF Spec

\* On every connection the phone ends up with the interval the server has on
\* record for it once it has read what is on its way, for any number of edits,
\* reconnections and losses (Server.cpp:189, HomeControlService.cs).
THEOREM SettingsKeepUp == Spec => []SettingUnderWay
<1>1. Init => SettingUnderWay BY DEF Init, SettingUnderWay
<1>2. SettingUnderWay /\ Inv /\ [Next]_vars => SettingUnderWay' BY SettingStep DEF Inv
<1>. QED BY <1>1, <1>2, InvInit, InvStep, PTL DEF Spec

\* For any times in which the client's patience and its keepalives leave the server
\* no reason to (Patience), the server does not time out a client that is connected
\* unless the link was down since the client last had an answer (Client.cpp:92-96,
\* CommModel.cs:338-350, 421-446).
THEOREM HealthyClientStays ==
  ASSUME Patience
  PROVE  Spec => HealthyStays
<1>1. Inv /\ Heard /\ [Next]_vars => Heard' BY HeardStep DEF Inv
<1>2. Inv /\ Heard /\ [Next]_vars
        => [mCommState = "Connected" /\ mSocketState = "Connected"
              /\ session = "Connected" /\ session' = "gone" => lossy]_vars
  BY TimesOutIfLost DEF Inv
<1>. QED BY <1>1, <1>2, InvInit, InvStep, PTL DEF Spec, HealthyStays
=============================================================================
