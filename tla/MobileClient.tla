---------------------------- MODULE MobileClient ----------------------------
(***************************************************************************)
(* The phone's connection to the server: CommModel and AsyncCloudSocket,   *)
(* with the side of the server that times it out and polls its settings    *)
(* (Client, Server::maintenanceThread), and HomeControlService, which      *)
(* obeys the location interval.                                            *)
(*                                                                         *)
(* Three kinds of threads share CommModel without a common lock: its       *)
(* maintenance thread (maintenance), the callbacks of the socket (pending) *)
(* and whoever sends an object (sender).  Only the connection in use is    *)
(* kept; a callback of the socket before it may still be pending, but that *)
(* socket's handlers are gone.  Time passes in the sleeps of the           *)
(* maintenance thread, and what a link that is up has to do, a callback or *)
(* a sender too, is done before the next sleep ends (Prompt).              *)
(***************************************************************************)
EXTENDS Integers, Sequences

CONSTANTS
  THREAD_INTERVAL_SECONDS, RECONNECT_SECONDS, KEEPALIVE_INTERVAL_SECONDS,
  RoundsPerTick,           \* seconds of server rounds within one sleep
  ReceiveTimeout,          \* RECEIVE_TIMEOUT_MS of the server, in seconds
  LateCallbacks,           \* the handler of a server name may be overtaken
  Intervals,               \* location intervals; 0 lets the phone decide
  MaxEvents                \* bound: objects, edits, link losses, slow handshakes

ASSUME ClientAssumption ==
  /\ {THREAD_INTERVAL_SECONDS, RECONNECT_SECONDS, ReceiveTimeout} \subseteq Nat \ {0}
  /\ KEEPALIVE_INTERVAL_SECONDS \in Nat /\ MaxEvents \in Nat
  /\ RoundsPerTick \subseteq Nat \ {0} /\ LateCallbacks \in BOOLEAN
  /\ 0 \in Intervals /\ Intervals \subseteq Nat

VARIABLES
  mCommState, mConnectTimeoutSeconds, mOutstandingKeepAlives, mSendQueue,
  told,                    \* what the receivers were told: connected or not
  mSocketState,            \* of mCloudSocket, or "null"
  maintenance, keepAliveSendSecondsAgo,
  pending,                 \* handlers that were called and have not returned
  sender,                  \* a thread in sendObjectQueued
  mRequestedInterval,      \* the interval HomeControlService obeys
  linkUp, up, down,        \* the network, and what it carries
  lossy,                   \* it was down since the client heard of the server
  session, named, mLastFrameTime, locationInterval, \* the server's Client
  interval, events         \* the column of the database; what happened so far

model   == <<mCommState, mConnectTimeoutSeconds, mOutstandingKeepAlives, told>>
queue   == <<mSendQueue, sender>>
thread  == <<maintenance, keepAliveSendSecondsAgo>>
network == <<linkUp, up, down>>
server  == <<session, named, mLastFrameTime, locationInterval>>
env     == <<interval, events>>
vars == <<model, queue, thread, mSocketState, pending, mRequestedInterval,
          network, lossy, server, env>>

\* startComm sets the state without changeState: the first pass connects.
Init ==
  /\ mCommState = "Disconnected" /\ mConnectTimeoutSeconds = 0
  /\ mOutstandingKeepAlives = 0 /\ told = FALSE
  /\ mSendQueue = 0 /\ sender = "idle"
  /\ mSocketState = "null" /\ pending = {}
  /\ maintenance = "sleep" /\ keepAliveSendSecondsAgo = 0
  /\ mRequestedInterval = 0
  /\ linkUp \in BOOLEAN /\ up = <<>> /\ down = <<>> /\ lossy = FALSE
  /\ session = "none" /\ named = FALSE /\ mLastFrameTime = 0 /\ locationInterval = 0
  /\ interval \in Intervals /\ events = 0

isActive == mSocketState \in {"Connecting", "Connected"}

\* What CommModel::changeState does beside setting the state.  It tells the receivers,
\* drops the socket and then sets the state, in one step here: its lock of mReceivers
\* (CommModel.cs:223, 243, 359), also against mLock, is left out.
changeState(new) ==
  /\ mCommState' = new
  /\ told' = IF <<mCommState, new>> = <<"NameSend", "Connected">> THEN TRUE
             ELSE IF <<mCommState, new>> = <<"Connected", "Disconnected">> THEN FALSE
             ELSE told

\* What the network carries: names, keepalives, objects; intervals have a value.
Frame(kind)       == <<kind, 0>>
IntervalFrame(v)  == <<"interval", v>>
Kind(frame)       == frame[1]

\* AsyncCloudSocket::sendFrame.
sendFrame(frame) ==
  up' = IF mSocketState = "Connected" THEN Append(up, frame) ELSE up

-----------------------------------------------------------------------------
(* The network.                                                            *)

Prompt ==
  /\ pending = {} /\ sender = "idle"
  /\ linkUp => up = <<>> /\ mSocketState # "Connecting"
  /\ linkUp /\ mSocketState = "Connected" => down = <<>>

Event == events < MaxEvents /\ events' = events + 1

linkFails ==
  /\ Event /\ linkUp /\ linkUp' = FALSE /\ lossy' = TRUE
  /\ UNCHANGED <<model, queue, thread, mSocketState, pending, mRequestedInterval,
                 up, down, server, interval>>

linkReturns ==
  /\ ~linkUp /\ linkUp' = TRUE
  /\ UNCHANGED <<model, queue, thread, mSocketState, pending, mRequestedInterval,
                 up, down, lossy, server, env>>

connects_Remembers ==
  /\ mSocketState = "Connecting" /\ linkUp
  /\ mSocketState' = "Connected" /\ pending' = pending \cup {"connected"}
  /\ session' = "Connecting" /\ named' = FALSE /\ mLastFrameTime' = 0
  /\ UNCHANGED <<model, queue, thread, mRequestedInterval, network, lossy,
                 locationInterval, env>>

\* ConnectCallback, up to the call of the handler; replaceSocket has attached that one
\* (CommModel.cs:295) before a connection begun at 293 is there.
connects ==
  /\ mSocketState = "Connecting" /\ linkUp
  /\ mSocketState' = "Connected" /\ pending' = pending \cup {"connected"}
  /\ session' = "Connecting" /\ named' = FALSE
  /\ mLastFrameTime' = 0 /\ locationInterval' = 0
  /\ UNCHANGED <<model, queue, thread, mRequestedInterval, network, lossy, env>>

\* The connection fails, or an operation on it throws: it was reset, or timed out.
socketFails ==
  /\ \/ mSocketState = "Connecting" /\ ~linkUp
     \/ mSocketState = "Connected" /\ (~linkUp \/ session = "gone")
  /\ mSocketState' = "Failed"
  /\ UNCHANGED <<model, queue, thread, pending, mRequestedInterval, network, lossy,
                 server, env>>

-----------------------------------------------------------------------------
(* The server.                                                             *)

\* Client::receiveFrame: the first frame is the name, whatever it is.
receiveName ==
  /\ linkUp /\ up # <<>> /\ session = "Connecting"
  /\ session' = "Connected" /\ named' = (Kind(Head(up)) = "name")
  /\ up' = Tail(up) /\ down' = Append(down, Frame("servername"))
  /\ UNCHANGED <<model, queue, thread, mSocketState, pending, mRequestedInterval,
                 linkUp, lossy, mLastFrameTime, locationInterval, env>>

Echo(frame) == IF Kind(frame) = "keepalive" THEN <<frame>> ELSE <<>>

\* Later ones are objects; a keepalive is sent back.
receiveFrame ==
  /\ linkUp /\ up # <<>> /\ session \in {"Connected", "gone"}
  /\ up' = Tail(up)
  /\ IF session = "Connected"
     THEN mLastFrameTime' = 0 /\ down' = down \o Echo(Head(up))
     ELSE UNCHANGED <<mLastFrameTime, down>>
  /\ UNCHANGED <<model, queue, thread, mSocketState, pending, mRequestedInterval,
                 linkUp, lossy, session, named, locationInterval, env>>

\* A round comes between the connection and its name.
handshakeTimesOut ==
  /\ Event /\ session = "Connecting" /\ session' = "gone"
  /\ UNCHANGED <<model, queue, thread, mSocketState, pending, mRequestedInterval,
                 network, lossy, named, mLastFrameTime, locationInterval, interval>>

Polled_Old == IntervalFrame(locationInterval)
Polled == IntervalFrame(interval)

\* A round finds that the interval of the client's row has changed.
pollInterval ==
  /\ session = "Connected" /\ named /\ interval # locationInterval
  /\ locationInterval' = interval /\ down' = Append(down, Polled)
  /\ UNCHANGED <<model, queue, thread, mSocketState, pending, mRequestedInterval,
                 linkUp, up, lossy, session, named, mLastFrameTime, env>>

\* The database is edited by hand.
editInterval(v) ==
  /\ Event /\ v # interval /\ interval' = v
  /\ UNCHANGED <<model, queue, thread, mSocketState, pending, mRequestedInterval,
                 network, lossy, server>>

-----------------------------------------------------------------------------
(* Callbacks of the socket.                                                *)

Received(handlers) ==
  /\ linkUp /\ down # <<>> /\ mSocketState = "Connected"
  /\ pending \cap {"servername", "process"} = {}
  /\ down' = Tail(down) /\ pending' = pending \cup handlers
  /\ UNCHANGED <<mCommState, mConnectTimeoutSeconds, told, queue, thread, mSocketState,
                 linkUp, up, server, env>>

Returned(handler, next) ==
  /\ handler \in pending /\ pending' = (pending \ {handler}) \cup next
  /\ UNCHANGED <<mConnectTimeoutSeconds, mOutstandingKeepAlives, thread, mSocketState,
                 mRequestedInterval, linkUp, down, lossy, server, env>>

\* OnCloudFrameReceived; the interval is handed on to HomeControlService.
keepAliveReceived ==
  /\ Received({}) /\ Kind(Head(down)) = "keepalive"
  /\ mOutstandingKeepAlives' = mOutstandingKeepAlives - 1 /\ lossy' = FALSE
  /\ UNCHANGED mRequestedInterval

\* HomeControlService has it posted to the main looper (219-252), which keeps the order
\* of what is posted; here it is applied at once.
intervalReceived ==
  /\ Received({}) /\ Kind(Head(down)) = "interval"
  /\ mRequestedInterval' = Head(down)[2]
  /\ UNCHANGED <<mOutstandingKeepAlives, lossy>>

serverNameReceived ==
  /\ Received({"servername"}) /\ Kind(Head(down)) = "servername"
  /\ LateCallbacks \/ maintenance # "replace"
  /\ lossy' = (lossy /\ mOutstandingKeepAlives > 0)
  /\ UNCHANGED <<mOutstandingKeepAlives, mRequestedInterval>>

AfterConnect_Forgotten == {}
AfterConnect == {"process"}

connected ==
  /\ Returned("servername", AfterConnect) /\ changeState("Connected")
  /\ UNCHANGED <<queue, up>>

\* OnCloudSocketConnected.
nameSend ==
  /\ Returned("connected", {"sendName"}) /\ changeState("NameSend")
  /\ UNCHANGED <<queue, up>>

sendName ==
  /\ Returned("sendName", {}) /\ sendFrame(Frame("name"))
  /\ UNCHANGED <<queue, mCommState, told>>

\* What can be sent is sent, under the lock of the queue.  The look at the state before
\* that lock (301) is part of the step: no reconnection comes between the two.
processSendQueue ==
  IF mCommState = "Connected" /\ mSocketState = "Connected"
  THEN /\ mSendQueue' = 0
       /\ up' = up \o [i \in 1..mSendQueue |-> Frame("object")]
  ELSE UNCHANGED <<mSendQueue, up>>

processAfterConnect ==
  /\ Returned("process", {}) /\ processSendQueue
  /\ UNCHANGED <<mCommState, told, sender>>

-----------------------------------------------------------------------------
(* A sender.                                                               *)

SenderStep(from, to) ==
  /\ sender = from /\ sender' = to
  /\ UNCHANGED <<model, thread, mSocketState, pending, mRequestedInterval, linkUp,
                 down, lossy, server, interval>>

sendObjectQueued ==
  /\ Event
  /\ SenderStep("idle", "process") /\ mSendQueue' = mSendQueue + 1
  /\ UNCHANGED up

processAfterEnqueue ==
  SenderStep("process", "idle") /\ processSendQueue /\ UNCHANGED events

-----------------------------------------------------------------------------
(* The maintenance thread.                                                 *)

MaintenanceStep(from, to) ==
  /\ maintenance = from /\ maintenance' = to
  /\ UNCHANGED <<queue, pending, mRequestedInterval, linkUp, lossy, locationInterval,
                 env>>

\* The server counts its rounds meanwhile, and deletes a silent client.
RoundsPass ==
  IF session = "Connected"
  THEN \E seconds \in RoundsPerTick :
         /\ mLastFrameTime' = mLastFrameTime + seconds
         /\ session' = IF mLastFrameTime' >= ReceiveTimeout THEN "gone" ELSE session
  ELSE UNCHANGED <<mLastFrameTime, session>>

ReconnectDue_AtZero(left) == left = 0
ReconnectDue(left) == left <= 0

wakeUp ==
  LET left == mConnectTimeoutSeconds - THREAD_INTERVAL_SECONDS
  IN /\ Prompt /\ RoundsPass
     /\ IF mCommState = "Connected"
        THEN /\ MaintenanceStep("sleep", "check") /\ UNCHANGED mConnectTimeoutSeconds
        ELSE /\ MaintenanceStep("sleep", IF ReconnectDue(left) THEN "connect" ELSE "check")
             /\ mConnectTimeoutSeconds' = left
     /\ UNCHANGED <<mCommState, mOutstandingKeepAlives, told, mSocketState,
                    keepAliveSendSecondsAgo, up, down, named>>

\* The handler of a server name has returned, unless it may be overtaken.
InTime == LateCallbacks \/ "servername" \notin pending

Forgiven_Never == mOutstandingKeepAlives
Forgiven == 0

\* startConnect: the state first,
startConnect ==
  /\ MaintenanceStep("connect", "replace") /\ InTime
  /\ mOutstandingKeepAlives' = Forgiven /\ mConnectTimeoutSeconds' = RECONNECT_SECONDS
  /\ changeState("Connecting")
  /\ UNCHANGED <<keepAliveSendSecondsAgo, mSocketState, up, down, session, named,
                 mLastFrameTime>>

\* and then, under mLock, the socket.
replaceSocket ==
  /\ MaintenanceStep("replace", "check") /\ InTime
  /\ mSocketState' = "Connecting" /\ up' = <<>> /\ down' = <<>>
  /\ session' = "none" /\ named' = FALSE /\ mLastFrameTime' = 0
  /\ UNCHANGED <<model, keepAliveSendSecondsAgo>>

\* changeState(Disconnected); from Connected it also drops the socket.
disconnect ==
  /\ changeState("Disconnected")
  /\ IF mCommState = "Connected"
     THEN mConnectTimeoutSeconds' = RECONNECT_SECONDS /\ mSocketState' = "null"
     ELSE UNCHANGED <<mConnectTimeoutSeconds, mSocketState>>

sendKeepAlive ==
  IF mOutstandingKeepAlives > 0
  THEN disconnect /\ UNCHANGED <<mOutstandingKeepAlives, up>>
  ELSE /\ sendFrame(Frame("keepalive"))
       /\ mOutstandingKeepAlives' = mOutstandingKeepAlives + 1
       /\ UNCHANGED <<mCommState, told, mConnectTimeoutSeconds, mSocketState>>

KeepAliveDue_Rarely(seconds) == seconds > 4 * KEEPALIVE_INTERVAL_SECONDS
KeepAliveDue(seconds) == seconds > KEEPALIVE_INTERVAL_SECONDS

\* The second half of a pass, under mLock.
checkSocket ==
  LET ago == keepAliveSendSecondsAgo + THREAD_INTERVAL_SECONDS
  IN /\ MaintenanceStep("check", "sleep") /\ InTime
     /\ IF mCommState = "Connected" /\ isActive
        THEN IF KeepAliveDue(ago)
             THEN keepAliveSendSecondsAgo' = 0 /\ sendKeepAlive
             ELSE keepAliveSendSecondsAgo' = ago /\ UNCHANGED <<model, mSocketState, up>>
        ELSE /\ UNCHANGED <<keepAliveSendSecondsAgo, mOutstandingKeepAlives, up>>
             /\ IF mSocketState = "Failed" THEN disconnect
                ELSE UNCHANGED <<mCommState, told, mConnectTimeoutSeconds, mSocketState>>
     /\ UNCHANGED <<down, session, named, mLastFrameTime>>

-----------------------------------------------------------------------------

Network   == linkFails \/ linkReturns \/ socketFails
Server    == receiveFrame \/ pollInterval
Callbacks == \/ keepAliveReceived \/ intervalReceived \/ serverNameReceived
             \/ connected \/ nameSend \/ sendName \/ processAfterConnect
Thread    == wakeUp \/ startConnect \/ replaceSocket \/ checkSocket

Next ==
  \/ Network \/ connects \/ Server \/ receiveName \/ handshakeTimesOut
  \/ Callbacks \/ Thread \/ sendObjectQueued \/ processAfterEnqueue
  \/ \E v \in Intervals : editInterval(v)

Spec == Init /\ [][Next]_vars

\* Every thread goes on and a link that is up carries what it is given; nothing
\* is assumed of who sends, of the operator or of the link.
FairSpec ==
  /\ Spec /\ WF_vars(Thread) /\ WF_vars(Callbacks) /\ WF_vars(processAfterEnqueue)
  /\ WF_vars(connects) /\ WF_vars(receiveFrame) /\ WF_vars(pollInterval)
  /\ WF_vars(receiveName)

-----------------------------------------------------------------------------
(* Properties.                                                             *)

\* The values each variable ranges over.
TypeOK ==
  /\ mCommState \in {"Disconnected", "Connecting", "NameSend", "Connected"}
  /\ mConnectTimeoutSeconds \in -THREAD_INTERVAL_SECONDS..RECONNECT_SECONDS
  /\ mOutstandingKeepAlives \in -1..1 /\ told \in BOOLEAN
  /\ mSendQueue \in 0..MaxEvents /\ events \in 0..MaxEvents /\ sender \in {"idle", "process"}
  /\ mSocketState \in {"null", "Connecting", "Connected", "Failed"}
  /\ pending \subseteq {"connected", "sendName", "servername", "process"}
  /\ maintenance \in {"sleep", "connect", "replace", "check"}
  /\ keepAliveSendSecondsAgo \in 0..KEEPALIVE_INTERVAL_SECONDS
  /\ mRequestedInterval \in Intervals /\ locationInterval \in Intervals
  /\ session \in {"none", "Connecting", "Connected", "gone"} /\ named \in BOOLEAN

\* An object does not stay in the queue of a client that is connected: the one
\* who queues it and the callback that connects each look at what the other has
\* written, in the opposite order (CommModel.cs:89-97, 111-117).
NoStrandedObject ==
  mCommState = "Connected" /\ mSocketState = "Connected" /\ pending = {}
    /\ sender = "idle" => mSendQueue = 0

\* The server does not time out a client that is connected unless the link was
\* down since the client last had an answer ("90s allows for ~3 missed keepalives", Client.cpp:29-30).
HealthyStays ==
  [][mCommState = "Connected" /\ mSocketState = "Connected" /\ session = "Connected"
       /\ session' = "gone" => lossy]_vars

IsInterval(frame) == Kind(frame) = "interval"

\* On a connection, the last interval under way is the one the server has on
\* record as sent, and if none is under way the phone obeys that one already: no
\* reconnection, edit or loss leaves the server with nothing more to send
\* (Server.cpp:189) and the phone on another interval.  Nothing was sent as long
\* as the record is 0.  This is between starts of the phone's service: a start forgets
\* the interval (HomeControlService.cs:79), which no action does here.
SettingUnderWay ==
  mSocketState = "Connected" /\ locationInterval # 0 =>
    /\ \A i \in 1..Len(down) :
         IsInterval(down[i]) /\ (\A j \in (i + 1)..Len(down) : ~IsInterval(down[j]))
           => down[i] = IntervalFrame(locationInterval)
    /\ (\A i \in 1..Len(down) : ~IsInterval(down[i])) => mRequestedInterval = locationInterval

\* Once the link stays up the client is connected and remains so, on a session
\* the server keeps, and its receivers know, if no thread of the phone blocks another:
\* the lock of the receivers is left out (changeState).
StaysConnected ==
  <>[]linkUp => <>[](mCommState = "Connected" /\ session = "Connected" /\ told)

\* Between starts of the phone's service, which forget it (HomeControlService.cs:79),
\* an interval that is configured and stays is obeyed by the phone, whatever
\* connections and edits there were before; not so for the reset to 0, which a
\* client that connects later is not told.
SettingsReach ==
  \A v \in Intervals \ {0} :
    <>[](linkUp /\ named /\ interval = v) => <>[](mRequestedInterval = v)

=============================================================================
