----------------------------- MODULE CommServer -----------------------------
(***************************************************************************)
(* The connections of the server: classes Server, Client, ClientSocket and *)
(* ServerSocket.                                                           *)
(*                                                                         *)
(* Two threads work on the Client objects.  The io thread accepts, reads   *)
(* and calls the handlers.  The maintenance thread wakes every             *)
(* MAINTENANCE_INTERVAL_MS, takes Server::mDataMutex for its whole round,  *)
(* ages each client, and deletes the dead ones.  The handlers of the io    *)
(* thread hold Client::mDataMutex while they change a client and release   *)
(* it before they ask for Server::mDataMutex, so a client may be deleted   *)
(* between the two.  The memory of a deleted client is taken to stay       *)
(* intact until the io thread has left it; a build may also crash there.   *)
(***************************************************************************)
EXTENDS Integers, FiniteSets

CONSTANTS
  Conns,              \* addresses of Client objects
  Names,              \* what a peer may send as its name
  Unknown, NoName,    \* "Unknown", the name before the handshake, and ""
  NoConn,
  MaintenanceInterval, ConnectingTimeout, ReceiveTimeout

ASSUME ServerAssumption ==
  /\ NoConn \notin Conns /\ Unknown # NoName
  /\ MaintenanceInterval \in Nat \ {0}
  /\ ConnectingTimeout \in Nat \ {0} /\ ReceiveTimeout \in Nat \ {0}

VARIABLES
  allocated,          \* the Client objects that exist
  mClients,           \* those in Server::mClients
  mName, mConnectionState, mConnectingTime, mLastFrameTime,
  peer,               \* what the network knows of the other side
  accepting,          \* the client async_accept was given
  io, ioConn,         \* where the io thread is, and in which client
  maintenance,        \* where the maintenance thread is
  todo, deletedClients, deletedClient, clientStillConnected,  \* its locals
  told,               \* names whose last notification was clientConnected
  late,               \* those of told that a client announced when deleted already
  spurious            \* a clientDisConnected followed no clientConnected

connection == <<mName, mConnectionState, mConnectingTime, mLastFrameTime>>
locals     == <<todo, deletedClients, deletedClient, clientStillConnected>>
listeners  == <<told, late, spurious>>
vars == <<allocated, mClients, connection, peer, accepting, io, ioConn,
          maintenance, locals, listeners>>

AllNames == Names \cup {Unknown, NoName}

Init ==
  \E c \in Conns :
    /\ allocated = {c} /\ mClients = {c} /\ accepting = c
    /\ mName = [x \in Conns |-> Unknown]
    /\ mConnectionState = [x \in Conns |-> "Idle"]
    /\ mConnectingTime = [x \in Conns |-> 0]
    /\ mLastFrameTime = [x \in Conns |-> 0]
    /\ peer = [x \in Conns |-> "none"]
    /\ io = "idle" /\ ioConn = NoConn
    /\ maintenance = "sleep" /\ todo = {} /\ deletedClients = {}
    /\ deletedClient = NoConn /\ clientStillConnected = FALSE
    /\ told = {} /\ late = {} /\ spurious = FALSE

\* Server::mDataMutex, which the maintenance thread holds through its round.
ServerFree == maintenance = "sleep"

-----------------------------------------------------------------------------
(* The other side: it may close or reset the connection, or vanish without *)
(* a word.  It has left once the io thread has nothing more to read of it. *)

PeerLeaves(c, how) ==
  /\ peer[c] = "open"
  /\ peer' = [peer EXCEPT ![c] = how]
  /\ UNCHANGED <<allocated, mClients, connection, accepting, io, ioConn,
                 maintenance, locals, listeners>>

-----------------------------------------------------------------------------
(* The io thread.                                                          *)

IoStep(from, to, conn) ==
  /\ io = from /\ io' = to /\ ioConn' = conn
  /\ UNCHANGED <<maintenance, locals>>

\* A connection is accepted; Client::start has only set the state yet.
handleAccept ==
  /\ accepting # NoConn
  /\ IoStep("idle", "start", accepting)
  /\ peer' = [peer EXCEPT ![accepting] = "open"]
  /\ mConnectionState' = [mConnectionState EXCEPT ![accepting] = "Connecting"]
  /\ accepting' = NoConn
  /\ UNCHANGED <<allocated, mClients, mName, mConnectingTime, mLastFrameTime,
                 listeners>>

\* An accept that fails is not armed again.
acceptFails ==
  /\ accepting # NoConn /\ accepting' = NoConn
  /\ IoStep("idle", "idle", NoConn)
  /\ UNCHANGED <<allocated, mClients, connection, peer, listeners>>

\* remote_endpoint throws when the peer has reset the connection, or when the
\* maintenance thread has closed the socket.
Startable(c) == peer[c] # "reset" /\ c \in allocated

\* ClientSocket::start; serverThread catches what it throws, and ends.
start ==
  /\ IoStep("start", IF Startable(ioConn) THEN "renew" ELSE "exited", NoConn)
  /\ UNCHANGED <<allocated, mClients, connection, peer, accepting, listeners>>

newClient(c) ==
  /\ ServerFree /\ c \notin allocated
  /\ IoStep("renew", "idle", NoConn)
  /\ allocated' = allocated \cup {c} /\ mClients' = mClients \cup {c}
  /\ accepting' = c
  /\ mName' = [mName EXCEPT ![c] = Unknown]
  /\ mConnectionState' = [mConnectionState EXCEPT ![c] = "Idle"]
  /\ mConnectingTime' = [mConnectingTime EXCEPT ![c] = 0]
  /\ mLastFrameTime' = [mLastFrameTime EXCEPT ![c] = 0]
  /\ peer' = [peer EXCEPT ![c] = "none"]
  /\ UNCHANGED listeners

\* ClientSocket::handleRead has a frame and has seen its listener registered.
handleRead(c) ==
  /\ c \in allocated /\ peer[c] = "open"
  /\ mConnectionState[c] \in {"Connecting", "Connected"}
  /\ IoStep("idle", "frame", c)
  /\ UNCHANGED <<allocated, mClients, connection, peer, accepting, listeners>>

\* The name can be read at once, before the state says Connected.
receiveName(n) ==
  /\ IoStep("frame", "connect", ioConn)
  /\ mConnectionState[ioConn] = "Connecting"
  /\ mName' = [mName EXCEPT ![ioConn] = n]
  /\ UNCHANGED <<allocated, mClients, mConnectionState, mConnectingTime,
                 mLastFrameTime, peer, accepting, listeners>>

connect ==
  /\ IoStep("connect", "authenticate", ioConn)
  /\ mConnectionState' = [mConnectionState EXCEPT ![ioConn] = "Connected"]
  /\ mConnectingTime' = [mConnectingTime EXCEPT ![ioConn] = 0]
  /\ UNCHANGED <<allocated, mClients, mName, mLastFrameTime, peer, accepting,
                 listeners>>

WasAlreadyConnected_Itself(c) == \E d \in mClients : mName[d] = mName[c]
WasAlreadyConnected(c) == \E d \in mClients \ {c} : mName[d] = mName[c]

clientAuthenticated ==
  /\ ServerFree
  /\ IoStep("authenticate", "idle", NoConn)
  /\ LET n == mName[ioConn]
     IN IF WasAlreadyConnected(ioConn) THEN UNCHANGED listeners
        ELSE /\ told' = told \cup {n}
             /\ late' = IF ioConn \in mClients THEN late \ {n} ELSE late \cup {n}
             /\ UNCHANGED spurious
  /\ UNCHANGED <<allocated, mClients, connection, peer, accepting>>

receiveObject ==
  /\ IoStep("frame", "broadcast", ioConn)
  /\ mConnectionState[ioConn] = "Connected"
  /\ mLastFrameTime' = [mLastFrameTime EXCEPT ![ioConn] = 0]
  /\ UNCHANGED <<allocated, mClients, mName, mConnectionState, mConnectingTime,
                 peer, accepting, listeners>>

broadcast ==
  /\ ServerFree
  /\ IoStep("broadcast", "idle", NoConn)
  /\ UNCHANGED <<allocated, mClients, connection, peer, accepting, listeners>>

socketClosed(c) ==
  /\ c \in allocated /\ peer[c] \in {"closed", "reset"}
  /\ mConnectionState[c] # "Disconnected"
  /\ IoStep("idle", "idle", NoConn)
  /\ mConnectionState' = [mConnectionState EXCEPT ![c] = "Disconnected"]
  /\ UNCHANGED <<allocated, mClients, mName, mConnectingTime, mLastFrameTime,
                 peer, accepting, listeners>>

-----------------------------------------------------------------------------
(* The maintenance thread.                                                 *)

MaintenanceStep(from, to) ==
  /\ maintenance = from /\ maintenance' = to
  /\ UNCHANGED <<mName, mConnectionState, accepting, io, ioConn>>

wakeUp ==
  /\ MaintenanceStep("sleep", "scan")
  /\ todo' = mClients
  /\ UNCHANGED <<peer, allocated, mClients, mConnectingTime, mLastFrameTime,
                 deletedClients, deletedClient, clientStillConnected, listeners>>

Inactive_Late(c) ==
  CASE mConnectionState[c] = "Idle"       -> FALSE
    [] mConnectionState[c] = "Connecting" -> mConnectingTime'[c] > ConnectingTimeout
    [] mConnectionState[c] = "Connected"  -> mLastFrameTime'[c] > ReceiveTimeout
    [] OTHER                              -> TRUE

Inactive_IdleToo(c) ==
  CASE mConnectionState[c] = "Idle"       -> TRUE
    [] mConnectionState[c] = "Connecting" -> mConnectingTime'[c] >= ConnectingTimeout
    [] mConnectionState[c] = "Connected"  -> mLastFrameTime'[c] >= ReceiveTimeout
    [] OTHER                              -> TRUE

\* The result of Client::isInactive, once the time that passed is added.
Inactive(c) ==
  CASE mConnectionState[c] = "Idle"       -> FALSE
    [] mConnectionState[c] = "Connecting" -> mConnectingTime'[c] >= ConnectingTimeout
    [] mConnectionState[c] = "Connected"  -> mLastFrameTime'[c] >= ReceiveTimeout
    [] OTHER                              -> TRUE

QueuedForDeletion_Named(c) == mName[c] # NoName

\* Every inactive client is queued, whatever its name.
QueuedForDeletion(c) == TRUE

isInactive(c) ==
  /\ c \in todo /\ todo' = todo \ {c}
  /\ ~(io = "connect" /\ ioConn = c)   \* Client::mDataMutex
  /\ MaintenanceStep("scan", "scan")
  /\ mConnectingTime' = [mConnectingTime EXCEPT ![c] =
       IF mConnectionState[c] = "Connecting" THEN @ + MaintenanceInterval ELSE @]
  /\ mLastFrameTime' = [mLastFrameTime EXCEPT ![c] =
       IF mConnectionState[c] = "Connected" THEN @ + MaintenanceInterval ELSE @]
  /\ IF Inactive(c)
     THEN /\ mClients' = mClients \ {c}
          /\ deletedClients' = IF QueuedForDeletion(c) THEN deletedClients \cup {c}
                               ELSE deletedClients
     ELSE UNCHANGED <<mClients, deletedClients>>
  /\ UNCHANGED <<peer, allocated, deletedClient, clientStillConnected, listeners>>

StillConnected_NotAsked(c) == FALSE

StillConnected_Reaped(c) ==
  \E d \in mClients \cup deletedClients : mName[d] = mName[c]

\* "There could be multiple sockets to the client."
StillConnected(c) == \E d \in mClients : mName[d] = mName[c]

nextDeleted(c) ==
  /\ todo = {} /\ c \in deletedClients
  /\ MaintenanceStep("scan", "notify")
  /\ deletedClient' = c
  /\ clientStillConnected' = StillConnected(c)
  /\ UNCHANGED <<peer, allocated, mClients, mConnectingTime, mLastFrameTime, todo,
                 deletedClients, listeners>>

clientDisConnected(n) ==
  /\ spurious' = (spurious \/ n \notin told)
  /\ told' = told \ {n} /\ late' = late \ {n}

\* The name is read again: the io thread may have set it since the check.  The
\* destructor closes the socket; the counters of a deleted client do not matter.
deleteClient ==
  /\ MaintenanceStep("notify", "scan")
  /\ LET n == mName[deletedClient]
     IN IF ~clientStillConnected /\ n \notin {Unknown, NoName}
        THEN clientDisConnected(n) ELSE UNCHANGED listeners
  /\ allocated' = allocated \ {deletedClient}
  /\ peer' = [peer EXCEPT ![deletedClient] = "none"]
  /\ mConnectingTime' = [mConnectingTime EXCEPT ![deletedClient] = 0]
  /\ mLastFrameTime' = [mLastFrameTime EXCEPT ![deletedClient] = 0]
  /\ deletedClients' = deletedClients \ {deletedClient}
  /\ deletedClient' = NoConn /\ clientStillConnected' = FALSE
  /\ UNCHANGED <<mClients, todo>>

roundEnds ==
  /\ todo = {} /\ deletedClients = {}
  /\ MaintenanceStep("scan", "sleep")
  /\ UNCHANGED <<peer, allocated, mClients, mConnectingTime, mLastFrameTime, locals,
                 listeners>>

-----------------------------------------------------------------------------

IoNext ==
  \/ handleAccept \/ acceptFails \/ start
  \/ \E c \in Conns : newClient(c) \/ handleRead(c) \/ socketClosed(c)
  \/ \E n \in Names : receiveName(n)
  \/ connect \/ clientAuthenticated \/ receiveObject \/ broadcast

MaintenanceNext ==
  \/ wakeUp \/ roundEnds \/ deleteClient
  \/ \E c \in Conns : isInactive(c) \/ nextDeleted(c)

Next ==
  \/ IoNext \/ MaintenanceNext
  \/ \E c \in Conns, how \in {"closed", "reset", "silent"} : PeerLeaves(c, how)

Spec == Init /\ [][Next]_vars

\* The maintenance thread sleeps MAINTENANCE_INTERVAL_MS and goes on, and a
\* handshake does not block between taking Client::mDataMutex and releasing it.
\* Nothing is assumed of the peers, nor that the io thread is still running.
FairSpec == Spec /\ WF_vars(MaintenanceNext) /\ WF_vars(connect)

-----------------------------------------------------------------------------
(* Properties.                                                             *)

\* The values each variable ranges over.  The two timers are bounded: a client
\* is taken out of the list in the round in which a timer reaches its limit.
TypeOK ==
  /\ allocated \subseteq Conns /\ mClients \subseteq allocated
  /\ mName \in [Conns -> AllNames]
  /\ mConnectionState \in [Conns -> {"Idle", "Connecting", "Connected", "Disconnected"}]
  /\ mConnectingTime \in [Conns -> 0..(ConnectingTimeout + MaintenanceInterval - 1)]
  /\ mLastFrameTime \in [Conns -> 0..(ReceiveTimeout + MaintenanceInterval - 1)]
  /\ peer \in [Conns -> {"none", "open", "closed", "reset", "silent"}]
  /\ accepting \in Conns \cup {NoConn} /\ ioConn \in Conns \cup {NoConn}
  /\ io \in {"idle", "start", "renew", "frame", "connect", "authenticate",
             "broadcast", "exited"}
  /\ maintenance \in {"sleep", "scan", "notify"}
  /\ todo \subseteq mClients /\ deletedClients \subseteq allocated \ mClients
  /\ deletedClient \in deletedClients \cup {NoConn}
  /\ clientStillConnected \in BOOLEAN
  /\ told \subseteq AllNames /\ late \subseteq told /\ spurious \in BOOLEAN

\* A client in the list whose handshake is over is one the listeners were told
\* of, and were not told to forget: reaping an old socket of a peer never makes
\* CommRouter drop the monitoring that a newer socket of that peer relies on.
\* The check for another socket and the notification are two steps, between
\* which the io thread can give any client a name (Server.cpp:226-251).
LiveIsConnected ==
  \A c \in mClients :
    mConnectionState[c] = "Connected" /\ mName[c] # NoName
      => mName[c] \in told \/ (io = "authenticate" /\ ioConn = c)

\* The acceptor keeps a raw pointer to the client that gets the next connection
\* (ServerSocket.cpp:44-45); no round of the maintenance thread deletes it,
\* however long nobody connects, and it still waits in state Idle.
AcceptorClientAlive ==
  accepting # NoConn
    => accepting \in mClients /\ mConnectionState[accepting] = "Idle"

\* When the maintenance thread sleeps, a name the listeners hold for connected
\* has a socket in the list: the last of its sockets to be reaped takes it back,
\* also if several of them die in one round (Server.cpp:226-251).  Two kinds of names
\* stay, because the code never takes them back: the empty name, which is announced
\* like any other (99-121, not as 238-242 says) and skipped here (243); and a name announced by a client
\* that a round had deleted between its handshake and its announcement, until a
\* client in the list announces it again and is reaped.
ReapedIsTakenBack ==
  ServerFree => \A n \in (told \ late) \ {NoName} : \E c \in mClients : mName[c] = n

\* The sessions of the server: its clients whose handshake is over and whose end
\* nobody has noticed.
Authenticated(c) ==
  /\ c \in mClients /\ mConnectionState[c] = "Connected"
  /\ ~(io = "authenticate" /\ ioConn = c)
Sessions == [c \in Conns |-> IF Authenticated(c) THEN mName[c] ELSE NoName]

\* For the listeners the server is Presence: with every session that begins its
\* name is told or has been, and a name is taken back at no moment at which it has
\* a session, in whatever order handshakes, rounds and listeners get their mutexes
\* (Server.cpp:98-122, 226-255).  Peers that send no name have no session.
Present == INSTANCE Presence WITH
  Names <- Names \ {NoName}, None <- NoName,
  session <- Sessions, told <- told \ {NoName}
ImplementsPresence == Present!Spec

\* "Only notify listeners for clients that actually completed the handshake"
\* (Server.cpp:238-242): the listeners are told that a name disconnected only
\* after they were told it connected.
DisconnectsPaired == ~spurious

\* A client whose peer has left, with or without an error on the socket, is
\* deleted, so that its socket is closed, whatever name it gave and even when
\* the io thread has ended.
Dead(c) == c \in allocated /\ peer[c] \in {"closed", "reset", "silent"}
DeadIsReaped == \A c \in Conns : Dead(c) ~> c \notin allocated

=============================================================================
