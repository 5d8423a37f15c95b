-------------------------- MODULE AdminController --------------------------
(***************************************************************************)
(* AdminController, which shows administrators where a phone is, with the  *)
(* other listener that works on the same rows, ObjectWriter, and the part  *)
(* of HomeControlDal they use.                                             *)
(*                                                                         *)
(* The io thread makes one object of a frame, lets go of the client and    *)
(* waits for Server::mDataMutex: until it has it, a round may delete that  *)
(* client.  Then the object is given to the listeners one after the other  *)
(* (work), in the order of their addresses: it differs from one start of   *)
(* the server to the next (first).  The mutex keeps broadcasts and reaping *)
(* apart, but not from the database, which may fail between any two        *)
(* queries and whose PINs are changed by hand.                             *)
(*                                                                         *)
(* Every push reads the newest location of the last minutes the watcher    *)
(* asked for, and the fence.  The older points and the time of the last    *)
(* message are left out; the time stamps of a phone's locations rise.  How *)
(* a connection comes and goes is in CommServer.                           *)
(***************************************************************************)
EXTENDS Naturals

CONSTANTS
  Phones, Admins,     \* clients that report, clients that ask
  Sockets,            \* addresses of Client objects
  Fixes, Fences,      \* what a location, a fence is told apart by
  Minutes,            \* how far back a request may ask to look
  None, Lost

Names == Phones \cup Admins

ASSUME AdminAssumption ==
  /\ {None, Lost} \cap (Names \cup Fixes \cup Fences) = {}
  /\ None # Lost /\ Minutes \subseteq Nat \ {0}

VARIABLES
  dbUp, rows, adminCode,       \* the database; clients with a row, with a PIN
  location, geofence,          \* newest Location; fence of the row
  recent,                      \* the Minutes in which that Location lies
  clients, dead,               \* Server::mClients: name of each; peers that left
  mWatchers,                   \* whom a name watches, and how far back
  first, work,                 \* who hears it first; what the io thread has in hand
  map,                         \* last LocationHistoryResponse on a socket, until denied
  fix, fence                   \* reported last, or Lost if the database was down since

stored   == <<location, geofence, recent>>
db       == <<dbUp, rows, adminCode, stored>>
sessions == <<clients, dead>>
reported == <<fix, fence>>
vars     == <<db, sessions, mWatchers, first, work, map, reported>>

Location == "GpsLocation"             \* objectId 10
Fence    == "GeofenceStatus"          \* 45; None says that it was cleared
Alive    == "KeepAlive"               \* 0
Request  == "LocationHistoryRequest"  \* 43
Object(id, value) == [id |-> id, value |-> value]

Watch(p, minutes) == [clientName |-> p, minutes |-> minutes]
NoWatch == Watch(None, None)

Objects(n) ==
  (IF n \in Admins THEN {Object(Request, Watch(p, m)) : p \in Phones, m \in Minutes} ELSE {})
  \cup (IF n \in Phones
        THEN {Object(Location, f) : f \in Fixes} \cup {Object(Alive, None)}
             \cup {Object(Fence, f) : f \in Fences \cup {None}}
        ELSE {})

Writer == "ObjectWriter"
Admin  == "AdminController"
Listeners == {Writer, Admin}
Broadcast(n, o, todo) == [from |-> n, object |-> o, todo |-> todo]
Idle == Broadcast(None, Object(Alive, None), {})
IoIdle == work.from = None
\* Server::mDataMutex, for the io thread and for rounds.
Free == work.todo = {}

Response(p, newest, f) == [about |-> p, newest |-> newest, fence |-> f]
NoMap == Response(None, None, None)

Init ==
  /\ dbUp \in BOOLEAN /\ rows \in SUBSET Names /\ adminCode \in SUBSET rows
  /\ location = [p \in Phones |-> None] /\ geofence = [p \in Phones |-> None]
  /\ recent = [p \in Phones |-> {}]
  /\ clients = [s \in Sockets |-> None] /\ dead = {}
  /\ mWatchers = [a \in Admins |-> NoWatch]
  /\ first \in Listeners /\ work = Idle
  /\ map = [s \in Sockets |-> NoMap]
  /\ fix = [p \in Phones |-> None] /\ fence = [p \in Phones |-> None]

-----------------------------------------------------------------------------
(* The database and its operator.                                          *)

\* A query finds its row.
Found(n) == dbUp /\ n \in rows

databaseFails ==
  /\ dbUp /\ dbUp' = FALSE
  /\ fix' = [p \in Phones |-> Lost] /\ fence' = [p \in Phones |-> Lost]
  /\ UNCHANGED <<rows, adminCode, stored, sessions, mWatchers, first, work, map>>

databaseReturns ==
  /\ ~dbUp /\ dbUp' = TRUE
  /\ UNCHANGED <<rows, adminCode, stored, sessions, mWatchers, first, work, map,
                 reported>>

\* A PIN is set or cleared by hand.
editAdminCode(n) ==
  /\ Found(n)
  /\ adminCode' = IF n \in adminCode THEN adminCode \ {n} ELSE adminCode \cup {n}
  /\ UNCHANGED <<dbUp, rows, stored, sessions, mWatchers, first, work, map,
                 reported>>

\* The newest location leaves the shortest time in which it still lies: NOW() goes
\* on, or the phone sent it late.
timePasses(p) ==
  /\ \E m \in recent[p] :
       (\A k \in recent[p] : m <= k) /\ recent' = [recent EXCEPT ![p] = @ \ {m}]
  /\ UNCHANGED <<dbUp, rows, adminCode, location, geofence, sessions, mWatchers, first,
                 work, map, reported>>

-----------------------------------------------------------------------------
(* Connections.                                                            *)

Open(s, n) == clients[s] = n /\ s \notin dead

\* A name is received on a new socket.  ObjectWriter::clientConnected makes the
\* row, unless the name already has a socket in the list.
clientConnected(s, n) ==
  /\ IoIdle /\ clients[s] = None
  /\ clients' = [clients EXCEPT ![s] = n]
  /\ rows' = IF dbUp /\ (\A t \in Sockets : clients[t] # n) THEN rows \cup {n} ELSE rows
  /\ UNCHANGED <<dbUp, adminCode, stored, dead, mWatchers, first, work, map, reported>>

Listening_Deleted(s) == TRUE

\* The destructor of Client takes it away from its socket.
Listening(s) == clients[s] # None

socketClosed(s) ==
  /\ IoIdle /\ Listening(s) /\ s \notin dead
  /\ dead' = dead \cup {s} /\ map' = [map EXCEPT ![s] = NoMap]
  /\ UNCHANGED <<db, clients, mWatchers, first, work, reported>>

\* mWatchers.erase
Unwatched(n) == [a \in Admins |-> IF a = n THEN NoWatch ELSE mWatchers[a]]

StillConnected_NotAsked(s) == FALSE
StillConnected(s) == \E t \in Sockets \ {s} : clients[t] = clients[s]

\* A round deletes a client, closed or silent for too long, and tells the
\* listeners when it was the last of its name.
clientDisConnected(s) ==
  /\ Free /\ clients[s] # None
  /\ clients' = [clients EXCEPT ![s] = None] /\ dead' = dead \ {s}
  /\ map' = [map EXCEPT ![s] = NoMap]
  /\ mWatchers' = IF StillConnected(s) THEN mWatchers ELSE Unwatched(clients[s])
  /\ UNCHANGED <<db, first, work, reported>>

-----------------------------------------------------------------------------
(* A broadcast.                                                            *)

Kept(n, value) == IF Found(n) THEN value ELSE Lost

\* Client::receiveFrame has made the object and has let go of Client::mDataMutex.
receiveObject(s, o) ==
  /\ IoIdle /\ clients[s] # None /\ s \notin dead /\ o \in Objects(clients[s])
  /\ work' = Broadcast(clients[s], o, {})
  /\ UNCHANGED <<db, sessions, mWatchers, first, map, reported>>

\* Server has its mutex; the name was handed on by value, and nobody asks whether
\* the client is still in the list.
broadcast ==
  LET n == work.from
      o == work.object
  IN /\ Free /\ ~IoIdle /\ work' = Broadcast(n, o, Listeners)
     /\ fix' = IF o.id = Location THEN [fix EXCEPT ![n] = Kept(n, o.value)] ELSE fix
     /\ fence' = IF o.id = Fence THEN [fence EXCEPT ![n] = Kept(n, o.value)] ELSE fence
     /\ UNCHANGED <<db, sessions, mWatchers, first, map>>

Turn(listener) ==
  /\ listener \in work.todo /\ (first \in work.todo => listener = first)
  /\ work' = IF work.todo = {listener} THEN Idle ELSE [work EXCEPT !.todo = @ \ {listener}]
  /\ UNCHANGED <<sessions, first, reported>>

\* ObjectWriter::receiveObject: a location is inserted.
writeObject ==
  /\ Turn(Writer)
  /\ IF work.object.id = Location /\ Found(work.from)
     THEN /\ location' = [location EXCEPT ![work.from] = work.object.value]
          /\ recent' = [recent EXCEPT ![work.from] = Minutes]
     ELSE UNCHANGED <<location, recent>>
  /\ UNCHANGED <<dbUp, rows, adminCode, geofence, mWatchers, map>>

NoFresh == None
FreshLocation_Never(o) == NoFresh

\* The location of the object itself, which may not be in the database yet.
FreshLocation(o) == IF o.id = Location THEN o.value ELSE NoFresh

\* The last row of HomeControlDal::locationHistory.
locationHistory(p, m) == IF dbUp /\ m \in recent[p] THEN location[p] ELSE None

\* sendLocationHistoryResponse, to every open socket of each name that is asked for
\* its minutes; fences are those after the update, if there was one.
sendLocationHistoryResponse(minutes, p, fresh, fences) ==
  LET newest(m) == IF fresh # NoFresh THEN fresh ELSE locationHistory(p, m)
  IN map' = [s \in Sockets |->
               IF \E a \in DOMAIN minutes : Open(s, a)
               THEN Response(p, newest(minutes[clients[s]]), IF dbUp THEN fences[p] ELSE None)
               ELSE map[s]]

Watchers_All(p) == [a \in Admins |-> mWatchers[a].minutes]

\* Each watcher of p, with its minutes.
Watchers(p) ==
  [a \in {w \in Admins : mWatchers[w].clientName = p} |-> mWatchers[a].minutes]

\* notifyLocationWatchers for a location or a keepalive.
notifyLocationWatchers ==
  /\ Turn(Admin) /\ work.object.id \in {Location, Alive}
  /\ sendLocationHistoryResponse(Watchers(work.from), work.from,
                                 FreshLocation(work.object), geofence)
  /\ UNCHANGED <<db, mWatchers>>

Told_Before(p, fences) == geofence
Told(p, fences) == fences

\* The row is updated, or cleared, and the watchers are told.
handleGeofenceStatus ==
  /\ Turn(Admin) /\ work.object.id = Fence
  /\ geofence' = IF Found(work.from)
                 THEN [geofence EXCEPT ![work.from] = work.object.value] ELSE geofence
  /\ sendLocationHistoryResponse(Watchers(work.from), work.from, NoFresh,
                                 Told(work.from, geofence'))
  /\ UNCHANGED <<dbUp, rows, adminCode, location, recent, mWatchers>>

\* Who has no PIN, or cannot be looked up, is denied and no longer watches.
handleLocationHistoryRequest ==
  LET a == work.from
      w == work.object.value
  IN /\ Turn(Admin) /\ work.object.id = Request
     /\ IF Found(a) /\ a \in adminCode
        THEN /\ mWatchers' = [mWatchers EXCEPT ![a] = w]
             /\ sendLocationHistoryResponse([n \in {a} |-> w.minutes], w.clientName,
                                            NoFresh, geofence)
        ELSE /\ mWatchers' = Unwatched(a)
             /\ map' = [s \in Sockets |-> IF Open(s, a) THEN NoMap ELSE map[s]]
     /\ UNCHANGED db

Next ==
  \/ databaseFails \/ databaseReturns
  \/ \E n \in Admins : editAdminCode(n)
  \/ \E p \in Phones : timePasses(p)
  \/ \E s \in Sockets :
       \/ socketClosed(s) \/ clientDisConnected(s)
       \/ \E n \in Names : clientConnected(s, n)
       \/ \E o \in UNION {Objects(n) : n \in Names} : receiveObject(s, o)
  \/ broadcast \/ writeObject \/ notifyLocationWatchers
  \/ handleGeofenceStatus \/ handleLocationHistoryRequest

Spec == Init /\ [][Next]_vars

-----------------------------------------------------------------------------
(* Properties.                                                             *)

Points == {None} \cup Fixes

\* The values each variable ranges over.
TypeOK ==
  /\ dbUp \in BOOLEAN /\ rows \subseteq Names /\ adminCode \subseteq rows
  /\ recent \in [Phones -> SUBSET Minutes]
  /\ location \in [Phones -> Points] /\ geofence \in [Phones -> {None} \cup Fences]
  /\ clients \in [Sockets -> {None} \cup Names]
  /\ \A s \in dead : s \in Sockets /\ clients[s] # None
  /\ mWatchers \in [Admins -> {NoWatch} \cup [clientName : Phones, minutes : Minutes]]
  /\ fix \in [Phones -> Points \cup {Lost}]
  /\ fence \in [Phones -> {None, Lost} \cup Fences]
  /\ map \in [Sockets -> [about : {None} \cup Phones, newest : Points,
                           fence : {None} \cup Fences]]
  /\ first \in Listeners /\ work.todo \subseteq Listeners
  /\ IoIdle => Free
  /\ IoIdle \/ (work.from \in Names /\ work.object \in Objects(work.from))

\* Between broadcasts, an open socket of an administrator with a map of p:
ShowsMapOf(s, p) ==
  /\ Free /\ clients[s] \in Admins /\ s \notin dead /\ map[s].about = p

\* Such a map ends with the location the phone reported last, or is empty if that
\* one is older than the minutes that are watched, but never ends with another:
\* whichever of ObjectWriter and AdminController had the object first, however many
\* sockets the administrator has and long the phone stands still, if the database was
\* up since the report ("sidesteps that race entirely", AdminController.cpp:189-195).
MapHasLastFix ==
  \A s \in Sockets, p \in Phones :
    ShowsMapOf(s, p) /\ fix[p] # Lost =>
      \/ map[s].newest = fix[p]
      \/ map[s].newest = None /\ mWatchers[clients[s]].minutes \notin recent[p]

\* It also shows the fence the phone reported last, or none once that was
\* cleared: "DB write already happened synchronously", AdminController.cpp:61.
MapHasLastFence ==
  \A s \in Sockets, p \in Phones :
    ShowsMapOf(s, p) /\ fence[p] # Lost => map[s].fence = fence[p]

\* Who has a map on an open socket is sent what comes next: no other socket of that
\* administrator that dies or is reaped, and no request that was still on its way
\* from one, ends the watch or turns it to another phone while the map stays.  The
\* reverse does not hold: a request that outlives its client starts a watch for a
\* name that has no connection.
MapIsWatched ==
  \A s \in Sockets, p \in Phones :
    ShowsMapOf(s, p) => mWatchers[clients[s]].clientName = p

\* What is watched on each socket,
WatchedOn == [s \in Sockets |-> IF clients[s] \in Admins /\ s \notin dead
                               THEN mWatchers[clients[s]] ELSE NoWatch]
\* the phone whose watchers are still to be told what was heard from it,
Untold == IF Admin \in work.todo /\ work.object.id # Request THEN work.from ELSE None
\* and the minutes in which its last location lies, once or before it is written.
Unwritten(p) == Writer \in work.todo /\ work.from = p /\ work.object.id = Location
RecentFix == [p \in Phones |-> IF Unwritten(p) THEN Minutes ELSE recent[p]]

\* The two listeners, the sockets and the database together are LiveMap: all who
\* watch a phone, on every socket, and nobody else, are sent one map after each of
\* its reports and before the next, and it says what was reported last, as far as
\* that is within the minutes they watch (AdminController.cpp:212-234,
\* Server.cpp:123-131, HomeControlDal.cpp:446).
Live == INSTANCE LiveMap WITH viewer <- WatchedOn, due <- Untold, recent <- RecentFix
ImplementsLiveMap == Live!Spec

=============================================================================
