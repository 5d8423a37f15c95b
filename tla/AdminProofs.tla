---------------------------- MODULE AdminProofs -----------------------------
(***************************************************************************)
(* AdminController, for any phones, administrators, number of sockets and  *)
(* minutes: the variables keep their types, who has a map is watching, and *)
(* that map ends with what the phone reported last, if that is not too old *)
(* for the watch.                                                          *)
(*                                                                         *)
(* What the maps show is not inductive, because a report passes through    *)
(* two listeners in either order.  It is split into what the database      *)
(* holds (Stored), what a broadcast still carries (Carried) and what the   *)
(* maps show (Shown); each has an exception for the listener whose turn is *)
(* still to come.  From the same parts, the listeners, the sockets and the *)
(* database together implement LiveMap.                                    *)
(***************************************************************************)
EXTENDS AdminController, TLAPS

\* The members of a broadcast.
ObjectType == [id : {Location, Fence, Alive, Request},
               value : Live!Watches \cup Fixes \cup Fences \cup {None}]
WorkOK ==
  work \in [from : {None} \cup Names, todo : SUBSET Listeners, object : ObjectType]

\* A listener has not yet had an object of this kind from p.
Pending(l, id, p) == l \in work.todo /\ work.from = p /\ work.object.id = id

\* A socket that is not open shows no map.
Closed == \A s \in Sockets : clients[s] = None \/ s \in dead => map[s] = NoMap

Shows(s, p) == clients[s] \in Admins /\ s \notin dead /\ map[s].about = p

FixCarried ==
  \A p \in Phones, l \in Listeners :
    Pending(l, Location, p) => fix[p] \in {Lost, work.object.value}
FixStored ==
  \A p \in Phones : fix[p] # Lost =>
    IF Pending(Writer, Location, p) THEN Found(p) ELSE location[p] = fix[p]
FixDown == \A p \in Phones : ~dbUp => fix[p] \in {None, Lost}
\* What was read for p within k minutes is the last fix, or that is older.
Truthful(v, p, k) ==
  \/ fix[p] \in {Lost, v}
  \/ v = None /\ k \notin RecentFix[p]
FixShown ==
  \A s \in Sockets, p \in Phones : Shows(s, p) =>
    \/ Pending(Admin, Location, p)
    \/ Truthful(map[s].newest, p, mWatchers[clients[s]].minutes)
FixInv == FixCarried /\ FixStored /\ FixDown /\ FixShown

FenceStored ==
  \A p \in Phones : fence[p] # Lost =>
    IF Pending(Admin, Fence, p) THEN Found(p) /\ work.object.value = fence[p]
    ELSE geofence[p] = fence[p]
FenceDown == \A p \in Phones : ~dbUp => fence[p] \in {None, Lost}
FenceShown ==
  \A s \in Sockets, p \in Phones : Shows(s, p) /\ fence[p] # Lost =>
    Pending(Admin, Fence, p) \/ map[s].fence = fence[p]
FenceInv == FenceStored /\ FenceDown /\ FenceShown

Base == TypeOK /\ WorkOK /\ Closed

-----------------------------------------------------------------------------
(* Objects and turns.                                                      *)

\* None, Lost and the members of the sets are all different.
LEMMA Different ==
  /\ None # Lost /\ None \notin Names /\ None \notin Phones /\ None \notin Admins
  /\ None \notin Fixes /\ Lost \notin Fixes /\ None \notin Fences /\ Lost \notin Fences
BY AdminAssumption DEF Names

\* What the fields of an object may hold.
LEMMA ObjectKinds ==
  ASSUME NEW n \in Names, NEW o \in Objects(n)
  PROVE  /\ o \in ObjectType
         /\ o.id = Location => n \in Phones /\ o.value \in Fixes
         /\ o.id = Fence => n \in Phones /\ o.value \in Fences \cup {None}
         /\ o.id = Alive => n \in Phones
         /\ o.id = Request => n \in Admins /\ o.value \in Live!Watches
BY DEF Objects, Object, Location, Fence, Alive, Request, ObjectType, Live!Watches, Watch

\* A turn takes the listener out of the broadcast and leaves the rest of it.
LEMMA TurnTaken ==
  ASSUME WorkOK, NEW l \in Listeners, Turn(l)
  PROVE  /\ l \in work.todo /\ ~Free /\ WorkOK'
         /\ work'.todo = work.todo \ {l}
         /\ ~Free' => work'.from = work.from /\ work'.object = work.object
         /\ Free' => IoIdle'
<1>1. CASE work.todo = {l}
  <2>1. work' = Idle
    BY <1>1 DEF Turn
  <2>2. QED
    BY <1>1, <2>1 DEF Idle, Broadcast, Object, Free, IoIdle, Alive, WorkOK, ObjectType
<1>2. CASE work.todo # {l}
  BY <1>2 DEF Turn, WorkOK, Free
<1>3. QED
  BY <1>1, <1>2

\* After it, the same things are pending for the other listener only.
LEMMA TurnPending ==
  ASSUME WorkOK, NEW l \in Listeners, Turn(l)
  PROVE  \A id : \A k \in Listeners, p \in Phones :
           /\ Pending(k, id, p)' <=> k # l /\ Pending(k, id, p)
           /\ Pending(k, id, p)' => work'.object = work.object
<1> SUFFICES ASSUME NEW k \in Listeners, NEW p \in Phones, NEW id
             PROVE  /\ Pending(k, id, p)' <=> k # l /\ Pending(k, id, p)
                    /\ Pending(k, id, p)' => work'.object = work.object
  OBVIOUS
<1>1. work'.todo = work.todo \ {l}
  BY TurnTaken
<1>2. k \in work'.todo => work'.from = work.from /\ work'.object = work.object
  BY TurnTaken DEF Free
<1>3. QED
  BY <1>1, <1>2 DEF Pending

-----------------------------------------------------------------------------
(* Types.                                                                  *)

Maps == [about : {None} \cup Phones, newest : Points, fence : {None} \cup Fences]
Newest(fresh, p, k) == IF fresh # NoFresh THEN fresh ELSE locationHistory(p, k)

\* A response is a map, and only open sockets get one.
LEMMA Sent ==
  ASSUME Base, NEW minutes, DOMAIN minutes \subseteq Admins, NEW p \in Phones,
         NEW fresh \in Points, NEW fences \in [Phones -> {None} \cup Fences],
         sendLocationHistoryResponse(minutes, p, fresh, fences)
  PROVE  map' \in [Sockets -> Maps] /\ (UNCHANGED <<clients, dead>> => Closed')
<1> DEFINE shown(s) == Response(p, Newest(fresh, p, minutes[clients[s]]),
                                IF dbUp THEN fences[p] ELSE None)
<1>1. \A s \in Sockets : shown(s) \in Maps
  BY DEF Response, Base, TypeOK, Points, Maps, Newest, locationHistory
<1>2. map' = [s \in Sockets |->
                IF \E a \in DOMAIN minutes : Open(s, a) THEN shown(s) ELSE map[s]]
  BY DEF sendLocationHistoryResponse, Newest
<1>3. map' \in [Sockets -> Maps]
  BY <1>1, <1>2 DEF Base, TypeOK, Maps
<1>4. \A s \in Sockets : clients[s] = None \/ s \in dead =>
                           ~ \E a \in DOMAIN minutes : Open(s, a)
  BY Different DEF Open
<1>5. UNCHANGED <<clients, dead>> => Closed'
  BY <1>2, <1>4 DEF Closed, Base
<1>6. QED
  BY <1>3, <1>5

\* The object that has been taken from a client is well formed.
LEMMA NewObject ==
  ASSUME Base, NEW s \in Sockets, NEW o, receiveObject(s, o)
  PROVE  /\ clients[s] \in Names /\ o \in Objects(clients[s])
         /\ work' = [from |-> clients[s], object |-> o, todo |-> {}]
         /\ WorkOK'
<1>1. /\ clients[s] \in Names /\ o \in Objects(clients[s])
      /\ work' = [from |-> clients[s], object |-> o, todo |-> {}]
  BY DEF receiveObject, Broadcast, Base, TypeOK
<1>2. o \in ObjectType
  BY <1>1, ObjectKinds
<1>3. QED
  BY <1>1, <1>2 DEF WorkOK

\* The same of the broadcast that follows, whatever became of the client.
LEMMA NewBroadcast ==
  ASSUME Base, broadcast
  PROVE  /\ work.from \in Names /\ work.object \in Objects(work.from)
         /\ work' = [from |-> work.from, object |-> work.object, todo |-> Listeners]
         /\ WorkOK'
BY DEF broadcast, Broadcast, Base, TypeOK, WorkOK

\* A turn of a listener keeps what is known of the broadcast.
LEMMA TurnWork ==
  ASSUME Base, NEW l \in Listeners, Turn(l)
  PROVE  /\ WorkOK' /\ UNCHANGED <<clients, dead, first, fix, fence>>
         /\ work'.todo \subseteq Listeners /\ (IoIdle => Free)'
         /\ (IoIdle \/ (work.from \in Names /\ work.object \in Objects(work.from)))'
         /\ work.from \in Names /\ work.object \in Objects(work.from)
<1>1. UNCHANGED <<clients, dead, first, fix, fence>>
  BY DEF Turn, sessions, reported
<1>2. WorkOK
  BY DEF Base
<1>3. work.from \in Names /\ work.object \in Objects(work.from)
  BY <1>2, TurnTaken DEF Base, TypeOK
<1>4. /\ WorkOK' /\ (Free' => IoIdle')
      /\ ~Free' => work'.from = work.from /\ work'.object = work.object
  BY <1>2, TurnTaken
<1>5. work'.todo \subseteq Listeners
  BY <1>4 DEF WorkOK
<1>6. (IoIdle => Free)'
  BY <1>3, <1>4, Different DEF IoIdle
<1>7. (IoIdle \/ (work.from \in Names /\ work.object \in Objects(work.from)))'
  BY <1>3, <1>4 DEF Objects
<1>8. QED
  BY <1>1, <1>3, <1>4, <1>5, <1>6, <1>7

\* Types and broadcasts at the start.
LEMMA BaseInit == Init => Base
<1> SUFFICES ASSUME Init PROVE Base
  OBVIOUS
<1>1. TypeOK
  BY DEF Init, TypeOK, Points, Idle, Broadcast, Free, IoIdle, NoMap, Response
<1>2. WorkOK
  BY DEF Init, WorkOK, Idle, Broadcast, Object, ObjectType, Alive, Location, Fence, Request
<1>3. Closed
  BY DEF Init, Closed
<1>4. QED
  BY <1>1, <1>2, <1>3 DEF Base

\* What the two listeners need of an object is there.
LEMMA Pushes ==
  ASSUME Base, NEW p \in Phones
  PROVE  /\ DOMAIN Watchers(p) \subseteq Admins /\ NoFresh \in Points
         /\ work.from \in Names /\ work.object \in Objects(work.from)
              => FreshLocation(work.object) \in Points
<1>1. ASSUME work.from \in Names, work.object \in Objects(work.from)
      PROVE  FreshLocation(work.object) \in Points
  BY <1>1, ObjectKinds DEF FreshLocation, NoFresh, Points
<1>2. QED
  BY <1>1 DEF Watchers, NoFresh, Points

WatchValues == {NoWatch} \cup Live!Watches

\* An entry of mWatchers is set or erased.
LEMMA WatchTypes ==
  ASSUME Base
  PROVE  /\ mWatchers \in [Admins -> WatchValues]
         /\ \A n : Unwatched(n) \in [Admins -> WatchValues]
         /\ \A n, w \in Live!Watches :
              [mWatchers EXCEPT ![n] = w] \in [Admins -> WatchValues]
BY DEF Base, TypeOK, WatchValues, Live!Watches, Unwatched

\* Every step keeps the types, and sockets that are not open without a map.
LEMMA BaseStep == Base /\ [Next]_vars => Base'
<1> SUFFICES ASSUME Base, [Next]_vars PROVE Base'
  OBVIOUS
<1> TypeOK /\ WorkOK /\ Closed
  BY DEF Base
<1>1. ASSUME databaseFails \/ databaseReturns PROVE Base'
  BY <1>1 DEF databaseFails, databaseReturns, Base, TypeOK, WorkOK, Closed, sessions,
     stored, reported, Free, IoIdle
<1>2. ASSUME NEW n \in Admins, editAdminCode(n) PROVE Base'
  <2>1. adminCode' \subseteq rows
    BY <1>2 DEF editAdminCode, Found, TypeOK
  <2>2. QED
    BY <1>2, <2>1 DEF editAdminCode, Base, TypeOK, WorkOK, Closed, sessions, stored,
       reported, Free, IoIdle
<1>3. ASSUME NEW p \in Phones, timePasses(p) PROVE Base'
  <2>1. recent' \in [Phones -> SUBSET Minutes]
    BY <1>3 DEF timePasses, TypeOK
  <2>2. QED
    BY <1>3, <2>1 DEF timePasses, Base, TypeOK, WorkOK, Closed, sessions, reported,
       Free, IoIdle
<1>4. ASSUME NEW s \in Sockets, NEW n \in Names, clientConnected(s, n) PROVE Base'
  <2>1. TypeOK'
    BY <1>4, Different DEF clientConnected, TypeOK, Free, IoIdle, stored, reported
  <2>2. WorkOK'
    BY <1>4 DEF clientConnected, WorkOK
  <2>3. Closed'
    BY <1>4 DEF clientConnected, Closed, TypeOK
  <2>4. QED
    BY <2>1, <2>2, <2>3 DEF Base
<1>5. ASSUME NEW s \in Sockets, socketClosed(s) PROVE Base'
  <2>1. NoMap \in Maps
    BY DEF NoMap, Response, Points, Maps
  <2>2. TypeOK'
    BY <1>5, <2>1 DEF socketClosed, TypeOK, Free, IoIdle, db, stored, reported, Listening,
       Maps
  <2>3. WorkOK' /\ Closed'
    BY <1>5 DEF socketClosed, WorkOK, Closed, TypeOK
  <2>4. QED
    BY <2>2, <2>3 DEF Base
<1>6. ASSUME NEW s \in Sockets, clientDisConnected(s) PROVE Base'
  <2>1. NoMap \in Maps
    BY DEF NoMap, Response, Points, Maps
  <2>2. mWatchers' \in [Admins -> WatchValues]
    BY <1>6, WatchTypes DEF clientDisConnected
  <2>3. TypeOK'
    BY <1>6, <2>1, <2>2 DEF clientDisConnected, TypeOK, Free, IoIdle, db, stored, reported,
       Maps, WatchValues, Live!Watches
  <2>4. WorkOK' /\ Closed'
    BY <1>6 DEF clientDisConnected, WorkOK, Closed, TypeOK
  <2>5. QED
    BY <2>3, <2>4 DEF Base
<1>7. ASSUME NEW s \in Sockets, NEW o, receiveObject(s, o) PROVE Base'
  <2>1. /\ WorkOK' /\ work'.from \in Names /\ work'.object \in Objects(work'.from)
        /\ work'.todo = {}
    BY <1>7, NewObject
  <2>2. TypeOK'
    BY <1>7, <2>1 DEF receiveObject, TypeOK, Free, IoIdle, db, stored, sessions, reported
  <2>3. Closed'
    BY <1>7 DEF receiveObject, Closed, sessions
  <2>4. QED
    BY <2>1, <2>2, <2>3 DEF Base
<1>8. ASSUME broadcast PROVE Base'
  <2> DEFINE n == work.from
             o == work.object
  <2>1. /\ WorkOK' /\ work'.from \in Names /\ work'.object \in Objects(work'.from)
        /\ work'.todo = Listeners /\ n \in Names /\ o \in Objects(n)
    BY <1>8, NewBroadcast
  <2>2. fix' \in [Phones -> Points \cup {Lost}]
    BY <1>8, <2>1, ObjectKinds DEF broadcast, Kept, TypeOK, Points
  <2>3. fence' \in [Phones -> {None, Lost} \cup Fences]
    BY <1>8, <2>1, ObjectKinds DEF broadcast, Kept, TypeOK
  <2>4. TypeOK'
    BY <1>8, <2>1, <2>2, <2>3, Different
       DEF broadcast, TypeOK, IoIdle, db, stored, sessions
  <2>5. Closed'
    BY <1>8 DEF broadcast, Closed, sessions
  <2>6. QED
    BY <2>1, <2>4, <2>5 DEF Base
<1>9. ASSUME writeObject PROVE Base'
  <2>1. Turn(Writer) /\ Writer \in Listeners
    BY <1>9 DEF writeObject, Listeners
  <2>2. location' \in [Phones -> Points] /\ recent' \in [Phones -> SUBSET Minutes]
    BY <1>9, <2>1, TurnWork, ObjectKinds DEF writeObject, TypeOK, Points
  <2>3. TypeOK'
    BY <1>9, <2>1, <2>2, TurnWork DEF writeObject, TypeOK
  <2>4. Closed'
    BY <1>9, <2>1, TurnWork DEF writeObject, Closed
  <2>5. QED
    BY <2>1, <2>3, <2>4, TurnWork DEF Base
<1>10. ASSUME notifyLocationWatchers PROVE Base'
  <2>1. Turn(Admin) /\ Admin \in Listeners /\ UNCHANGED db /\ UNCHANGED mWatchers
    BY <1>10 DEF notifyLocationWatchers, Listeners
  <2>2. work.from \in Phones
    BY <1>10, <2>1, TurnWork, ObjectKinds DEF notifyLocationWatchers, Location, Alive
  <2>3. Closed' /\ map' \in [Sockets -> Maps]
    BY <1>10, <2>1, <2>2, TurnWork, Sent, Pushes DEF notifyLocationWatchers, TypeOK
  <2>4. TypeOK'
    BY <2>1, <2>3, TurnWork DEF TypeOK, db, stored, Maps
  <2>5. QED
    BY <2>1, <2>3, <2>4, TurnWork DEF Base
<1>11. ASSUME handleGeofenceStatus PROVE Base'
  <2>1. Turn(Admin) /\ Admin \in Listeners
    BY <1>11 DEF handleGeofenceStatus, Listeners
  <2>2. work.from \in Phones /\ work.object.value \in Fences \cup {None}
    BY <1>11, <2>1, TurnWork, ObjectKinds DEF handleGeofenceStatus
  <2>3. geofence' \in [Phones -> {None} \cup Fences]
    BY <1>11, <2>2 DEF handleGeofenceStatus, TypeOK
  <2>4. sendLocationHistoryResponse(Watchers(work.from), work.from, NoFresh, geofence')
    BY <1>11 DEF handleGeofenceStatus, Told
  <2>5. Closed' /\ map' \in [Sockets -> Maps]
    BY <2>1, <2>2, <2>3, <2>4, TurnWork, Sent, Pushes
  <2>6. TypeOK'
    BY <1>11, <2>1, <2>3, <2>5, TurnWork DEF handleGeofenceStatus, TypeOK, Maps
  <2>7. QED
    BY <2>1, <2>5, <2>6, TurnWork DEF Base
<1>12. ASSUME handleLocationHistoryRequest PROVE Base'
  <2> DEFINE a == work.from
             w == work.object.value
  <2>1. Turn(Admin) /\ Admin \in Listeners /\ UNCHANGED db
    BY <1>12 DEF handleLocationHistoryRequest, Listeners
  <2>2. a \in Admins /\ w \in Live!Watches /\ w.clientName \in Phones
    BY <1>12, <2>1, TurnWork, ObjectKinds DEF handleLocationHistoryRequest, Live!Watches
  <2>3. mWatchers' \in [Admins -> WatchValues]
    BY <1>12, <2>2, WatchTypes DEF handleLocationHistoryRequest
  <2>4. \/ map' = [s \in Sockets |-> IF Open(s, a) THEN NoMap ELSE map[s]]
        \/ sendLocationHistoryResponse([n \in {a} |-> w.minutes], w.clientName, NoFresh,
                                       geofence)
    BY <1>12 DEF handleLocationHistoryRequest
  <2>5. ASSUME map' = [s \in Sockets |-> IF Open(s, a) THEN NoMap ELSE map[s]]
        PROVE  Closed' /\ map' \in [Sockets -> Maps]
    <3>1. NoMap \in Maps
      BY DEF NoMap, Response, Points, Maps
    <3>2. UNCHANGED <<clients, dead>>
      BY <2>1, TurnWork
    <3>3. map' \in [Sockets -> Maps]
      BY <2>5, <3>1 DEF TypeOK, Maps
    <3>4. Closed'
      BY <2>5, <3>2 DEF Closed
    <3>5. QED
      BY <3>3, <3>4
  <2>6. Closed' /\ map' \in [Sockets -> Maps]
    <3> DEFINE minutes == [n \in {a} |-> w.minutes]
    <3>1. DOMAIN minutes \subseteq Admins /\ geofence \in [Phones -> {None} \cup Fences]
      BY <2>2 DEF TypeOK
    <3>2. UNCHANGED <<clients, dead>> /\ NoFresh \in Points
      BY <2>1, TurnWork DEF NoFresh, Points
    <3>3. ASSUME sendLocationHistoryResponse(minutes, w.clientName, NoFresh, geofence)
          PROVE  Closed' /\ map' \in [Sockets -> Maps]
      <4> HIDE DEF minutes
      <4>1. QED
        BY <2>2, <3>1, <3>2, <3>3, Sent
    <3>4. QED
      BY <2>4, <2>5, <3>3
  <2>7. TypeOK'
    BY <2>1, <2>3, <2>6, TurnWork DEF TypeOK, db, stored, Maps, WatchValues, Live!Watches
  <2>8. QED
    BY <2>1, <2>6, <2>7, TurnWork DEF Base
<1>13. ASSUME UNCHANGED vars PROVE Base'
  BY <1>13 DEF vars, db, stored, sessions, reported, Base, TypeOK, WorkOK, Closed, Free,
     IoIdle
<1>14. QED
  BY <1>1, <1>2, <1>3, <1>4, <1>5, <1>6, <1>7, <1>8, <1>9, <1>10, <1>11, <1>12, <1>13
     DEF Next

\* Every reachable state is well typed.
THEOREM TypeCorrect == Spec => []TypeOK
<1>1. Base => TypeOK
  BY DEF Base
<1>2. QED
  BY <1>1, BaseInit, BaseStep, PTL DEF Spec

-----------------------------------------------------------------------------
(* Who has a map is watching.                                              *)

\* A response reaches the open sockets of those it is meant for.
LEMMA SentTo ==
  ASSUME NEW minutes, NEW p, NEW fresh, NEW fences,
         sendLocationHistoryResponse(minutes, p, fresh, fences), NEW s \in Sockets
  PROVE  IF s \notin dead /\ clients[s] \in DOMAIN minutes
         THEN /\ map'[s].about = p
              /\ map'[s].newest = Newest(fresh, p, minutes[clients[s]])
              /\ map'[s].fence = IF dbUp THEN fences[p] ELSE None
         ELSE map'[s] = map[s]
<1>1. s \notin dead /\ clients[s] \in DOMAIN minutes <=> \E a \in DOMAIN minutes : Open(s, a)
  BY DEF Open
<1>2. QED
  BY <1>1 DEF sendLocationHistoryResponse, Response, Newest

\* Who is sent the map of a phone is who watches it.
LEMMA ToWatchers ==
  ASSUME NEW p
  PROVE  /\ \A a : a \in DOMAIN Watchers(p) <=> a \in Admins /\ mWatchers[a].clientName = p
         /\ \A a \in DOMAIN Watchers(p) : Watchers(p)[a] = mWatchers[a].minutes
BY DEF Watchers

\* A push shows the watched phone to who watches it, and leaves the others as they are.
LEMMA PushShows ==
  ASSUME NEW p, NEW fresh, NEW fences, UNCHANGED <<clients, dead, mWatchers>>,
         sendLocationHistoryResponse(Watchers(p), p, fresh, fences),
         NEW s \in Sockets, NEW q, Shows(s, q)'
  PROVE  IF mWatchers[clients[s]].clientName = p
         THEN /\ q = p
              /\ map'[s].newest = Newest(fresh, p, mWatchers[clients[s]].minutes)
              /\ map'[s].fence = IF dbUp THEN fences[p] ELSE None
         ELSE Shows(s, q) /\ map'[s] = map[s]
<1>1. clients[s] \in Admins /\ s \notin dead /\ map'[s].about = q
  BY DEF Shows
<1>2. CASE mWatchers[clients[s]].clientName = p
  BY <1>1, <1>2, SentTo, ToWatchers
<1>3. CASE mWatchers[clients[s]].clientName # p
  BY <1>1, <1>3, SentTo, ToWatchers DEF Shows
<1>4. QED
  BY <1>2, <1>3

\* What a request leaves shown: the answer, on the open sockets of who asked, or what
\* was there, on those of others, whose watch does not change.
LEMMA RequestShows ==
  ASSUME Base, handleLocationHistoryRequest, NEW s \in Sockets, NEW q \in Phones,
         Shows(s, q)'
  PROVE  IF clients[s] = work.from
         THEN /\ q = work.object.value.clientName /\ mWatchers'[clients[s]] = work.object.value
              /\ map'[s].newest = locationHistory(q, work.object.value.minutes)
              /\ map'[s].fence = IF dbUp THEN geofence[q] ELSE None
         ELSE /\ Shows(s, q) /\ map'[s] = map[s]
              /\ mWatchers'[clients[s]] = mWatchers[clients[s]]
<1> DEFINE a == work.from
           w == work.object.value
           minutes == [n \in {a} |-> w.minutes]
<1>1. Turn(Admin) /\ Admin \in Listeners
  BY DEF handleLocationHistoryRequest, Listeners
<1>2. UNCHANGED <<clients, dead>> /\ a \in Admins
  BY <1>1, TurnWork, ObjectKinds DEF handleLocationHistoryRequest
<1>3. clients[s] \in Admins /\ s \notin dead /\ map'[s].about = q /\ q # None
  BY <1>2, Different DEF Shows
<1>4. CASE /\ mWatchers' = Unwatched(a)
           /\ map' = [t \in Sockets |-> IF Open(t, a) THEN NoMap ELSE map[t]]
  <2>1. clients[s] # a /\ map'[s] = map[s]
    BY <1>3, <1>4 DEF Open, NoMap, Response
  <2>2. mWatchers'[clients[s]] = mWatchers[clients[s]]
    BY <1>3, <1>4, <2>1 DEF Unwatched
  <2>3. QED
    BY <1>3, <2>1, <2>2 DEF Shows
<1>5. CASE /\ mWatchers' = [mWatchers EXCEPT ![a] = w]
           /\ sendLocationHistoryResponse(minutes, w.clientName, NoFresh, geofence)
  <2>1. DOMAIN minutes = {a} /\ minutes[a] = w.minutes
    OBVIOUS
  <2>2. mWatchers'[clients[s]] = IF clients[s] = a THEN w ELSE mWatchers[clients[s]]
    BY <1>3, <1>5 DEF Base, TypeOK
  <2> HIDE DEF minutes
  <2>3. CASE clients[s] = a
    BY <1>3, <1>5, <2>1, <2>2, <2>3, SentTo DEF Newest
  <2>4. CASE clients[s] # a
    BY <1>3, <1>5, <2>1, <2>2, <2>4, SentTo DEF Shows
  <2>5. QED
    BY <2>3, <2>4
<1>6. QED
  BY <1>4, <1>5 DEF handleLocationHistoryRequest

\* Connections come and go without anyone being shown another map, or losing the watch
\* of the one that is shown.
LEMMA SameMap ==
  ASSUME Base, NEW s \in Sockets,
         \/ \E n \in Names : clientConnected(s, n)
         \/ socketClosed(s) \/ clientDisConnected(s),
         NEW t \in Sockets, NEW p \in Phones, Shows(t, p)'
  PROVE  /\ Shows(t, p) /\ map'[t] = map[t] /\ clients'[t] = clients[t]
         /\ mWatchers'[clients[t]] = mWatchers[clients[t]]
<1>1. p # None
  BY Different
<1>2. ASSUME NEW n \in Names, clientConnected(s, n)
      PROVE  /\ Shows(t, p) /\ map'[t] = map[t] /\ clients'[t] = clients[t]
             /\ mWatchers'[clients[t]] = mWatchers[clients[t]]
  <2>1. map[s].about = None
    BY <1>2 DEF clientConnected, Base, Closed, NoMap, Response
  <2>2. t # s
    BY <1>1, <1>2, <2>1 DEF clientConnected, Shows
  <2>3. QED
    BY <1>2, <2>2 DEF clientConnected, Shows, Base, TypeOK
<1>3. ASSUME socketClosed(s)
      PROVE  /\ Shows(t, p) /\ map'[t] = map[t] /\ clients'[t] = clients[t]
             /\ mWatchers'[clients[t]] = mWatchers[clients[t]]
  BY <1>3 DEF socketClosed, Shows, Base, TypeOK
<1>4. ASSUME clientDisConnected(s)
      PROVE  /\ Shows(t, p) /\ map'[t] = map[t] /\ clients'[t] = clients[t]
             /\ mWatchers'[clients[t]] = mWatchers[clients[t]]
  <2>1. t # s
    BY <1>4, Different DEF clientDisConnected, Shows, Base, TypeOK
  <2>2. /\ clients'[t] = clients[t] /\ map'[t] = map[t] /\ t \notin dead
        /\ clients[t] \in Admins /\ Shows(t, p)
    BY <1>4, <2>1 DEF clientDisConnected, Shows, Base, TypeOK
  <2>3. clients[t] = clients[s] => StillConnected(s)
    BY <2>1 DEF StillConnected
  <2>4. mWatchers'[clients[t]] = mWatchers[clients[t]]
    BY <1>4, <2>2, <2>3 DEF clientDisConnected, Unwatched
  <2>5. QED
    BY <2>2, <2>4
<1>5. QED
  BY <1>2, <1>3, <1>4

\* Whoever shows a map is watching, so that what comes next is sent there.
Watching ==
  \A s \in Sockets, p \in Phones : Shows(s, p) => mWatchers[clients[s]].clientName = p

\* No step ends or turns the watch of a map that stays.
LEMMA WatchingStep == Base /\ Watching /\ [Next]_vars => Watching'
<1> SUFFICES ASSUME Base, Watching, [Next]_vars,
                    NEW t \in Sockets, NEW p \in Phones, Shows(t, p)'
             PROVE  mWatchers'[clients'[t]].clientName = p
  BY DEF Watching
<1>1. Shows(t, p) => mWatchers[clients[t]].clientName = p
  BY DEF Watching
<1>2. ASSUME UNCHANGED <<clients, dead, mWatchers, map>>
      PROVE  mWatchers'[clients'[t]].clientName = p
  BY <1>1, <1>2 DEF Shows
<1>3. ASSUME NEW s \in Sockets, \/ \E n \in Names : clientConnected(s, n)
                                \/ socketClosed(s) \/ clientDisConnected(s)
      PROVE  mWatchers'[clients'[t]].clientName = p
  BY <1>1, <1>3, SameMap
<1>4. ASSUME notifyLocationWatchers \/ handleGeofenceStatus
      PROVE  mWatchers'[clients'[t]].clientName = p
  <2>1. Turn(Admin) /\ Admin \in Listeners /\ UNCHANGED mWatchers
    BY <1>4 DEF notifyLocationWatchers, handleGeofenceStatus, Listeners
  <2>2. UNCHANGED <<clients, dead, mWatchers>>
    BY <2>1, TurnWork
  <2>3. PICK fresh, fences :
          sendLocationHistoryResponse(Watchers(work.from), work.from, fresh, fences)
    BY <1>4 DEF notifyLocationWatchers, handleGeofenceStatus
  <2>4. IF mWatchers[clients[t]].clientName = work.from THEN p = work.from
        ELSE Shows(t, p)
    BY <2>2, <2>3, PushShows
  <2>5. QED
    BY <1>1, <2>2, <2>4
<1>5. ASSUME handleLocationHistoryRequest PROVE mWatchers'[clients'[t]].clientName = p
  <2>1. Turn(Admin) /\ Admin \in Listeners
    BY <1>5 DEF handleLocationHistoryRequest, Listeners
  <2>2. UNCHANGED clients
    BY <2>1, TurnWork
  <2>3. QED
    BY <1>1, <1>5, <2>2, RequestShows
<1>6. QED
  <2>1. \/ databaseFails \/ databaseReturns \/ broadcast \/ UNCHANGED vars
        \/ \E n \in Admins : editAdminCode(n)
        \/ \E q \in Phones : timePasses(q)
        \/ \E s \in Sockets, o \in UNION {Objects(n) : n \in Names} : receiveObject(s, o)
        => UNCHANGED <<clients, dead, mWatchers, map>>
    BY DEF databaseFails, databaseReturns, broadcast, vars, editAdminCode, timePasses,
       receiveObject, sessions
  <2>2. writeObject => UNCHANGED <<clients, dead, mWatchers, map>>
    BY DEF writeObject, Turn, sessions
  <2>3. QED
    BY <1>2, <1>3, <1>4, <1>5, <2>1, <2>2 DEF Next

\* Nobody shows a map at the start.
LEMMA WatchingInit == Init => Watching
BY Different DEF Init, Watching, Shows

\* For any number of administrators and sockets, neither the death of another socket nor
\* a late request ends a watch while the map of it is shown (AdminController.cpp:41-48).
THEOREM MapsAreWatched == Spec => []MapIsWatched
<1>1. Base /\ Watching /\ [Next]_vars => Base' /\ Watching'
  BY BaseStep, WatchingStep
<1>2. Watching => MapIsWatched
  BY DEF Watching, Shows, MapIsWatched, ShowsMapOf
<1>3. QED
  BY <1>1, <1>2, BaseInit, WatchingInit, PTL DEF Spec

-----------------------------------------------------------------------------
(* What the maps show.                                                     *)

\* Without a broadcast nothing is pending.
LEMMA NothingPending ==
  ASSUME Free PROVE \A l, id, p : ~Pending(l, id, p)
BY DEF Free, Pending

\* A connection's coming and going changes nothing else that the maps rest on.
LEMMA SameReports ==
  ASSUME NEW s \in Sockets,
         \/ \E n \in Names : clientConnected(s, n)
         \/ socketClosed(s) \/ clientDisConnected(s)
  PROVE  /\ UNCHANGED <<dbUp, stored, work, fix, fence>>
         /\ rows \subseteq rows'
BY DEF clientConnected, socketClosed, clientDisConnected, db, reported

\* Nor does an object that has been taken from its client: nothing is pending before
\* or after it.
LEMMA InHand ==
  ASSUME Base, NEW s \in Sockets, NEW o, receiveObject(s, o)
  PROVE  /\ UNCHANGED <<db, sessions, mWatchers, map, fix, fence>> /\ Untold' = Untold
         /\ \A l, id, p : ~Pending(l, id, p) /\ ~Pending(l, id, p)'
         /\ RecentFix' = RecentFix
<1>1. Free' /\ UNCHANGED <<db, sessions, mWatchers, map, fix, fence>>
  BY DEF receiveObject, Broadcast, Free, reported
<1>2. CASE Free
  BY <1>1, <1>2 DEF Free, Pending, Untold, RecentFix, Unwritten, db, stored
<1>3. CASE ~Free
  BY <1>3 DEF receiveObject, Base, TypeOK
<1>4. QED
  BY <1>2, <1>3

-----------------------------------------------------------------------------
(* The last location.                                                      *)

\* What the database returns for a phone of which no location is on its way.
LEMMA FixRead ==
  ASSUME FixInv, NEW p \in Phones, NEW k, ~Pending(Writer, Location, p)
  PROVE  Truthful(locationHistory(p, k), p, k)
<1>1. fix[p] # Lost => location[p] = fix[p] /\ (~dbUp => fix[p] = None)
  BY DEF FixInv, FixStored, FixDown
<1>2. RecentFix[p] = recent[p]
  BY DEF RecentFix, Unwritten, Pending
<1>3. QED
  BY <1>1, <1>2 DEF locationHistory, Truthful

\* AdminController's turn writes nothing: what is stored and carried stays as it is.
LEMMA FixAdminTurn ==
  ASSUME Base, FixInv, Turn(Admin), UNCHANGED <<dbUp, rows, location, recent>>
  PROVE  FixCarried' /\ FixStored' /\ FixDown' /\ UNCHANGED <<fix, RecentFix>>
<1>1. Admin \in Listeners /\ Writer \in Listeners /\ Admin # Writer /\ WorkOK
  BY DEF Listeners, Admin, Writer, Base
<1>2. UNCHANGED fix
  BY <1>1, TurnWork
<1>3. FixCarried'
  BY <1>1, <1>2, TurnPending DEF FixInv, FixCarried
<1>4. FixStored'
  BY <1>1, <1>2, TurnPending DEF FixInv, FixStored, Found
<1>5. FixDown'
  BY <1>2 DEF FixInv, FixDown
<1>6. \A p \in Phones : Unwritten(p)' <=> Unwritten(p)
  BY <1>1, TurnPending DEF Pending, Unwritten
<1>7. RecentFix' = RecentFix
  BY <1>6 DEF RecentFix
<1>8. QED
  BY <1>2, <1>3, <1>4, <1>5, <1>7

\* A push to all the watchers of a phone, of what is its last fix for each.
LEMMA FixPushed ==
  ASSUME Watching, FixInv, UNCHANGED <<clients, dead, mWatchers, fix, RecentFix>>,
         NEW fresh, NEW fences,
         sendLocationHistoryResponse(Watchers(work.from), work.from, fresh, fences),
         \A k : Truthful(Newest(fresh, work.from, k), work.from, k)
  PROVE  FixShown'
<1> SUFFICES ASSUME NEW s \in Sockets, NEW p \in Phones, Shows(s, p)'
             PROVE  Truthful(map[s].newest, p, mWatchers[clients[s]].minutes)'
  BY DEF FixShown
<1> DEFINE k == mWatchers[clients[s]].minutes
<1>1. CASE mWatchers[clients[s]].clientName = work.from
  <2>1. p = work.from /\ map'[s].newest = Newest(fresh, p, k)
    BY <1>1, PushShows
  <2>2. QED
    BY <2>1 DEF Truthful
<1>2. CASE mWatchers[clients[s]].clientName # work.from
  <2>1. Shows(s, p) /\ map'[s] = map[s]
    BY <1>2, PushShows
  <2>2. ~Pending(Admin, Location, p)
    BY <1>2, <2>1 DEF Watching, Pending
  <2>3. Truthful(map[s].newest, p, k)
    BY <2>1, <2>2 DEF FixInv, FixShown
  <2>4. QED
    BY <2>1, <2>3 DEF Truthful
<1>3. QED
  BY <1>1, <1>2

\* What AdminController pushes for a location or a keepalive it has in hand.
LEMMA FreshTruthful ==
  ASSUME FixInv, Admin \in work.todo, work.from \in Phones,
         work.object.id = Location => work.object.value \in Fixes, NEW k
  PROVE  Truthful(Newest(FreshLocation(work.object), work.from, k), work.from, k)
<1>1. CASE work.object.id = Location
  <2>1. FreshLocation(work.object) = work.object.value /\ work.object.value # NoFresh
    BY <1>1, Different DEF FreshLocation, NoFresh
  <2>2. fix[work.from] \in {Lost, work.object.value}
    BY <1>1 DEF FixInv, FixCarried, Pending, Listeners
  <2>3. QED
    BY <2>1, <2>2 DEF Truthful, Newest
<1>2. CASE work.object.id # Location
  <2>1. ~Pending(Writer, Location, work.from)
    BY <1>2 DEF Pending
  <2>2. QED
    BY <1>2, <2>1, FixRead DEF FreshLocation, Newest
<1>3. QED
  BY <1>1, <1>2

\* Nothing that is shown becomes another fix by time passing.
LEMMA FixAges ==
  ASSUME Base, NEW q \in Phones, timePasses(q)
  PROVE  /\ \A p \in Phones : RecentFix'[p] \subseteq RecentFix[p]
         /\ \A p \in Phones \ {q} : RecentFix'[p] = RecentFix[p]
<1> SUFFICES ASSUME NEW p \in Phones
             PROVE  /\ RecentFix'[p] \subseteq RecentFix[p]
                    /\ p # q => RecentFix'[p] = RecentFix[p]
  OBVIOUS
<1>1. recent'[p] \subseteq recent[p] /\ (p # q => recent'[p] = recent[p])
  BY DEF timePasses, Base, TypeOK
<1>2. Unwritten(p)' <=> Unwritten(p)
  BY DEF timePasses, Unwritten
<1>3. QED
  BY <1>1, <1>2 DEF RecentFix

\* Every step, in either order of the listeners, keeps track of the last fix.
LEMMA FixStep == Base /\ Watching /\ FixInv /\ [Next]_vars => FixInv'
<1> SUFFICES ASSUME Base, Watching, FixInv, [Next]_vars PROVE FixInv'
  OBVIOUS
<1> Admin \in Listeners /\ Writer \in Listeners /\ Admin # Writer /\ WorkOK
  BY DEF Listeners, Admin, Writer, Base
<1>1. ASSUME databaseFails PROVE FixInv'
  BY <1>1 DEF databaseFails, FixInv, FixCarried, FixStored, FixDown, FixShown, Truthful
<1>2. ASSUME databaseReturns PROVE FixInv'
  BY <1>2 DEF databaseReturns, FixInv, FixCarried, FixStored, FixDown, FixShown, Truthful,
     RecentFix, Unwritten, Pending, Shows, Found, stored, reported, sessions
<1>3. ASSUME NEW n, editAdminCode(n) PROVE FixInv'
  BY <1>3 DEF editAdminCode, FixInv, FixCarried, FixStored, FixDown, FixShown, Truthful,
     RecentFix, Unwritten, Pending, Shows, Found, stored, reported, sessions
<1>4. ASSUME NEW q \in Phones, timePasses(q) PROVE FixInv'
  <2>1. UNCHANGED <<dbUp, rows, location, clients, dead, mWatchers, work, map, fix>>
    BY <1>4 DEF timePasses, sessions, reported
  <2>2. FixCarried' /\ FixStored' /\ FixDown'
    BY <2>1 DEF FixInv, FixCarried, FixStored, FixDown, Pending, Found
  <2>3. FixShown'
    BY <1>4, <2>1, FixAges DEF FixInv, FixShown, Truthful, Shows, Pending
  <2>4. QED
    BY <2>2, <2>3 DEF FixInv
<1>5. ASSUME NEW s \in Sockets,
             \/ \E n \in Names : clientConnected(s, n)
             \/ socketClosed(s) \/ clientDisConnected(s)
      PROVE  FixInv'
  <2>1. UNCHANGED <<dbUp, location, recent, work, fix>> /\ rows \subseteq rows'
    BY <1>5, SameReports DEF stored
  <2>2. FixCarried' /\ FixStored' /\ FixDown'
    BY <2>1 DEF FixInv, FixCarried, FixStored, FixDown, Pending, Found
  <2>3. UNCHANGED RecentFix
    BY <2>1 DEF RecentFix, Unwritten
  <2>4. FixShown'
    BY <1>5, <2>1, <2>3, SameMap DEF FixInv, FixShown, Pending, Truthful
  <2>5. QED
    BY <2>2, <2>4 DEF FixInv
<1>6. ASSUME NEW s \in Sockets, NEW o, receiveObject(s, o) PROVE FixInv'
  <2>1. UNCHANGED <<dbUp, rows, location, clients, dead, mWatchers, map, fix, RecentFix>>
    BY <1>6, InHand DEF db, stored, sessions
  <2>2. \A l, id, p : ~Pending(l, id, p) /\ ~Pending(l, id, p)'
    BY <1>6, InHand
  <2>3. QED
    BY <2>1, <2>2 DEF FixInv, FixCarried, FixStored, FixDown, FixShown, Truthful, Shows
<1>7. ASSUME broadcast PROVE FixInv'
  <2> DEFINE n == work.from
             o == work.object
  <2>1. /\ Free
        /\ UNCHANGED <<dbUp, rows, location, recent, clients, dead, mWatchers, map>>
        /\ fix' = IF o.id = Location THEN [fix EXCEPT ![n] = Kept(n, o.value)] ELSE fix
    BY <1>7 DEF broadcast, db, stored, sessions
  <2>2. work' = [from |-> n, object |-> o, todo |-> Listeners]
    BY <1>7, NewBroadcast
  <2>3. \A l \in Listeners, p \in Phones :
          Pending(l, Location, p)' <=> p = n /\ o.id = Location
    BY <2>2 DEF Pending
  <2>4. \A p \in Phones :
          fix'[p] = IF p = n /\ o.id = Location THEN Kept(n, o.value) ELSE fix[p]
    BY <2>1 DEF Base, TypeOK
  <2>5. FixCarried'
    BY <2>2, <2>3, <2>4 DEF FixCarried, Kept
  <2>6. FixStored'
    BY <2>1, <2>3, <2>4, NothingPending DEF FixInv, FixStored, Kept, Found
  <2>7. FixDown'
    BY <2>1, <2>4 DEF FixInv, FixDown, Kept, Found
  <2>8. \A p \in Phones : ~Pending(Admin, Location, p)' => RecentFix'[p] = RecentFix[p]
    BY <2>1, <2>2 DEF RecentFix, Unwritten, Pending, Free
  <2>9. FixShown'
    BY <2>1, <2>3, <2>4, <2>8, NothingPending DEF FixInv, FixShown, Shows, Truthful
  <2>10. QED
    BY <2>5, <2>6, <2>7, <2>9 DEF FixInv
<1>8. ASSUME writeObject PROVE FixInv'
  <2>1. Turn(Writer) /\ UNCHANGED <<dbUp, rows, mWatchers, map>>
    BY <1>8 DEF writeObject
  <2>2. UNCHANGED <<clients, dead, fix>> /\ Writer \in work.todo
    BY <2>1, TurnWork, TurnTaken
  <2>3. FixCarried'
    BY <2>1, <2>2, TurnPending DEF FixInv, FixCarried
  <2>4. \A p \in Phones : location'[p] =
          IF Pending(Writer, Location, p) /\ Found(p) THEN work.object.value
          ELSE location[p]
    BY <1>8, <2>2 DEF writeObject, Pending, Base, TypeOK
  <2>5. FixStored'
    BY <2>1, <2>2, <2>4, TurnPending DEF FixInv, FixStored, FixCarried
  <2>6. FixDown'
    BY <2>1, <2>2 DEF FixInv, FixDown
  <2>7. \A p \in Phones : RecentFix'[p] \subseteq RecentFix[p]
    <3> SUFFICES ASSUME NEW p \in Phones PROVE recent'[p] \subseteq RecentFix[p]
      BY <2>1, TurnPending DEF RecentFix, Unwritten, Pending
    <3>1. CASE Unwritten(p)
      BY <1>8, <3>1 DEF RecentFix, writeObject, Base, TypeOK
    <3>2. CASE ~Unwritten(p)
      BY <1>8, <2>2, <3>2 DEF RecentFix, writeObject, Unwritten, Base, TypeOK
    <3>3. QED
      BY <3>1, <3>2
  <2>8. FixShown'
    BY <2>1, <2>2, <2>7, TurnPending DEF FixInv, FixShown, Shows, Truthful
  <2>9. QED
    BY <2>3, <2>5, <2>6, <2>8 DEF FixInv
<1>9. ASSUME notifyLocationWatchers PROVE FixInv'
  <2>1. Turn(Admin) /\ UNCHANGED <<dbUp, rows, location, recent, mWatchers>>
    BY <1>9 DEF notifyLocationWatchers, db, stored
  <2>2. UNCHANGED <<clients, dead, fix, RecentFix>>
    BY <2>1, TurnWork, FixAdminTurn
  <2>3. /\ Admin \in work.todo /\ work.from \in Phones
        /\ work.object.id = Location => work.object.value \in Fixes
    BY <1>9, <2>1, TurnWork, TurnTaken, ObjectKinds DEF notifyLocationWatchers
  <2>4. sendLocationHistoryResponse(Watchers(work.from), work.from,
                                    FreshLocation(work.object), geofence)
    BY <1>9 DEF notifyLocationWatchers
  <2>5. \A k : Truthful(Newest(FreshLocation(work.object), work.from, k), work.from, k)
    BY <2>3, FreshTruthful
  <2>6. FixShown'
    BY <2>1, <2>2, <2>4, <2>5, FixPushed
  <2>7. QED
    BY <2>1, <2>6, FixAdminTurn DEF FixInv
<1>10. ASSUME handleGeofenceStatus PROVE FixInv'
  <2>1. Turn(Admin) /\ UNCHANGED <<dbUp, rows, location, recent, mWatchers>>
    BY <1>10 DEF handleGeofenceStatus
  <2>2. UNCHANGED <<clients, dead, fix, RecentFix>>
    BY <2>1, TurnWork, FixAdminTurn
  <2>3. work.from \in Phones /\ ~Pending(Writer, Location, work.from)
    BY <1>10, <2>1, TurnWork, ObjectKinds DEF handleGeofenceStatus, Pending, Location, Fence
  <2>4. sendLocationHistoryResponse(Watchers(work.from), work.from, NoFresh,
                                    Told(work.from, geofence'))
    BY <1>10 DEF handleGeofenceStatus
  <2>5. \A k : Truthful(Newest(NoFresh, work.from, k), work.from, k)
    BY <2>3, FixRead DEF Newest
  <2>6. FixShown'
    BY <2>1, <2>2, <2>4, <2>5, FixPushed
  <2>7. QED
    BY <2>1, <2>6, FixAdminTurn DEF FixInv
<1>11. ASSUME handleLocationHistoryRequest PROVE FixInv'
  <2>1. /\ Turn(Admin) /\ UNCHANGED <<dbUp, rows, location, recent>>
        /\ work.object.id # Location
    BY <1>11 DEF handleLocationHistoryRequest, db, stored, Request, Location
  <2>2. UNCHANGED <<clients, fix, RecentFix>>
    BY <2>1, TurnWork, FixAdminTurn
  <2>3. ASSUME NEW s \in Sockets, NEW p \in Phones, Shows(s, p)'
        PROVE  Truthful(map[s].newest, p, mWatchers[clients[s]].minutes)'
    <3>1. ~Pending(Writer, Location, p) /\ ~Pending(Admin, Location, p)
      BY <2>1 DEF Pending
    <3>2. CASE clients[s] = work.from
      <4> DEFINE k == work.object.value.minutes
      <4>1. /\ mWatchers'[clients[s]].minutes = k
            /\ map'[s].newest = locationHistory(p, k)
        BY <1>11, <2>3, <3>2, RequestShows
      <4>2. Truthful(locationHistory(p, k), p, k)
        BY <3>1, FixRead
      <4>3. QED
        BY <2>2, <4>1, <4>2 DEF Truthful
    <3>3. CASE clients[s] # work.from
      <4>1. /\ Shows(s, p) /\ map'[s] = map[s]
            /\ mWatchers'[clients[s]] = mWatchers[clients[s]]
        BY <1>11, <2>3, <3>3, RequestShows
      <4>2. Truthful(map[s].newest, p, mWatchers[clients[s]].minutes)
        BY <3>1, <4>1 DEF FixInv, FixShown
      <4>3. QED
        BY <2>2, <4>1, <4>2 DEF Truthful
    <3>4. QED
      BY <3>2, <3>3
  <2>4. FixShown'
    BY <2>3 DEF FixShown
  <2>5. QED
    BY <2>1, <2>4, FixAdminTurn DEF FixInv
<1>12. ASSUME UNCHANGED vars PROVE FixInv'
  BY <1>12 DEF vars, db, stored, sessions, reported, FixInv, FixCarried, FixStored, FixDown,
     FixShown, Truthful, RecentFix, Unwritten, Pending, Shows, Found
<1>13. QED
  BY <1>1, <1>2, <1>3, <1>4, <1>5, <1>6, <1>7, <1>8, <1>9, <1>10, <1>11, <1>12 DEF Next

\* Nothing is reported at the start.
LEMMA FixInit == Init => FixInv
BY Different DEF Init, FixInv, FixCarried, FixStored, FixDown, FixShown, Pending, Shows,
   Idle, Broadcast

\* Whoever hears of it first, and however long the phone then stands still, a map ends
\* with the location reported last, or with none if that is older than the minutes of
\* the watch (HomeControlDal.cpp:446).
THEOREM MapsHaveLastFix == Spec => []MapHasLastFix
<1>1. Base /\ Watching /\ FixInv /\ [Next]_vars => Base' /\ Watching' /\ FixInv'
  BY BaseStep, WatchingStep, FixStep
<1>2. FixInv => MapHasLastFix
  <2> SUFFICES ASSUME FixInv, NEW s \in Sockets, NEW p \in Phones, ShowsMapOf(s, p),
                      fix[p] # Lost
               PROVE  \/ map[s].newest = fix[p]
                      \/ /\ map[s].newest = None
                         /\ mWatchers[clients[s]].minutes \notin recent[p]
    BY DEF MapHasLastFix
  <2>1. Free /\ Shows(s, p)
    BY DEF ShowsMapOf, Shows
  <2>2. RecentFix[p] = recent[p]
    BY <2>1 DEF RecentFix, Unwritten, Free
  <2>3. QED
    BY <2>1, <2>2, NothingPending DEF FixInv, FixShown, Truthful
<1>3. QED
  BY <1>1, <1>2, BaseInit, WatchingInit, FixInit, PTL DEF Spec

-----------------------------------------------------------------------------
(* The last fence.                                                         *)

\* What the database returns for a phone of which no fence is on its way.
LEMMA FenceRead ==
  ASSUME FenceInv, NEW p \in Phones, fence[p] # Lost, ~Pending(Admin, Fence, p)
  PROVE  (IF dbUp THEN geofence[p] ELSE None) = fence[p]
BY DEF FenceInv, FenceStored, FenceDown

\* A push to all the watchers of a phone, of its last fence.
LEMMA FencePushed ==
  ASSUME Watching, FenceInv, UNCHANGED <<clients, dead, mWatchers, fence>>,
         NEW fresh, NEW fences,
         sendLocationHistoryResponse(Watchers(work.from), work.from, fresh, fences),
         fence[work.from] # Lost =>
           fence[work.from] = IF dbUp THEN fences[work.from] ELSE None
  PROVE  FenceShown'
<1> SUFFICES ASSUME NEW s \in Sockets, NEW p \in Phones, Shows(s, p)', fence[p] # Lost
             PROVE  map'[s].fence = fence[p]
  BY DEF FenceShown
<1>1. CASE mWatchers[clients[s]].clientName = work.from
  BY <1>1, PushShows
<1>2. CASE mWatchers[clients[s]].clientName # work.from
  <2>1. Shows(s, p) /\ map'[s] = map[s]
    BY <1>2, PushShows
  <2>2. ~Pending(Admin, Fence, p)
    BY <1>2, <2>1 DEF Watching, Pending
  <2>3. QED
    BY <2>1, <2>2 DEF FenceInv, FenceShown
<1>3. QED
  BY <1>1, <1>2

\* A turn in which no fence is stored.
LEMMA FenceOtherTurn ==
  ASSUME Base, FenceInv, NEW l \in Listeners, Turn(l),
         l = Admin => work.object.id # Fence, UNCHANGED <<dbUp, rows, geofence>>
  PROVE  FenceStored' /\ FenceDown' /\ UNCHANGED fence
<1>1. Admin \in Listeners /\ WorkOK
  BY DEF Listeners, Base
<1>2. UNCHANGED fence
  BY TurnWork
<1>3. \A p \in Phones : Pending(Admin, Fence, p)' <=> Pending(Admin, Fence, p)
  BY <1>1, TurnPending DEF Pending
<1>4. \A p \in Phones : Pending(Admin, Fence, p)' => work'.object = work.object
  BY <1>1, TurnPending
<1>5. FenceStored'
  BY <1>2, <1>3, <1>4 DEF FenceInv, FenceStored, Found
<1>6. FenceDown'
  BY <1>2 DEF FenceInv, FenceDown
<1>7. QED
  BY <1>2, <1>5, <1>6

\* And of the last fence.
LEMMA FenceStep == Base /\ Watching /\ FenceInv /\ [Next]_vars => FenceInv'
<1> SUFFICES ASSUME Base, Watching, FenceInv, [Next]_vars PROVE FenceInv'
  OBVIOUS
<1> Admin \in Listeners /\ Writer \in Listeners /\ Admin # Writer /\ WorkOK
  BY DEF Listeners, Admin, Writer, Base
<1>1. ASSUME databaseFails PROVE FenceInv'
  BY <1>1 DEF databaseFails, FenceInv, FenceStored, FenceDown, FenceShown
<1>2. ASSUME databaseReturns PROVE FenceInv'
  BY <1>2 DEF databaseReturns, FenceInv, FenceStored, FenceDown, FenceShown,
     Pending, Shows, Found, stored, reported, sessions
<1>3. ASSUME \/ \E n \in Admins : editAdminCode(n)
             \/ \E q \in Phones : timePasses(q)
      PROVE  FenceInv'
  BY <1>3 DEF editAdminCode, timePasses, FenceInv, FenceStored, FenceDown, FenceShown,
     Pending, Shows, Found, stored, reported, sessions
<1>4. ASSUME NEW s \in Sockets,
             \/ \E n \in Names : clientConnected(s, n)
             \/ socketClosed(s) \/ clientDisConnected(s)
      PROVE  FenceInv'
  <2>1. UNCHANGED <<dbUp, geofence, work, fence>> /\ rows \subseteq rows'
    BY <1>4, SameReports DEF stored
  <2>2. FenceStored' /\ FenceDown'
    BY <2>1 DEF FenceInv, FenceStored, FenceDown, Pending, Found
  <2>3. FenceShown'
    BY <1>4, <2>1, SameMap DEF FenceInv, FenceShown, Pending
  <2>4. QED
    BY <2>2, <2>3 DEF FenceInv
<1>5. ASSUME NEW s \in Sockets, NEW o, receiveObject(s, o) PROVE FenceInv'
  <2>1. UNCHANGED <<dbUp, rows, geofence, clients, dead, mWatchers, map, fence>>
    BY <1>5, InHand DEF db, stored, sessions
  <2>2. \A l, id, p : ~Pending(l, id, p) /\ ~Pending(l, id, p)'
    BY <1>5, InHand
  <2>3. QED
    BY <2>1, <2>2 DEF FenceInv, FenceStored, FenceDown, FenceShown, Shows
<1>6. ASSUME broadcast PROVE FenceInv'
  <2> DEFINE n == work.from
             o == work.object
  <2>1. /\ Free /\ UNCHANGED <<dbUp, rows, geofence, clients, dead, mWatchers, map>>
        /\ fence' = IF o.id = Fence THEN [fence EXCEPT ![n] = Kept(n, o.value)] ELSE fence
    BY <1>6 DEF broadcast, db, stored, sessions
  <2>2. work' = [from |-> n, object |-> o, todo |-> Listeners]
    BY <1>6, NewBroadcast
  <2>3. \A l \in Listeners, p \in Phones :
          Pending(l, Fence, p)' <=> p = n /\ o.id = Fence
    BY <2>2 DEF Pending
  <2>4. \A p \in Phones :
          fence'[p] = IF p = n /\ o.id = Fence THEN Kept(n, o.value) ELSE fence[p]
    BY <2>1 DEF Base, TypeOK
  <2>5. FenceStored'
    BY <2>1, <2>2, <2>3, <2>4, NothingPending DEF FenceInv, FenceStored, Kept, Found
  <2>6. FenceDown'
    BY <2>1, <2>4 DEF FenceInv, FenceDown, Kept, Found
  <2>7. FenceShown'
    BY <2>1, <2>3, <2>4, NothingPending DEF FenceInv, FenceShown, Shows
  <2>8. QED
    BY <2>5, <2>6, <2>7 DEF FenceInv
<1>7. ASSUME writeObject PROVE FenceInv'
  <2>1. Turn(Writer) /\ UNCHANGED <<dbUp, rows, geofence, mWatchers, map>>
    BY <1>7 DEF writeObject
  <2>2. UNCHANGED <<clients, dead>>
    BY <2>1, TurnWork
  <2>3. FenceStored' /\ FenceDown' /\ UNCHANGED fence
    BY <2>1, FenceOtherTurn
  <2>4. FenceShown'
    BY <2>1, <2>2, <2>3, TurnPending DEF FenceInv, FenceShown, Shows
  <2>5. QED
    BY <2>3, <2>4 DEF FenceInv
<1>8. ASSUME notifyLocationWatchers PROVE FenceInv'
  <2>1. /\ Turn(Admin) /\ UNCHANGED <<dbUp, rows, geofence, mWatchers>>
        /\ work.object.id # Fence
    BY <1>8 DEF notifyLocationWatchers, db, stored, Location, Alive, Fence
  <2>2. UNCHANGED <<clients, dead>> /\ work.from \in Phones
    BY <1>8, <2>1, TurnWork, ObjectKinds DEF notifyLocationWatchers
  <2>3. sendLocationHistoryResponse(Watchers(work.from), work.from,
                                    FreshLocation(work.object), geofence)
    BY <1>8 DEF notifyLocationWatchers
  <2>4. ~Pending(Admin, Fence, work.from)
    BY <2>1 DEF Pending
  <2>5. FenceStored' /\ FenceDown' /\ UNCHANGED fence
    BY <2>1, FenceOtherTurn
  <2>6. FenceShown'
    BY <2>1, <2>2, <2>3, <2>4, <2>5, FenceRead, FencePushed
  <2>7. QED
    BY <2>5, <2>6 DEF FenceInv
<1>9. ASSUME handleGeofenceStatus PROVE FenceInv'
  <2> DEFINE p == work.from
  <2>1. Turn(Admin) /\ UNCHANGED <<dbUp, rows, mWatchers>> /\ work.object.id = Fence
    BY <1>9 DEF handleGeofenceStatus
  <2>2. UNCHANGED <<clients, dead, fence>> /\ p \in Phones /\ Admin \in work.todo
    BY <2>1, TurnWork, TurnTaken, ObjectKinds
  <2>3. sendLocationHistoryResponse(Watchers(p), p, NoFresh, geofence')
    BY <1>9 DEF handleGeofenceStatus, Told
  <2>4. Pending(Admin, Fence, p)
    BY <2>1, <2>2 DEF Pending
  <2>5. \A q \in Phones :
          geofence'[q] = IF q = p /\ Found(p) THEN work.object.value ELSE geofence[q]
    BY <1>9 DEF handleGeofenceStatus, Base, TypeOK
  <2>6. fence[p] # Lost => Found(p) /\ geofence'[p] = fence[p]
    BY <2>2, <2>4, <2>5 DEF FenceInv, FenceStored
  <2>7. FenceStored'
    <3> SUFFICES ASSUME NEW q \in Phones, fence[q] # Lost PROVE geofence'[q] = fence[q]
      BY <2>1, <2>2, TurnPending DEF FenceStored
    <3>1. q # p => ~Pending(Admin, Fence, q)
      BY DEF Pending
    <3>2. QED
      BY <2>5, <2>6, <3>1 DEF FenceInv, FenceStored
  <2>8. FenceDown'
    BY <2>1, <2>2 DEF FenceInv, FenceDown
  <2>9. FenceShown'
    BY <2>1, <2>2, <2>3, <2>6, FencePushed DEF Found
  <2>10. QED
    BY <2>7, <2>8, <2>9 DEF FenceInv
<1>10. ASSUME handleLocationHistoryRequest PROVE FenceInv'
  <2>1. Turn(Admin) /\ UNCHANGED <<dbUp, rows, geofence>> /\ work.object.id # Fence
    BY <1>10 DEF handleLocationHistoryRequest, db, stored, Request, Fence
  <2>2. FenceStored' /\ FenceDown' /\ UNCHANGED fence
    BY <2>1, FenceOtherTurn
  <2>3. ASSUME NEW s \in Sockets, NEW p \in Phones, Shows(s, p)', fence[p] # Lost
        PROVE  map'[s].fence = fence[p]
    <3>1. ~Pending(Admin, Fence, p)
      BY <2>1 DEF Pending
    <3>2. CASE clients[s] = work.from
      BY <1>10, <2>3, <3>1, <3>2, RequestShows, FenceRead
    <3>3. CASE clients[s] # work.from
      BY <1>10, <2>3, <3>1, <3>3, RequestShows DEF FenceInv, FenceShown
    <3>4. QED
      BY <3>2, <3>3
  <2>4. FenceShown'
    BY <2>2, <2>3 DEF FenceShown
  <2>5. QED
    BY <2>2, <2>4 DEF FenceInv
<1>11. ASSUME UNCHANGED vars PROVE FenceInv'
  BY <1>11 DEF vars, db, stored, sessions, reported, FenceInv, FenceStored, FenceDown,
     FenceShown, Pending, Shows, Found
<1>12. QED
  BY <1>1, <1>2, <1>3, <1>4, <1>5, <1>6, <1>7, <1>8, <1>9, <1>10, <1>11 DEF Next

\* No fence at the start.
LEMMA FenceInit == Init => FenceInv
BY Different DEF Init, FenceInv, FenceStored, FenceDown, FenceShown, Pending, Shows,
   Idle, Broadcast

\* A map ends with the fence the phone reported last, or without one.
THEOREM MapsHaveLastFence == Spec => []MapHasLastFence
<1>1. Base /\ Watching /\ FenceInv /\ [Next]_vars => Base' /\ Watching' /\ FenceInv'
  BY BaseStep, WatchingStep, FenceStep
<1>2. FenceInv => MapHasLastFence
  BY NothingPending DEF FenceInv, FenceShown, MapHasLastFence, ShowsMapOf, Shows
<1>3. QED
  BY <1>1, <1>2, BaseInit, WatchingInit, FenceInit, PTL DEF Spec

-----------------------------------------------------------------------------
(* LiveMap.                                                                *)

LiveVars == <<fix, fence, RecentFix, Untold, WatchedOn, map>>
OpenSockets(names) == {s \in Sockets : s \notin dead /\ clients[s] \in names}

\* A response to the sockets of some names is a map for each of them, which is current
\* if what is read from the database is, and they watch that phone for these minutes.
LEMMA SentCurrent ==
  ASSUME Base, NEW minutes, DOMAIN minutes \subseteq Admins, NEW p \in Phones,
         NEW fresh \in Points, NEW fences \in [Phones -> {None} \cup Fences],
         sendLocationHistoryResponse(minutes, p, fresh, fences),
         \A k : Truthful(Newest(fresh, p, k), p, k),
         fence[p] # Lost => fence[p] = IF dbUp THEN fences[p] ELSE None,
         \A s \in OpenSockets(DOMAIN minutes) :
           /\ WatchedOn'[s].clientName = p
           /\ WatchedOn'[s].minutes = minutes[clients[s]]
  PROVE  Live!Pushed(OpenSockets(DOMAIN minutes))
<1>1. map' \in [Sockets -> Live!Response]
  BY Sent DEF Maps, Points, Live!Response
<1>2. ASSUME NEW s \in Sockets, s \in OpenSockets(DOMAIN minutes)
      PROVE  Live!Current(WatchedOn'[s], map'[s])
  <2> DEFINE k == minutes[clients[s]]
  <2>1. /\ map'[s].about = p /\ map'[s].newest = Newest(fresh, p, k)
        /\ map'[s].fence = IF dbUp THEN fences[p] ELSE None
    BY <1>2, SentTo DEF OpenSockets
  <2>2. Truthful(map'[s].newest, p, k)
    BY <2>1
  <2>3. WatchedOn'[s].clientName = p /\ WatchedOn'[s].minutes = k
    BY <1>2
  <2>4. QED
    BY <2>1, <2>2, <2>3 DEF Truthful, Live!Current
<1>3. ASSUME NEW s \in Sockets, s \notin OpenSockets(DOMAIN minutes)
      PROVE  map'[s] = map[s]
  BY <1>3, SentTo DEF OpenSockets
<1>4. QED
  BY <1>1, <1>2, <1>3 DEF Live!Pushed

\* Those who are told of a phone are those who watch it, on every open socket.
LEMMA ToldAll ==
  ASSUME NEW p \in Phones
  PROVE  /\ OpenSockets(DOMAIN Watchers(p)) = {s \in Sockets : WatchedOn[s].clientName = p}
         /\ \A s \in OpenSockets(DOMAIN Watchers(p)) :
              /\ WatchedOn[s].clientName = p
              /\ WatchedOn[s].minutes = Watchers(p)[clients[s]]
BY Different, ToWatchers DEF OpenSockets, WatchedOn, NoWatch, Watch

\* The turn that ends with a push to them is LiveMap's push.
LEMMA PushStep ==
  ASSUME Base, FixInv, Turn(Admin), work.object.id # Request,
         UNCHANGED <<dbUp, rows, location, recent, mWatchers>>,
         NEW fresh \in Points, NEW fences \in [Phones -> {None} \cup Fences],
         work.from \in Phones,
         sendLocationHistoryResponse(Watchers(work.from), work.from, fresh, fences),
         \A k : Truthful(Newest(fresh, work.from, k), work.from, k),
         fence[work.from] # Lost => fence[work.from] = IF dbUp THEN fences[work.from] ELSE None
  PROVE  Live!push
<1>1. Admin \in Listeners /\ WorkOK
  BY DEF Listeners, Base
<1>2. UNCHANGED <<clients, dead, fix, fence, RecentFix>>
  BY <1>1, TurnWork, FixAdminTurn
<1>3. WatchedOn' = WatchedOn
  BY <1>2 DEF WatchedOn
<1>4. Untold = work.from /\ Untold # None /\ Untold' = None
  BY <1>1, TurnTaken, Different DEF Untold
<1>5. Live!Pushed(OpenSockets(DOMAIN Watchers(work.from)))
  BY <1>3, Pushes, ToldAll, SentCurrent
<1>6. {s \in Sockets : WatchedOn[s].clientName = Untold}
        = OpenSockets(DOMAIN Watchers(work.from))
  BY <1>4, ToldAll
<1>7. Live!Pushed({s \in Sockets : WatchedOn[s].clientName = Untold})
  BY <1>5, <1>6
<1>8. QED
  BY <1>2, <1>3, <1>4, <1>7 DEF Live!push

\* LiveMap's watch of nobody is that of AdminController.
LEMMA SameNoWatch == Live!NoWatch = NoWatch
BY DEF Live!NoWatch, Live!Watch, NoWatch, Watch

\* A socket that is closed, or whose client is deleted, shows and watches nothing.
LEMMA CloseStep ==
  ASSUME Base, NEW s \in Sockets, socketClosed(s) \/ clientDisConnected(s)
  PROVE  Live!close(s)
<1> DEFINE Goal == WatchedOn' = Live!Viewing({s}, Live!NoWatch)
<1>1. UNCHANGED <<fix, fence, recent, work>> /\ map' = [map EXCEPT ![s] = NoMap]
  BY DEF socketClosed, clientDisConnected, db, stored, reported
<1>2. map' = Live!Cleared({s}) /\ Untold' = Untold /\ RecentFix' = RecentFix
  BY <1>1 DEF Live!Cleared, NoMap, Response, Live!NoMap, Base, TypeOK, Untold, RecentFix,
     Unwritten
<1>3. ASSUME socketClosed(s) PROVE Goal
  <2>1. dead' = dead \cup {s} /\ UNCHANGED <<clients, mWatchers>>
    BY <1>3 DEF socketClosed
  <2>2. QED
    BY <2>1, SameNoWatch DEF WatchedOn, Live!Viewing
<1>4. ASSUME clientDisConnected(s) PROVE Goal
  <2>1. /\ dead' = dead \ {s} /\ clients' = [clients EXCEPT ![s] = None]
        /\ \A t \in Sockets \ {s} : clients[t] \in Admins =>
              mWatchers'[clients[t]] = mWatchers[clients[t]]
    BY <1>4 DEF clientDisConnected, StillConnected, Unwatched
  <2>2. clients' \in [Sockets -> {None} \cup Names] /\ clients'[s] = None
        /\ \A t \in Sockets \ {s} : clients'[t] = clients[t] /\ (t \in dead' <=> t \in dead)
    BY <2>1 DEF Base, TypeOK
  <2>3. QED
    BY <2>1, <2>2, SameNoWatch, Different DEF WatchedOn, Live!Viewing
<1>5. WatchedOn' = Live!Viewing({s}, Live!NoWatch)
  BY <1>3, <1>4
<1>6. QED
  BY <1>1, <1>2, <1>5 DEF Live!close

\* A new socket of somebody who watches shows nothing yet.
LEMMA OpenStep ==
  ASSUME Base, NEW s \in Sockets, NEW n \in Names, clientConnected(s, n)
  PROVE  UNCHANGED LiveVars \/ \E w \in Live!Watches : Live!open(s, w)
<1>1. /\ clients[s] = None /\ s \notin dead /\ clients' = [clients EXCEPT ![s] = n]
      /\ UNCHANGED <<dead, mWatchers, work, map, fix, fence, recent>>
      /\ clients \in [Sockets -> {None} \cup Names]
  BY DEF clientConnected, stored, reported, Base, TypeOK
<1>2. Untold' = Untold /\ RecentFix' = RecentFix /\ map[s] = Live!NoMap
  BY <1>1 DEF Untold, RecentFix, Unwritten, Base, Closed, NoMap, Response, Live!NoMap
<1>3. CASE n \in Admins /\ mWatchers[n] # NoWatch
  <2>1. WatchedOn' = Live!Viewing({s}, mWatchers[n])
    BY <1>1, <1>3 DEF WatchedOn, Live!Viewing
  <2>2. mWatchers[n] \in Live!Watches
    BY <1>3, WatchTypes DEF WatchValues
  <2>3. QED
    BY <1>1, <1>2, <2>1, <2>2 DEF Live!open
<1>4. CASE ~(n \in Admins /\ mWatchers[n] # NoWatch)
  <2>1. WatchedOn' = WatchedOn
    BY <1>1, <1>4, Different DEF WatchedOn
  <2>2. QED
    BY <1>1, <1>2, <2>1 DEF LiveVars
<1>5. QED
  BY <1>3, <1>4

\* The start of a broadcast is a report, unless it brings a request.
LEMMA ReportStep ==
  ASSUME Base, broadcast
  PROVE  UNCHANGED LiveVars \/ \E p \in Phones : Live!report(p)
<1> DEFINE n == work.from
           o == work.object
<1>1. /\ Free /\ UNCHANGED <<clients, dead, mWatchers, map, recent>>
      /\ fix' = IF o.id = Location THEN [fix EXCEPT ![n] = Kept(n, o.value)] ELSE fix
      /\ fence' = IF o.id = Fence THEN [fence EXCEPT ![n] = Kept(n, o.value)] ELSE fence
  BY DEF broadcast, sessions, db, stored
<1>2. /\ n \in Names /\ o \in Objects(n)
      /\ work' = [from |-> n, object |-> o, todo |-> Listeners]
  BY NewBroadcast
<1>3. WatchedOn' = WatchedOn /\ Untold = None
  BY <1>1 DEF WatchedOn, Untold, Free
<1>4. Untold' = IF o.id # Request THEN n ELSE None
  BY <1>2 DEF Untold, Listeners
<1>5. RecentFix' = IF o.id = Location THEN [RecentFix EXCEPT ![n] = Minutes] ELSE RecentFix
  <2>1. \A p \in Phones : ~Unwritten(p)
    BY <1>1 DEF Unwritten, Free
  <2>2. \A p \in Phones : Unwritten(p)' <=> p = n /\ o.id = Location
    BY <1>2 DEF Unwritten, Listeners
  <2>3. QED
    BY <1>1, <2>1, <2>2 DEF RecentFix, Base, TypeOK
<1>6. CASE o.id = Request
  BY <1>1, <1>3, <1>4, <1>5, <1>6 DEF LiveVars, Request, Location, Fence
<1>7. CASE o.id # Request
  <2>1. n \in Phones
    BY <1>2, <1>7, ObjectKinds DEF ObjectType
  <2>2. \/ UNCHANGED <<fix, fence, RecentFix>>
        \/ \E f \in Fixes \cup {Lost} :
             /\ fix' = [fix EXCEPT ![n] = f] /\ RecentFix' = [RecentFix EXCEPT ![n] = Minutes]
             /\ UNCHANGED fence
        \/ \E f \in Fences \cup {None, Lost} :
             fence' = [fence EXCEPT ![n] = f] /\ UNCHANGED <<fix, RecentFix>>
    <3>1. CASE o.id = Location
      <4>1. Kept(n, o.value) \in Fixes \cup {Lost}
        BY <1>2, <3>1, ObjectKinds DEF Kept
      <4>2. /\ fix' = [fix EXCEPT ![n] = Kept(n, o.value)] /\ UNCHANGED fence
            /\ RecentFix' = [RecentFix EXCEPT ![n] = Minutes]
        BY <1>1, <1>5, <3>1 DEF Location, Fence
      <4>3. QED
        BY <4>1, <4>2
    <3>2. CASE o.id = Fence
      <4>1. Kept(n, o.value) \in Fences \cup {None, Lost}
        BY <1>2, <3>2, ObjectKinds DEF Kept
      <4>2. fence' = [fence EXCEPT ![n] = Kept(n, o.value)] /\ UNCHANGED <<fix, RecentFix>>
        BY <1>1, <1>5, <3>2 DEF Location, Fence
      <4>3. QED
        BY <4>1, <4>2
    <3>3. CASE o.id \notin {Location, Fence}
      BY <1>1, <1>5, <3>3
    <3>4. QED
      BY <3>1, <3>2, <3>3
  <2>3. Live!report(n)
    BY <1>1, <1>3, <1>4, <1>7, <2>2 DEF Live!report
  <2>4. QED
    BY <2>1, <2>3
<1>8. QED
  BY <1>6, <1>7

\* A location grows old, at once if it could not be written.
LEMMA AgeStep ==
  ASSUME Base, NEW p \in Phones, UNCHANGED <<fix, fence, Untold, WatchedOn, map>>,
         \A q \in Phones : RecentFix'[q] \subseteq RecentFix[q],
         \A q \in Phones \ {p} : RecentFix'[q] = RecentFix[q]
  PROVE  Live!age(p)
<1>1. RecentFix' = [RecentFix EXCEPT ![p] = RecentFix'[p]]
  BY DEF RecentFix
<1>2. RecentFix'[p] \in SUBSET RecentFix[p]
  OBVIOUS
<1>3. QED
  BY <1>1, <1>2 DEF Live!age

\* ObjectWriter's turn adds no minutes to those in which a location was due to lie.
LEMMA WriteStep ==
  ASSUME Base, writeObject
  PROVE  UNCHANGED LiveVars \/ \E p \in Phones : Live!age(p)
<1> /\ Admin \in Listeners /\ Writer \in Listeners /\ Admin # Writer /\ WorkOK
  BY DEF Listeners, Admin, Writer, Base
<1>1. Turn(Writer) /\ UNCHANGED <<mWatchers, map>>
  BY DEF writeObject
<1>2. UNCHANGED <<clients, dead, fix, fence>> /\ Writer \in work.todo
  BY <1>1, TurnWork, TurnTaken
<1>3. /\ Admin \in work'.todo <=> Admin \in work.todo
      /\ Admin \in work'.todo => work'.from = work.from /\ work'.object = work.object
  BY <1>1, TurnTaken DEF Free
<1>4. Untold' = Untold /\ WatchedOn' = WatchedOn
  BY <1>1, <1>2, <1>3 DEF Untold, WatchedOn
<1>5. \A q \in Phones : ~Unwritten(q)'
  BY <1>1, TurnPending DEF Unwritten, Pending
<1>6. CASE work.object.id = Location
  <2>1. work.from \in Phones
    BY <1>1, <1>6, TurnWork, ObjectKinds
  <2>2. \A q \in Phones : Unwritten(q) <=> q = work.from
    BY <1>2, <1>6 DEF Unwritten
  <2>3. \A q \in Phones : recent'[q] \subseteq Minutes /\ (q # work.from => recent'[q] = recent[q])
    BY <1>6, <2>1 DEF writeObject, Base, TypeOK
  <2>4. \A q \in Phones : RecentFix'[q] = recent'[q]
    BY <1>5 DEF RecentFix
  <2>5. \A q \in Phones : RecentFix[q] = IF q = work.from THEN Minutes ELSE recent[q]
    BY <2>2 DEF RecentFix
  <2>6. Live!age(work.from)
    BY <1>1, <1>2, <1>4, <2>1, <2>3, <2>4, <2>5, AgeStep
  <2>7. QED
    BY <2>1, <2>6
<1>7. CASE work.object.id # Location
  <2>1. recent' = recent /\ \A q \in Phones : ~Unwritten(q)
    BY <1>7 DEF writeObject, Unwritten
  <2>2. RecentFix' = RecentFix
    BY <1>5, <2>1 DEF RecentFix
  <2>3. QED
    BY <1>1, <1>2, <1>4, <2>2 DEF LiveVars
<1>8. QED
  BY <1>6, <1>7

\* A request is LiveMap's ask or deny, on the open sockets of who asks.
LEMMA RequestStep ==
  ASSUME Base, FixInv, FenceInv, handleLocationHistoryRequest
  PROVE  \E sockets \in SUBSET Sockets :
           Live!deny(sockets) \/ \E w \in Live!Watches : Live!ask(sockets, w)
<1> DEFINE a == work.from
           w == work.object.value
           sockets == OpenSockets({a})
           minutes == [n \in {a} |-> w.minutes]
<1>1. /\ Turn(Admin) /\ work.object.id = Request /\ Admin \in Listeners /\ WorkOK
      /\ UNCHANGED <<dbUp, rows, location, recent>>
  BY DEF handleLocationHistoryRequest, db, stored, Listeners, Base
<1>2. a \in Admins /\ w \in Live!Watches /\ UNCHANGED <<clients, dead, fix, fence, RecentFix>>
  BY <1>1, TurnWork, FixAdminTurn, ObjectKinds
<1>3. Untold = None /\ Untold' = None
  BY <1>1, TurnTaken DEF Untold
<1>4. sockets \in SUBSET Sockets /\ w.clientName \in Phones
  BY <1>2 DEF OpenSockets, Live!Watches
<1>5. CASE /\ mWatchers' = Unwatched(a)
           /\ map' = [s \in Sockets |-> IF Open(s, a) THEN NoMap ELSE map[s]]
  <2>1. WatchedOn' = Live!Viewing(sockets, Live!NoWatch)
    BY <1>2, <1>5 DEF WatchedOn, Live!Viewing, OpenSockets, Unwatched, NoWatch, Watch,
       Live!NoWatch, Live!Watch
  <2>2. map' = Live!Cleared(sockets)
    BY <1>5 DEF Live!Cleared, OpenSockets, Open, NoMap, Response, Live!NoMap
  <2>3. Live!deny(sockets)
    BY <1>2, <1>3, <2>1, <2>2 DEF Live!deny
  <2>4. QED
    BY <1>4, <2>3
<1>6. CASE /\ mWatchers' = [mWatchers EXCEPT ![a] = w]
           /\ sendLocationHistoryResponse(minutes, w.clientName, NoFresh, geofence)
  <2>1. WatchedOn' = Live!Viewing(sockets, w)
    BY <1>2, <1>6 DEF WatchedOn, Live!Viewing, OpenSockets, Base, TypeOK
  <2>2. \A p : ~Pending(Writer, Location, p) /\ ~Pending(Admin, Fence, p)
    BY <1>1 DEF Pending, Request, Location, Fence
  <2>3. \A k : Truthful(Newest(NoFresh, w.clientName, k), w.clientName, k)
    BY <1>4, <2>2, FixRead DEF Newest
  <2>4. fence[w.clientName] # Lost =>
          fence[w.clientName] = IF dbUp THEN geofence[w.clientName] ELSE None
    BY <1>4, <2>2, FenceRead
  <2>5. DOMAIN minutes \subseteq Admins /\ OpenSockets(DOMAIN minutes) = sockets
    BY <1>2
  <2>6. ASSUME NEW s \in sockets
        PROVE  WatchedOn'[s] = w /\ minutes[clients[s]] = w.minutes
    BY <1>4, <2>1 DEF Live!Viewing, OpenSockets
  <2>7. NoFresh \in Points /\ geofence \in [Phones -> {None} \cup Fences]
    BY DEF NoFresh, Points, Base, TypeOK
  <2>8. Live!Pushed(sockets)
    <3> HIDE DEF minutes, sockets
    <3>1. \A s \in OpenSockets(DOMAIN minutes) :
            /\ WatchedOn'[s].clientName = w.clientName
            /\ WatchedOn'[s].minutes = minutes[clients[s]]
      BY <2>5, <2>6
    <3>2. Live!Pushed(OpenSockets(DOMAIN minutes))
      BY <1>4, <1>6, <2>3, <2>4, <2>5, <2>7, <3>1, SentCurrent
    <3>3. QED
      BY <2>5, <3>2
  <2>9. Live!ask(sockets, w)
    BY <1>2, <1>3, <2>1, <2>8 DEF Live!ask
  <2>10. QED
    BY <1>2, <1>4, <2>9
<1>7. QED
  BY <1>5, <1>6 DEF handleLocationHistoryRequest

\* Every step is one of LiveMap, or leaves all of it as it is.
LEMMA LiveStep == Base /\ FixInv /\ FenceInv /\ [Next]_vars => [Live!Next]_LiveVars
<1> SUFFICES ASSUME Base, FixInv, FenceInv, [Next]_vars PROVE [Live!Next]_LiveVars
  OBVIOUS
<1>1. ASSUME databaseFails PROVE Live!lose
  BY <1>1 DEF databaseFails, Live!lose, WatchedOn, Untold, RecentFix, Unwritten, sessions,
     stored
<1>2. ASSUME databaseReturns \/ \E n \in Admins : editAdminCode(n)
      PROVE  UNCHANGED LiveVars
  BY <1>2 DEF databaseReturns, editAdminCode, LiveVars, WatchedOn, Untold, RecentFix,
     Unwritten, sessions, stored, reported
<1>3. ASSUME NEW p \in Phones, timePasses(p) PROVE Live!age(p)
  <2>1. UNCHANGED <<fix, fence, Untold, WatchedOn, map>>
    BY <1>3 DEF timePasses, Untold, WatchedOn, sessions, reported
  <2>2. QED
    BY <1>3, <2>1, FixAges, AgeStep
<1>4. ASSUME NEW s \in Sockets, NEW o, receiveObject(s, o) PROVE UNCHANGED LiveVars
  BY <1>4, InHand DEF LiveVars, WatchedOn, sessions
<1>5. ASSUME notifyLocationWatchers PROVE Live!push
  <2>1. /\ Turn(Admin) /\ UNCHANGED mWatchers /\ work.object.id \in {Location, Alive}
        /\ UNCHANGED <<dbUp, rows, location, recent>>
        /\ sendLocationHistoryResponse(Watchers(work.from), work.from,
                                       FreshLocation(work.object), geofence)
    BY <1>5 DEF notifyLocationWatchers, db, stored
  <2>2. /\ work.from \in Names /\ work.object \in Objects(work.from)
        /\ Admin \in work.todo
    BY <2>1, TurnWork, TurnTaken DEF Listeners, Base
  <2>3. work.object.id # Request /\ work.object.id # Fence
    BY <2>1 DEF Location, Alive, Request, Fence
  <2>4. work.from \in Phones /\ (work.object.id = Location => work.object.value \in Fixes)
    BY <2>2, <2>3, ObjectKinds DEF ObjectType
  <2>5. FreshLocation(work.object) \in Points
    BY <2>2, <2>4, Pushes
  <2>6. fence[work.from] # Lost =>
          fence[work.from] = IF dbUp THEN geofence[work.from] ELSE None
    BY <2>3, <2>4, FenceRead DEF Pending
  <2>7. \A k : Truthful(Newest(FreshLocation(work.object), work.from, k), work.from, k)
    BY <2>2, <2>4, FreshTruthful
  <2>8. geofence \in [Phones -> {None} \cup Fences]
    BY DEF Base, TypeOK
  <2>9. QED
    BY <2>1, <2>3, <2>4, <2>5, <2>6, <2>7, <2>8, PushStep
<1>6. ASSUME handleGeofenceStatus PROVE Live!push
  <2> DEFINE p == work.from
  <2>1. /\ Turn(Admin) /\ work.object.id = Fence
        /\ UNCHANGED <<dbUp, rows, location, recent, mWatchers>>
        /\ sendLocationHistoryResponse(Watchers(p), p, NoFresh, geofence')
        /\ geofence' = IF Found(p) THEN [geofence EXCEPT ![p] = work.object.value]
                       ELSE geofence
    BY <1>6 DEF handleGeofenceStatus, Told
  <2>2. work.object.id # Request /\ work.object.id # Location
    BY <2>1 DEF Location, Request, Fence
  <2>3. p \in Phones /\ work.object.value \in Fences \cup {None} /\ Admin \in work.todo
    BY <2>1, TurnWork, TurnTaken, ObjectKinds DEF Listeners, Base
  <2>4. geofence' \in [Phones -> {None} \cup Fences]
    BY <2>1, <2>3 DEF Base, TypeOK
  <2>5. \A k : Truthful(Newest(NoFresh, p, k), p, k)
    BY <2>2, <2>3, FixRead DEF Pending, Newest
  <2>6. fence[p] # Lost => fence[p] = IF dbUp THEN geofence'[p] ELSE None
    BY <2>1, <2>3 DEF FenceInv, FenceStored, Pending, Found, Base, TypeOK
  <2>7. NoFresh \in Points
    BY DEF NoFresh, Points
  <2>8. QED
    BY <2>1, <2>2, <2>3, <2>4, <2>5, <2>6, <2>7, PushStep
<1>7. ASSUME UNCHANGED vars PROVE UNCHANGED LiveVars
  BY <1>7 DEF vars, db, stored, sessions, reported, LiveVars, WatchedOn, Untold, RecentFix,
     Unwritten
<1>8. QED
  BY <1>1, <1>2, <1>3, <1>4, <1>5, <1>6, <1>7, CloseStep, OpenStep, ReportStep, WriteStep,
     RequestStep DEF Next, Live!Next

\* For any phones, administrators, sockets and minutes, in either order of the listeners,
\* all who watch a phone and nobody else are sent one current map after each report and
\* before the next, current for the minutes they watch; nobody is sent a map who was
\* denied (AdminController.cpp:212-234, Server.cpp:123-131, HomeControlDal.cpp:446).
THEOREM AdminIsLiveMap == Spec => ImplementsLiveMap
<1>1. Init => Live!Init
  BY Different DEF Init, Live!Init, WatchedOn, Untold, RecentFix, Unwritten, Idle, Broadcast,
     NoMap, Response, Live!NoMap, NoWatch, Watch, Live!NoWatch, Live!Watch
<1>2. Base /\ FixInv /\ FenceInv /\ [Next]_vars
        => [Live!Next]_<<fix, fence, RecentFix, Untold, WatchedOn, map>>
  BY LiveStep DEF LiveVars
<1>3. Base /\ Watching /\ FixInv /\ FenceInv /\ [Next]_vars
        => Base' /\ Watching' /\ FixInv' /\ FenceInv'
  BY BaseStep, WatchingStep, FixStep, FenceStep
<1>4. Init => Base /\ Watching /\ FixInv /\ FenceInv
  BY BaseInit, WatchingInit, FixInit, FenceInit
<1>5. QED
  BY <1>1, <1>2, <1>3, <1>4, PTL DEF Spec, ImplementsLiveMap, Live!Spec

\* LiveMap by itself: whatever is on the map of somebody who watches a phone is what
\* it reported last, or older than is watched, if it is a map of that phone and no push
\* of it is due.
THEOREM LiveMapsAreCurrent ==
  Live!Spec => [](\A s \in Sockets, p \in Phones :
                    WatchedOn[s].clientName = p /\ map[s].about = p /\ Untold # p
                      => Live!Current(WatchedOn[s], map[s]))
<1> DEFINE Now(s, p) == WatchedOn[s].clientName = p /\ map[s].about = p /\ Untold # p
           AllCurrent == \A s \in Sockets, p \in Phones :
                           WatchedOn[s].clientName = p /\ map[s].about = p /\ Untold # p
                             => Live!Current(WatchedOn[s], map[s])
           Reports == /\ fix \in [Phones -> Fixes \cup {None, Lost}]
                      /\ fence \in [Phones -> Fences \cup {None, Lost}]
<1>1. Live!Init => Reports /\ AllCurrent
  BY Different DEF Live!Init, Live!NoMap, Live!Current
<1>2. Reports /\ [Live!Next]_LiveVars => Reports'
  <2> SUFFICES ASSUME Reports, [Live!Next]_LiveVars PROVE Reports'
    OBVIOUS
  <2>1. ASSUME NEW p \in Phones, Live!report(p) PROVE Reports'
    BY <2>1 DEF Live!report
  <2>2. CASE Live!lose
    BY <2>2 DEF Live!lose
  <2>3. ASSUME UNCHANGED <<fix, fence>> PROVE Reports'
    BY <2>3
  <2>4. QED
    BY <2>1, <2>2, <2>3 DEF Live!Next, LiveVars, Live!push, Live!close, Live!open, Live!deny,
       Live!ask, Live!age
<1>3. Reports /\ AllCurrent /\ [Live!Next]_LiveVars => AllCurrent'
  <2> SUFFICES ASSUME Reports, AllCurrent, [Live!Next]_LiveVars,
                      NEW s \in Sockets, NEW p \in Phones, Now(s, p)'
               PROVE  Live!Current(WatchedOn[s], map[s])'
    OBVIOUS
  <2>1. Now(s, p) => Live!Current(WatchedOn[s], map[s])
    OBVIOUS
  <2>2. p # None
    BY Different
  <2>3. ASSUME Now(s, p), UNCHANGED <<WatchedOn[s], map[s], fix[p], fence[p]>>,
               RecentFix'[p] \subseteq RecentFix[p]
        PROVE  Live!Current(WatchedOn[s], map[s])'
    BY <2>1, <2>3 DEF Live!Current
  <2>4. ASSUME NEW sockets, Live!Pushed(sockets), s \in sockets,
               UNCHANGED <<fix, fence, RecentFix>>
        PROVE  Live!Current(WatchedOn[s], map[s])'
    BY <2>4 DEF Live!Pushed, Live!Current
  <2>5. CASE Live!push
    <3>1. UNCHANGED <<fix, fence, RecentFix, WatchedOn>>
      BY <2>5 DEF Live!push
    <3>2. CASE p = Untold
      BY <2>4, <2>5, <3>1, <3>2 DEF Live!push
    <3>3. CASE p # Untold
      <4>1. map'[s] = map[s]
        BY <2>5, <3>1, <3>3 DEF Live!push, Live!Pushed
      <4>2. QED
        BY <2>3, <3>1, <3>3, <4>1
    <3>4. QED
      BY <3>2, <3>3
  <2>6. CASE Live!lose
    BY <2>6 DEF Live!lose, Live!Current
  <2>7. ASSUME NEW t \in Sockets, Live!close(t)
        PROVE  Live!Current(WatchedOn[s], map[s])'
    <3>1. s # t
      BY <2>2, <2>7 DEF Live!close, Live!Viewing, Live!NoWatch, Live!Watch
    <3>2. QED
      BY <2>3, <2>7, <3>1 DEF Live!close, Live!Viewing, Live!Cleared
  <2>8. ASSUME NEW q \in Phones, Live!report(q)
        PROVE  Live!Current(WatchedOn[s], map[s])'
    <3>1. Untold = None /\ p # q /\ UNCHANGED <<WatchedOn, map>>
      BY <2>8 DEF Live!report
    <3>2. fix'[p] = fix[p] /\ fence'[p] = fence[p] /\ RecentFix'[p] = RecentFix[p]
      BY <2>8, <3>1 DEF Live!report, RecentFix
    <3>3. QED
      BY <2>2, <2>3, <3>1, <3>2
  <2>9. ASSUME NEW t \in Sockets, NEW w \in Live!Watches, Live!open(t, w)
        PROVE  Live!Current(WatchedOn[s], map[s])'
    <3>1. UNCHANGED <<fix, fence, RecentFix, Untold, map>>
      BY <2>9 DEF Live!open
    <3>2. s # t
      BY <2>2, <2>9, <3>1 DEF Live!open, Live!NoMap
    <3>3. WatchedOn'[s] = WatchedOn[s]
      BY <2>9, <3>2 DEF Live!open, Live!Viewing
    <3>4. QED
      BY <2>3, <3>1, <3>3
  <2>10. ASSUME NEW S \in SUBSET Sockets, Live!deny(S)
         PROVE  Live!Current(WatchedOn[s], map[s])'
    <3>1. s \notin S
      BY <2>2, <2>10 DEF Live!deny, Live!Viewing, Live!NoWatch, Live!Watch
    <3>2. QED
      BY <2>3, <2>10, <3>1 DEF Live!deny, Live!Viewing, Live!Cleared
  <2>11. ASSUME NEW S \in SUBSET Sockets, NEW w \in Live!Watches, Live!ask(S, w)
         PROVE  Live!Current(WatchedOn[s], map[s])'
    <3>1. UNCHANGED <<fix, fence, RecentFix, Untold>> /\ Live!Pushed(S)
      BY <2>11 DEF Live!ask
    <3>2. CASE s \in S
      BY <2>4, <3>1, <3>2
    <3>3. CASE s \notin S
      BY <2>3, <2>11, <3>1, <3>3 DEF Live!ask, Live!Viewing, Live!Pushed
    <3>4. QED
      BY <3>2, <3>3
  <2>12. ASSUME NEW q \in Phones, Live!age(q)
         PROVE  Live!Current(WatchedOn[s], map[s])'
    <3>1. RecentFix'[p] \subseteq RecentFix[p] /\ UNCHANGED <<fix, fence, Untold, WatchedOn, map>>
      BY <2>12 DEF Live!age, RecentFix
    <3>2. QED
      BY <2>3, <3>1
  <2>13. CASE UNCHANGED LiveVars
    BY <2>3, <2>13 DEF LiveVars
  <2>14. QED
    BY <2>5, <2>6, <2>7, <2>8, <2>9, <2>10, <2>11, <2>12, <2>13 DEF Live!Next
<1>4. QED
  BY <1>1, <1>2, <1>3, PTL DEF Live!Spec, LiveVars

=============================================================================
