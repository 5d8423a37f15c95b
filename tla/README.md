# Home control: formal models

TLA+ modules, TLC configurations and TLAPS proofs for the home control system: a server
on a Raspberry (C++, `src/Server`), a board with the heater relays and wireless sensors
(Arduino, `src/Arduino`) and a mobile client (C#, `src/HomeControl`). Paths below are
relative to `src/`; `Lib/` stands for `Server/HomeControlLib/src/`.

## 1. The system

Temperatures come in over an XBee radio (`Serial`, `DMFrameProcessor`, `DMComm`,
`TemperatureSensors`), are filtered (`TemperatureFilter`) and reach `CommRouter`, which
hands each one to the `RoomControl` of its room. Every room has a worker thread and a
`TwoPointThermostat`; the worker tells clients and sensors about new values and switches
the heater, over `HeaterControl`, `RelaisDriver` and the I2C bus, on the mainboard.
Clients connect over TCP (`ServerSocket`, `ClientSocket`, `Client`, `Server`); their
messages go to the registered listeners: `CommRouter`, `AdminController`,
`ObjectWriter`.

| component | state it keeps | operations | with whom it interacts |
|---|---|---|---|
| `Lib/Logic/RoomControl`, `TwoPointThermostat` | temperature, set point, request counters, worker thread; set point and heater state | report, up, down, worker round, destruction | called by CommRouter; calls CommRouter, thermostat, HeaterControl |
| `Lib/Logic/CommRouter` | rooms, monitoring clients | messages, sensor callbacks, room callbacks, disconnects | Server, sensors, rooms, database |
| `Lib/Comm/Server`, `Client`, `ServerSocket`, `ClientSocket` | client list, connection states, timers | accept, handshake, receive, maintenance round | io thread and maintenance thread; listeners |
| `Lib/Logic/HeaterControl`, `Lib/Hw/*`, `MainboardControl.ino` | frame buffer, counters, pins, watchdog | on, off, feed, interrupt, loop | rooms; the bus |
| `Lib/Comm/DMComm`, `DMFrameProcessor`, `Serial` | frame id, pending answer, receive buffer | send with or without answer, receive | sensors, radio |
| `Lib/Comm/TemperatureSensors` (and its simulator) | addresses of sensors, listeners | write to and read from sensors, start, discovery, reset | DMComm, Timer, filter |
| `Lib/Logic/TemperatureFilter`, `Timer`, `Filter` | last values, clock | filter a value, broadcast the time | sensors, CommRouter |
| `Lib/Logic/AdminController`, `Lib/DAL/*` | watchers; the database | authorisation, location history, settings | Server, database |
| `Lib/Rest/*` | none | HTTP queries | database |
| `Arduino/Sensor/Sensor.ino` | address of the coordinator, buttons, display | loop with start-up, discovery, send | radio |
| `HomeControl/HomeControl/Comm`, `HomeControlService` | connection state, socket, send queue, keepalives, location interval | connect, callbacks of the socket, send, maintenance pass | server |

What is hard in it:

* **Threads.** The io thread, the maintenance thread, the serial thread, one worker per
  room and the main thread share objects under a dozen mutexes, some atomics, and some
  members under neither. Locks are taken in the orders Server -> Client, Server ->
  CommRouter, room worker -> CommRouter -> radio; the handlers of the io thread let one
  lock go before they ask for the next.
* **Time.** 5 s wait of a worker, 1 s handshake and 90 s silence of a client looked at
  every 2 s, 10 s for a radio answer, 120 s for a relay, 1 s of the board's loop, 30 s
  keepalive looked at every 5 s.
* **Loss.** Frames to the board overwrite each other or fail without a retry, the radio
  and the sockets lose messages, clients vanish without closing.
* **Ends.** Objects are destroyed while threads are still inside them.

`PROJECT.json` lists these hazards at their lines, with the properties that cover each
or the reason why none does.

## 2. Modules and the code they model

| module | models | instance | proofs |
|---|---|---|---|
| `RoomControl` | one room: callers, worker, thermostat, client | `MCRoomControl` | `RoomControlProofs` |
| `HeatedRoom` | what a room promises (abstract) | through `RoomControl` | `RoomControlProofs` |
| `CommServer` | sessions of the server | `MCCommServer` | `CommServerProofs` |
| `Presence` | what the server tells its listeners (abstract) | through `CommServer` | `CommServerProofs` |
| `Mainboard` | driver, bus, board, watchdog | `MCMainboard` | `MainboardProofs` |
| `RelayLease` | what the board promises (abstract) | through `Mainboard` | `MainboardProofs` |
| `Radio` | answer slot, sensors, locks of the server's threads | `MCRadio` | `RadioProofs` |
| `AdminController` | watchers, pushes, the rows they read | `MCAdmin` | `AdminProofs` |
| `LiveMap` | what administrators see of phones (abstract) | through `AdminController` | `AdminProofs` |
| `MobileClient` | the phone's connection and the server's timeouts | `MCClient` | `MobileClientProofs` |
| `FrameLinks` | frames on byte streams, three receivers | `MCFrames` | `FrameLinksProofs` |
| `FrameChannel` | what a connection promises (abstract) | through `FrameLinks` | `FrameLinksProofs` |

The components meet at their calls. `RoomControl` takes CommRouter's mutex and `Radio`
shows what those who hold it wait for; `CommServer` has when a name is connected,
`AdminController` and `MobileClient` what happens then; `FrameLinks` is the stream below
them, shown to be the queue of frames (`FrameChannel`) that these two, `Radio` and
`CommServer` take a connection for. `RelayLease` is what `RoomControl`'s calls to its
heater come to at the other end of the bus.

### RoomControl.tla, HeatedRoom.tla

`RoomControl` has two threads. A *caller* is the thread in CommRouter that calls
`roomTemperature`, `setPointUp` or `setPointDown`. CommRouter holds its mutex for the
whole call, so there is one call at a time (variable `caller`); the worker's callbacks
into CommRouter wait for it (`RouterFree`). The *worker* is a program counter over the
lines of `workerThread`. One step per access the other thread can see:

* `roomTemperature` is three steps: the value, the flag, the announcement with notify;
  `setPointUp` and `setPointDown` are two. `announceWork` wakes the worker only when it
  sleeps (`parked`): the code notifies without the mutex of the condition variable, so a
  worker between its predicate and its sleep (`park`) misses it.
* `takeUp`/`takeDown` make the addition visible before `clamp`; `takeTemperature`,
  `tellTemperature` and `clearTempReceived` are lines 182-190, in which the flag
  outlives the value that was read.
* `giveSetPoint`, `giveTemperature`, `indicateHeater`, `switchHeater` are lines 196-207
  with the thermostat and its callbacks.
* `unRegisterListener`, `stopWorkerThread`, `announceWork`, `join` are the destructor.

`mRoomTemperature` and `mSetTemperature` are read without a lock while another thread
writes them; the model gives the reader the old or the new value, which is what the
64-bit platforms the server is built for do. Temperatures are integers of 0.05 degrees.
One monitoring client stands for all of them. HeaterOutput 255, a room without
thermostat, is `HasThermostat = FALSE`.

`HeatedRoom` is what a room promises: presses are applied one by one and clamped, the
heater is decided from the last report and from a set point the room has had. The
refinement maps the set point to its clamped value while the clamp is pending.

### CommServer.tla, Presence.tla

`Conns` are addresses of `Client` objects; `allocated` those that exist, `mClients` the
list. The io thread accepts (`handleAccept`, `start`, `newClient`) and reads
(`handleRead`, then `receiveName`, `connect`, `clientAuthenticated`, or `receiveObject`,
`broadcast`). `connect` is between `receiveName` and the release of
`Client::mDataMutex`; `clientAuthenticated` and `broadcast` need `Server::mDataMutex`
after that release. The maintenance thread's round is `wakeUp`, one `isInactive` per
client, then `nextDeleted` and `deleteClient` per client to delete, with
`Server::mDataMutex` held throughout (`ServerFree`). Peers may close, reset or fall
silent. `start` ends the io thread when `remote_endpoint` throws; an accept that fails
is not armed again. A deleted client's members stay as they were, since the io thread
may be inside it: the code reads freed memory there, and the model follows the outcome
in which that memory is intact.

`told` is what the listeners know: the names for which the last notification was
`clientConnected`. `late` marks those announced by a client that was deleted already.
What the last socket of a name takes back is `ReapedIsTakenBack`; two kinds of names the
code does not take back, and the property names them: the empty one, and those in `late`
(section 6).

`Presence` is what the listeners may rely on: a name is told with its session, and taken
back at a moment at which no session has it. The refinement maps a connection to its
name while it is in the list, Connected, and past `clientAuthenticated` (`Sessions`).
`joinLate` is the name that a client announces after it has been taken off the list.

### Mainboard.tla, RelayLease.tla

`heaterOn`/`heaterOff` are `HeaterControl` and `RelaisDriver`; `feed` and
`switchWatchDog` are `WatchDog`; each ends in `writeData`, the I2C bus with its mutex,
where a frame arrives, arrives corrupted (`Garbage`) or gets lost (`LossyBus`). When the
bus cannot be opened, `I2C` throws a `std::string` before it writes anything
(`I2C.cpp:68-75`), which nobody catches: that is `serverStops`, in place of the write. The
board is `receiveEvent`/`receiveInvalid` (the interrupt), `loop` and `setup` (a power
cycle). One pass of `loop` is one step: it shares only the frame buffer and its flag
with the interrupt and reads both with interrupts off. A pass takes a second, so times
in seconds are passes. The crc is modelled as good or bad. `serverStops` is a crash as
much as an ordered end. MainApp does not create a `WatchDog` today; `HasWatchDog` turns
it on. `sinceOn` and `request` are history.

`RelayLease` is the board as the rooms see it: a relay is lent. It comes on only in the
pass after somebody asked for it, stays on for `Timeout` passes at the most unless it is
asked for again, and may go off at any time. The refinement is the identity on `pin` and
`sinceOn`; frames, counters and the server are what it hides.

### Radio.tla

Five kinds of threads: `"main"`, which runs `DMComm::init`; `"serial"`, which runs every
receive handler; `Workers` of rooms; `Callers` for the timer, io and maintenance
threads. Each has a program counter and a `job`, the list of what it still sends.
`Request(t)` is `sendATCmd` or `sendMessage` as the code orders its accesses to the
answer slot: the flag is cleared (`clearResponse`), the id stored (`setSynchronousId`),
the old message forgotten (`forgetMessage`), the counter read (`takeId`), the frame sent
and the counter written (`sendData`, `skipZero`), then `checkResponse` or, after ten
seconds, `noResponse` and `giveUp`. A request to a sensor with no known address is
dropped (`notAddressed`). The serial thread hands an answer over in two steps
(`raiseFlag`, `storeMessage`), because the code raises the flag first. `receiveReport`
is everything that is no answer: a sensor's start, which that thread answers itself, a
temperature or button, a discovery, a reset of the modem, which runs `init` again on the
serial thread.

`router` and `server` are the two mutexes, `CommRouter::mDataMutex` and
`Server::mDataMutex`. `modem` is the set of answers still to come: they come in any
order, late, or never. What a line says, and the values of addresses, are left out.

### AdminController.tla, LiveMap.tla

`work` is the object that the io thread has in hand. `receiveObject` is
`Client::receiveFrame` up to the call with which it waits for `Server::mDataMutex`,
holding nothing: a round may delete its client then. `broadcast` is the moment it has
that mutex, with the name it was given by value. From there the object goes to the two
listeners, in an order that holds for one start of the server (`first`: a `std::set` of
pointers). `writeObject` is ObjectWriter; `notifyLocationWatchers`,
`handleGeofenceStatus` and `handleLocationHistoryRequest` are AdminController.
`databaseFails`, `databaseReturns` and `editAdminCode` come between any two of them.
`clientConnected`, `socketClosed` and `clientDisConnected` are the sessions as
CommServer leaves them. `fix` and `fence` are history: what a phone reported last, or
`Lost` if the database failed to take it.

A history reaches back a number of minutes that the request names and the watch keeps
(`mWatchers`). `recent` has, for each phone, those of the `Minutes` in which its newest
location still lies, the shortest of which it leaves first (`timePasses`). A push for a
location shows that location itself; one for a keepalive or a fence, and the answer to a
request, shows the newest row within the minutes (`locationHistory`,
`HomeControlDal.cpp:446`), which of a phone that stands still is none. A denied request
empties the administrator's map.

`LiveMap` has no listeners, no rows and no broadcasts: a phone reports, and before the
next report all who watch it, and nobody else, are pushed one map, which says what was
reported last, or nothing if that is older than the minutes watched, unless it was lost.
The refinement maps a socket to the phone its client watches (`WatchedOn`), and a
broadcast to a push that is due while it is AdminController's turn that is still to come
(`Untold`). An outage of the database (`lose`) may cost every phone what it reported
last, and what it reported grows old (`age`).

### MobileClient.tla

`CommModel` has no lock that all its threads share. `maintenance` is its thread
(`wakeUp`, `startConnect`, `replaceSocket`, `checkSocket`), `pending` are callbacks of
`AsyncCloudSocket` that have begun, `sender` is a thread in `sendObject`. The server's
part is the `Client` of this connection: name, echo of keepalives, silence timer, poll
of the interval in the maintenance round. The link goes up and down (`linkFails`,
`linkReturns`) and takes what it carries with it when the socket is replaced. Time
passes in `wakeUp`: five seconds for the phone and `RoundsPerTick` for the server, and
whatever a link that is up can do within that time is done before (`Prompt`).

Four places are coarser than the code. `changeState` tells the receivers, drops the
socket and sets the state in one step, without the lock of the receivers (section 6 has
what that lock can do). `processSendQueue` looks at the state and sends in one step: in
the code a reconnection fits in between (`CommModel.cs:301`, 304), and an object would
then be sent on the new connection ahead of the name. `connects` has the handler that
is attached two statements after the connection was begun (`CommModel.cs:293-295`,
`AsyncCloudSocket.cs:60`). `intervalReceived` applies at once what
`HomeControlService` posts to the main looper; and no action is a start of that service,
which forgets the interval (`HomeControlService.cs:79`): `SettingUnderWay` and
`SettingsReach` are about the time between two starts.

### FrameLinks.tla, FrameChannel.tla

One stream of bytes, from `sendFrame` to one of three receivers: `ServerTurn`
(`ClientSocket::processBuffer`), `PhoneTurn` (`AsyncCloudSocket`) and `ModemTurn`
(`DMFrameProcessor`). `receive(n)` delivers any part of what has been written; one turn
of the receiver's loop is one step. `BASE` is the number of values of a byte, so that
payloads over a small `BASE` hold every mark and length there is. `reconnect` is a new
socket. `ends` is history: where in the stream each frame ends, by which `Complete` says
which frames have been read in full.

`FrameChannel` is a queue: frames are delivered one by one, as they were sent, and a new
connection begins empty. The refinement is the identity on `sent` and `delivered`.

## 3. What TLC checks

| run | states | what it shows |
|---|---|---|
| `MCRoomControl` | 252 451 | `NoStrandedRequest`, `SetPointBounds`, `ThermostatCurrent`, `ExtremesAreHandled`, `ClientShowsSetPoint`, `TypeOK`; the room implements `HeatedRoom` (`ImplementsHeatedRoom`); `RequestsAreServed`, `DestructorReturns` |
| `MCRoomControlClient` | violation | `ClientShowsTemperature` |
| `MCCommServer` | 957 931 | `LiveIsConnected`, `AcceptorClientAlive`, `ReapedIsTakenBack`, `TypeOK`; the server implements `Presence` (`ImplementsPresence`) |
| `MCCommServerLive` | 101 346 | `DeadIsReaped` |
| `MCCommServerPaired` | violation | `DisconnectsPaired` |
| `MCMainboard` | 41 248 | `FailSafe`, `OffTakesEffect`, `HungServerIsReset`, `TypeOK`; the board implements `RelayLease` (`ImplementsLease`) |
| `MCMainboardNoise` | violation | `FailSafe`, on a bus that corrupts frames |
| `MCRadio` | 752 528 | `AnswerReturnedOnce`, `ReportsAreNotAnswers`, `RouterHolderGoesOn`, `ReleaseIsNearer`, `TypeOK` |
| `MCAdmin` | 1 002 648 | `MapHasLastFix`, `MapHasLastFence`, `MapIsWatched`, `TypeOK`; the listeners implement `LiveMap` (`ImplementsLiveMap`) |
| `MCClient` | 426 304 | `NoStrandedObject`, `HealthyStays`, `SettingUnderWay`, `StaysConnected`, `SettingsReach`, `TypeOK` |
| `MCClientLost` | violation | `StaysConnected`, when a handler is overtaken |
| `MCFrames` | 16 025 | `InOrder`, `NothingWaits`, `TypeOK`; the stream implements `FrameChannel` (`ImplementsChannel`) |

The violations are in section 6. Run one with `tlc -config MCRoomControl.cfg
MCRoomControl`; `MCRoomControlClient.cfg`, `MCCommServerLive.cfg` and the like belong to
the module whose name they begin with. Each property of a passing run has a mutant in
`PROJECT.json`: a change to one definition that a plausible mistake in the code would
make, and that TLC then reports.

**Bounds.**

* RoomControl: 3 calls. A race needs a call that meets the round of another; the third
  call finds the room after such a race. The set point range is narrowed to one step
  above and below 16.0, so two presses reach both clamps, and the sensor temperatures
  are one below, one inside and one above everything the hysteresis can do.
* CommServer: three connections are an acceptor's client and two sockets, enough for two
  sockets of one client to be reaped in one round while another handshake is under way.
  `Names` has one ordinary name and the empty one, which the code treats differently.
  `ReceiveTimeout` is two maintenance intervals in place of 45; `ConnectingTimeout` is
  shorter than one interval, as it is in the code. Connections are symmetric, and the
  safety run uses it. Liveness uses two connections and no symmetry.
* Mainboard: two relays, so that frames overwrite each other, and output 8, which has
  none; `Timeout` and `WatchDogTime` of two passes instead of up to 255. `sinceOn` stops
  just above the time-out it is compared with.
* Radio: one worker, one sensor and one caller beside `"main"` and `"serial"`. Workers
  exclude each other through the router, and a caller never waits for an answer, so a
  second of either adds no new meeting at the slot; the proofs have any number. Three
  frame ids wrap around every other request. `MaxOwed` of two answers allows one that is
  late beside one that is due.
* AdminController: one phone, one administrator and three sockets, so that the
  administrator may have two sockets, one of them dead, beside the phone's. Two fixes
  and one fence tell the last from the one before. Two `Minutes`, so that a location may
  lie in the one window and not in the other. Sockets and fixes are symmetric. The
  proofs have any number of each.
* MobileClient: times are shortened: a pass of 5, a keepalive every 10, a reconnect
  after 10, a silence of 36 on the server, which counts 6 per pass, as its rounds of 2 s
  do. Keepalives fall
  every third pass, 18 of the server's seconds apart: it survives one that is lost, as
  with 35 s and 90 s it survives two, and the phone gives up after one. `MaxEvents` of 3 objects,
  edits, link losses or slow handshakes: a loss, a slow handshake after it, and an
  object or an edit in between.
* FrameLinks: three frames from four payloads, which between them hold both marks, bytes
  that look like a length, and lengths that need both length bytes (`BASE = 4`); every
  cut of the stream.

**Fairness.**

* RoomControl: weak fairness of the worker and of calls and destructions that have
  begun. The worker has no lock to wait for other than CommRouter's, which the caller
  lets go; its wait ends after five seconds at the latest. Nobody is obliged to call.
* CommServer: weak fairness of the maintenance thread, and of `connect`, which is a
  thread inside a mutex it holds without blocking. Peers and the rest of the io thread
  owe nothing.
* Mainboard: weak fairness of `loop`, which the board runs for ever. Nothing of the
  server.
* MobileClient: weak fairness of the maintenance thread, of callbacks that have
  something to do, of a sender that has begun, and of what the network and the server do
  with bytes they have: `connects`, `receiveName`, `receiveFrame`, `pollInterval`.
  Nothing of who sends, of the operator, or of the link: `StaysConnected` says what
  follows once it stays up. `LateCallbacks = FALSE` in the passing run is an assumption
  about scheduling, not about the code: the handler of a server name returns before the
  maintenance thread changes the state. `MCClientLost` is what happens without it.

Deadlock is checked in every passing run but `MCFrames`, where a stream on which
everything has been sent and read has nothing left to do. `Deleted` in RoomControl
stutters once a room is gone.

## 4. What is proved

Seven modules, for every value of the constants that the named assumption of each module
admits. Each theorem follows from an inductive invariant; the invariants the runs check
are seldom inductive, and what they need beside is what the proofs say of the code.

`RoomControlProofs` (`RoomAssumption`: the initial set point is in range, the step is
positive, `NoTemperature` is no number) proves `TypeOK`, `NoStrandedRequest`,
`SetPointBounds`, `ThermostatCurrent`, `ExtremesAreHandled`, `ClientShowsSetPoint`, and
that the room implements `HeatedRoom` step by step. `IInv` adds:

* `Accounted`: there are at least as many announcements as requests (a caller about to
  announce counted in), and strictly more at the places of a round where the worker has
  taken a request it has not paid for yet. `NoStrandedRequest` alone says nothing of the
  middle of a round, where `--mWorkReceived` is still to come.
* `ReportAccounted`: a report the thermostat has not acted on is flagged, about to be,
  or in the worker's hands with `tempChanged` set. This is where clearing the flag late
  is harmless for the thermostat: line 205 reads the value again.
* `SetPointAccounted` and `HeaterAccounted`: the thermostat's set point and the relay
  differ from the room's and the thermostat's only while the worker is on its way to
  copy them.
* `CallerInv`: calls are made on a running room only.

`Told` is the same for a client that joins: it shows the set point, or the worker is
about to tell it. `HeatedRoomIsComfortable` is a theorem of `HeatedRoom` alone, which
needs no threads: the heater is at no moment on above every set point's band, or off
below it. `ExtremesHandled` says so of idle rooms, with the relay in place of the
decision.

`MainboardProofs` (`MainboardAssumption`) proves `TypeOK`, and `FailSafe` for every set
of heater outputs and every time-out that fits a byte, on a bus without corrupted frames
(`Garbage = {}`; with them it is false, section 6). `Driven` ties a pin to its counter,
`Leased` bounds a counter by what the last request has left (`counters[r] + sinceOn[r]
<= Timeout + 1`), `Pending` says that a frame in the buffer is of a request less than a
pass old. From the same invariant the board implements `RelayLease` (`BoardKeepsLease`),
which says more than `FailSafe`: no relay comes on at an old request, whatever the one
buffer held in between. That `FailSafe` is all in the lease is a theorem of its own
(`LeaseFailsSafe`), which mentions no frame and no counter.

`CommServerProofs` proves `TypeOK` and `AcceptorClientAlive` for any connections, names
and timeouts, and `LiveIsConnected` and `ReapedIsTakenBack` if no peer calls itself
"Unknown", which is how a client is called before its name is received. The check for
another socket and the notification are two steps, and a name may be received in
between. That this does no harm rests on two facts: a client receives its name once
(`Unnamed`), and while the io thread can receive one there is an idle client in the
list, the acceptor's, that is called "Unknown" too (`Spare`), so a client without a name
is always found to have another socket and is not reported as disconnected, whatever
name it has by then. `Told`, `Live`, `Leaving`, `Backed` and `Staying` are what the
listeners have been told and are about to be told. A peer that did call itself Unknown
would be announced and never taken back (`Server.cpp:243`). From the same invariant
the server implements `Presence` (`ServerIsPresence`), and `Presence` alone keeps the
name of every session told (`SessionsAreTold`): what the invariants say of states, it
says of the steps, which is all that a listener sees.

`AdminProofs` (`AdminAssumption`) proves `TypeOK`, `MapIsWatched`, `MapHasLastFix` and
`MapHasLastFence` for any number of phones, administrators, sockets and minutes. An open
socket that shows a map belongs to a name that watches that phone (`Watching`): a name
that loses its watch has no other socket, or was denied and has its maps emptied. What
the phone reported last is in the database (`FixStored`, `FenceStored`), unless the
listener that writes it has its turn still to come, and then the broadcast carries it
(`FixCarried`); a map shows it, or no location at all if it has left the minutes watched
(`FixShown`, `FenceShown`), unless AdminController's turn is still to come. That the
minutes of the map and of the watch are the same is where `Watching` is needed. While
the database is down nothing counts as reported. From these parts the listeners, the sockets and the database together implement `LiveMap`
(`AdminIsLiveMap`), which says of the steps what no invariant says of states: a push
goes to those who watch and to nobody else, and comes once, between one report and the
next. That a map one watches is current is all in `LiveMap` (`LiveMapsAreCurrent`).

`RadioProofs` (`RadioAssumption`) proves `TypeOK`, `AnswerReturnedOnce` and
`ReportsAreNotAnswers` for any number of workers, sensors and callers, any commands at
start-up and any width of the frame id. No mutex guards the slot; the proof shows who
does the guarding: start-up runs alone (`Startup`), a worker requests only inside the
router (`Holder`), whoever gives the router back has it (`Leaving`), callers send
nothing that is answered (`Posting`), and the serial thread, which may be in a request
beside a worker, never sees the flag, since only it could raise it (`Unanswered`). So
between forgetting the old message and reading the new one nobody else frees it
(`Clean`). `HolderIsReady` is about the mutexes: whoever has the router's is at a place
where its next step waits for no other mutex (`Held`), so no cycle of waiting threads
can close, however many there are. It is `RouterHolderGoesOn` without ENABLED.

That the holder not only goes on but arrives is `ReleaseIsNearer`, proved as
`RouterComesBack`: each of its steps leaves fewer to take, by the measure `StepsLeft`
(eight for each send, less one for each place within it), and the steps of others leave
the measure alone. It is not so for every thread: `init` goes from its queries on to its
settings. `Work` is why no such thread has the router: whoever waits for it (`Queued`)
or has it (`Errands`) sends messages and to clients only, a bounded number of each,
which in turn needs that a thread in no send has an empty list (`Resting`).
`ReleaseIsBounded` gives the bound. Together with `HolderIsReady` they are the argument
that the router is given back, all but its last rule: from fairness to "eventually".

`MobileClientProofs` (`ClientAssumption`) proves `TypeOK`, `NoStrandedObject`,
`HealthyStays` and `SettingUnderWay` for any times and any number of events.

* `Noticed`: an object in the queue of a connected client, with nobody about to look who
  queued it, has a callback that will: that of the server name, or that of a connection
  which makes the client wait for the name first.
* `Counted`: `mOutstandingKeepAlives` and the keepalives on their way, in both
  directions, are within one of each other. The counter is reset before the socket is
  replaced and an answer of the old socket may arrive in between, so it does go to -1;
  it goes no further because a client that has left its connection has one keepalive
  under way at the most. `Fresh` says that a new connection carries nothing. How many
  keepalives a queue holds is the cardinality of a set of positions (`Count`), with a
  lemma for each thing that is done to a queue.
* `Heard`: what the server's silence timer has counted is bounded by what the phone has
  counted since it last sent something, or a keepalive is on its way. The phone counts
  seconds down to its reconnection and then up to its next keepalive; in between lies
  the name, and at the end the pass that finds the keepalive due.

`HealthyStays` has one hypothesis, `Patience`: for each number of seconds that the
server may count in a pass of the phone, that number times 50 (15 to reconnect, 30 to
the keepalive, 5 for the pass) is less than 5 times the server's time-out of 90. Three
rounds of 2 s in 5 s give 300 < 450, and the instance has 150 < 180.

`SettingUnderWay` is the safety half of `SettingsReach`: on every connection the last
interval under way is the one the server has on record as sent, and if none is under
way the phone obeys that one already. It needs nothing but the types of what is carried,
and the record starting from 0 on every connection; the half that says the phone gets
round to reading stays with TLC.

`FrameLinksProofs` (`FrameAssumption`; `CrcAssumption`, that the crc of a frame is a
byte, since the sum in it is a fold) proves `TypeOK`, `InOrder` and `NothingWaits` for
every set of frames, every `BASE` and every way of cutting the stream, and that each
receiver implements `FrameChannel`. Its one hypothesis, `Quiet`, is that the serial line
brings no noise before the first frame (with noise they are false, section 6); the TCP
links need none. `Marked` says where in the stream each frame lies, `Carried` that
buffer and wire together hold exactly the bytes of the frames not delivered yet, and
`Emptied` what a loop leaves when it ends. `ServerTakes`, `PhoneTakes` and `ModemTakes`
are the parsers: given a buffer that begins as a frame does, each takes this frame and
no more, or waits, whatever marks and lengths the payload imitates. `ChannelIsQueue`
is what a user of `FrameChannel` may conclude from it alone.

Only model-checked: liveness and fairness (`RequestsAreServed`, `DestructorReturns`,
`DeadIsReaped`, `OffTakesEffect`, `HungServerIsReset`, `StaysConnected`,
`SettingsReach`), which the prover does not do; `RouterHolderGoesOn` in the form with
ENABLED; and that `Crc` is a byte, which is an assumption TLC evaluates for the frames
of `MCFrames`.

## 5. What is not modelled, and why

Nearly two thirds of the repository's lines are vendored: the headers of gtest and glog
and jsoncpp. A model can stand for little of what remains beside the components above:

* No state or no behaviour of their own: the REST service (queries to JSON), the
  communication objects (JSON to members and back), logging, layout and the views of the
  client.
* Arithmetic: `TemperatureFilter` smooths doubles under one mutex and is passed through;
  `Crc8` is good or bad.
* I/O: opening and writing the serial port, the displays, the buttons and the sensor's
  radio library (`Sensor.ino` is one loop around them; the server's side of its messages
  is in `Radio`).
* Other programs: the old board firmware, which speaks a frame format the server has
  given up, the display prototype, the thermostat simulator, the Windows monitor, the
  test server and the log viewer.
* `MainApp`'s construction and shutdown, and the destructors of `Server` and
  `CommRouter`: what happens when they overlap with a running thread is undefined, and
  nothing in the code keeps them apart.
* In the maintenance round, the poll of the admin flag, which goes the way of the
  interval that `MobileClient` has.
* The heater and temperature logs in the database, which nothing in the server reads
  back, and the search for rooms at start.

Undefined behaviour that no property can speak of, listed with its lines under
"hazards": `mListener` of a thermostat tested and used in two reads
(`TwoPointThermostat.cpp:53`); rooms deleted while another room's worker walks over them
(`CommRouter.cpp:46`); the walk over `mClients` without a mutex in `sendObject`
(`Server.cpp:79`), of which `Radio` has what the missing mutex is good for; one buffer
for all sends of a socket (`ClientSocket.cpp:91`).

## 6. Where code and text disagree

Each of these is a run that TLC ends with a counterexample, quoted in `PROJECT.json`.

* A temperature reported while the room is sending the one before never reaches
  monitoring clients (`RoomControl.cpp:190`); the thermostat does get it.
* A client whose handshake overtakes its own deletion is reported as disconnected, and
  was never reported as connected (`Server.cpp:243`).
* A frame with a wrong crc is executed when a good one was waiting
  (`MainboardControl.ino:274`).
* A server name that is handled while the maintenance thread drops the socket leaves the
  client in state Connected without a socket, and it never connects again
  (`CommModel.cs:258`).

Seen while modelling, without a run:

* The constructor of `WatchDog` feeds, waits 500 ms and enables (`WatchDog.cpp:30-40`).
  The board looks at its buffer once a second, so the enable can overwrite the feed, and
  a board whose counter is 0 resets the Raspberry at once. `MainApp` creates no
  `WatchDog` today.
* `~WatchDog` sends the value 1, which enables; `WatchDogTest.cpp:59` expects 0.
* `DMFrameProcessor.cpp:111` checks the size of a frame without the bytes before its
  mark. `XbeeTest.cpp` has tests for frames after noise, which pass because the frame
  arrives whole; when it arrives in two reads it is taken apart beyond the end of the
  buffer. With `Links = {"fromModem"}` and `Noise <- Bogus` in `MCFrames.cfg`, `InOrder`
  and `NothingWaits` are violated.
* `TemperatureSensors.cpp:87` sends synchronously "to avoid sending to fast". The id a
  request waits for and the id it is sent with are read one after the other, and the
  timer takes ids in between; a late answer has an id that comes round again. A request
  may end on another's answer; all it loses is its pace.
* The start of a sensor is answered by the serial thread, which waits its whole ten
  seconds for an answer that only it could receive (`TemperatureSensors.cpp:119`), with
  CommRouter's mutex in hand.
* A location interval that is reset to 0 while the phone is away is not told to it: a
  new connection counts as having been sent 0 (`Server.cpp:189`). The service forgets
  its interval whenever it is started (`HomeControlService.cs:79`), whatever the server
  has sent before.
* The comment at `HomeControlDal.cpp:474` says that renewing a fence leaves centre and
  radius alone; the statement below it overwrites them.
* A server name that is handled after the maintenance thread has decided to reconnect,
  and before it does, has told the receivers `connected()`; `changeState` says nothing
  when a connected client starts connecting (`CommModel.cs:217-269`), so they are told
  once more without `disconnected()` in between. `mCommState = "Connected"` and "the
  receivers were told" imply each other in neither direction on `MCClient`.
* `Server::clientAuthenticated` announces an empty name like any other
  (`Server.cpp:99-121`), and line 243 never takes it back, although the comment above it
  (238-242) says that there was no `clientConnected` for it. A name that is announced by a
  client which a round has deleted between its handshake and its announcement
  (`Client.cpp:183`) stays connected for the listeners too, until it is announced and
  reaped once more.
* `AdminController.cpp:41` says "Stop pushing to a watcher that's gone". A history
  request whose client is reaped while it waits for `Server::mDataMutex` (`Client.cpp:177`,
  `Server.cpp:125`) starts a watch after `clientDisConnected`: `AdminController` then
  reads a history for nobody at each report of the phone, until a client of that name has
  come and gone, or been denied.
* `CommModel::changeState` takes the lock of the receivers while the maintenance thread
  holds `mLock` (`CommModel.cs:431`, 243); `registerCommReceiver` takes them in the other
  order when a receiver sends from `connected()` (359-367, `TemperatureModel.cs:140-147`,
  324). It takes an activity that binds while `TemperatureModel` is still registered with
  its service, in the moment a keepalive is found missing.
* An administrator whose PIN is withdrawn goes on being sent positions until the next
  request (`AdminController.cpp:215`); the check at lines 87-90 is for requests.
