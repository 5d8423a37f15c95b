-------------------------------- MODULE Radio --------------------------------
(***************************************************************************)
(* The server's side of the radio: DMComm, with the frames that Serial and *)
(* DMFrameProcessor hand it, TemperatureSensors, and the locks under which *)
(* the threads of the server use them.                                     *)
(*                                                                         *)
(* A request that waits for its answer ("synchronous") goes through one    *)
(* slot: mSynchronousFrameId, mResponseReceived and mReceivedMessage, which *)
(* no mutex guards.  Only the serial thread fills it.  The workers of the  *)
(* rooms make requests while they hold CommRouter::mDataMutex (router).    *)
(* The serial thread needs that mutex to hand on what a sensor says, and   *)
(* makes requests itself: for a sensor that started, still inside the      *)
(* router, and for a modem that was reset.  The io and maintenance threads *)
(* hold Server::mDataMutex (server) when they enter the router.            *)
(***************************************************************************)
EXTENDS Naturals, Sequences, FiniteSets, Functions

CONSTANTS
  Workers,        \* the worker threads of the rooms
  Room,           \* the sensors of the room, in the order of its std::set
  Callers,        \* the timer, io and maintenance threads; each does what any of them does
  Queries,        \* the AT commands of init that are answered: AP, NI, SH, SL
  Settings,       \* those it sends once it has its address: CH, ID
  IdModulus,      \* mFrameId is a byte: 256
  MaxOwed,        \* bound: answers that are on their way
  None

ASSUME RadioAssumption ==
  /\ IdModulus \in Nat /\ IdModulus > 2 /\ MaxOwed \in Nat
  /\ Workers \cap Callers = {} /\ (Workers \cup Callers) \cap {"main", "serial"} = {}
  /\ None \notin Workers \cup Callers \cup {"main", "serial"} \cup Range(Room)
  /\ Room \in Seq(Range(Room)) /\ \A i, j \in DOMAIN Room : Room[i] = Room[j] => i = j
  /\ Queries \in Seq(Range(Queries)) /\ Queries # <<>>
  /\ Settings \in Seq(Range(Settings)) /\ Range(Queries) \cap Range(Settings) = {}
  /\ {"message", "post", "clients"} \cap (Range(Queries) \cup Range(Settings)) = {}

Sensors    == Range(Room)
Threads    == Workers \cup {"main", "serial"} \cup Callers
FrameId    == 0..(IdModulus - 1)

VARIABLES
  mFrameId, mSynchronousFrameId, mResponseReceived,
  mReceivedMessage,     \* "null", "full", or "freed" when it dangles
  mSensorAddress,       \* the sensors whose address is known
  router, server,       \* the threads that hold these mutexes
  pc, job, id,          \* of a thread: place, sends left, frame id it has read
  frame,                \* the answer the serial thread is handing over
  modem                 \* answers the modem owes, or the serial port holds

slot == <<mSynchronousFrameId, mResponseReceived, mReceivedMessage>>
dm   == <<mFrameId, slot, mSensorAddress>>
vars == <<dm, router, server, pc, job, id, frame, modem>>

-----------------------------------------------------------------------------
(* What is sent and received.  The second byte of a received frame is      *)
(* taken for a frame id whatever its type: for what a sensor says it is    *)
(* the first byte of an address, which is 0, for a modem status its code.  *)

ATCommands   == Range(Queries) \cup Range(Settings)
Synchronous  == {"message"} \cup Range(Queries)
Sends        == ATCommands \cup {"message", "post"}

Frame(type, i, s)  == [type |-> type, id |-> i, of |-> s]
Answer(i)          == Frame("answer", i, None)
Answers            == {Answer(i) : i \in FrameId \ {0}}
FromSensors        == {Frame(type, 0, s) : type \in {"started", "temperature", "button"},
                                           s \in Sensors}
Discovery          == Frame("discovery", 0, None)
HardwareReset      == Frame("reset", 0, None)
WatchdogTimerReset == Frame("status", 1, None)
Reports            == FromSensors \cup {Discovery, HardwareReset, WatchdogTimerReset}

To(what, s) == [what |-> what, to |-> s]
Only(what)  == To(what, None)
Each(whats) == [i \in DOMAIN whats |-> Only(whats[i])]

\* One write per sensor of the room: setPointChanged, heaterOn, heaterOff.
RoomWrites  == [i \in DOMAIN Room |-> To("message", Room[i])]

Init ==
  /\ mFrameId = 1 /\ mSynchronousFrameId = 0 /\ mResponseReceived = FALSE
  /\ mReceivedMessage = "null" /\ mSensorAddress = {}
  /\ router = None /\ server = None
  /\ pc = [t \in Threads |-> IF t = "main" THEN "next" ELSE "idle"]
  /\ job = [t \in Threads |-> IF t = "main" THEN Each(Queries) ELSE <<>>]
  /\ id = [t \in Threads |-> 0]
  /\ frame = None /\ modem = {}

\* The constructors are done: TemperatureSensors is DMComm's listener.
Running == pc["main"] = "idle"

Go(t, from, to) == pc[t] = from /\ pc' = [pc EXCEPT ![t] = to]

\* A send is over; the thread goes on with the next, or gives back the router.
Over(t, from, rest) ==
  /\ Go(t, from, IF rest = <<>> /\ router # t THEN "idle" ELSE "next")
  /\ job' = [job EXCEPT ![t] = rest] /\ id' = [id EXCEPT ![t] = 0]
Sent(t, from) == Over(t, from, Tail(job[t]))

\* What a frame was sent for decides whether the thread waits.
Await(t, from) ==
  IF Head(job[t]).what \in Synchronous
  THEN Go(t, from, "wait") /\ UNCHANGED <<job, id>>
  ELSE Sent(t, from)

-----------------------------------------------------------------------------
(* The requests, for any thread.                                           *)

\* The thread has one of these to send.
Sending(t, whats) == pc[t] = "next" /\ job[t] # <<>> /\ Head(job[t]).what \in whats

\* A message to a sensor whose address is not known is not sent.
Addressed(item) == item.what = "message" => item.to \in mSensorAddress

notAddressed(t) ==
  /\ Sending(t, Sends) /\ ~Addressed(Head(job[t]))
  /\ Sent(t, "next")
  /\ UNCHANGED <<dm, router, server, frame, modem>>

clearResponse(t) ==
  /\ Sending(t, Synchronous) /\ Addressed(Head(job[t]))
  /\ Go(t, "next", "setId") /\ mResponseReceived' = FALSE
  /\ UNCHANGED <<mFrameId, mSynchronousFrameId, mReceivedMessage, mSensorAddress,
                 router, server, job, id, frame, modem>>

setSynchronousId(t) ==
  /\ Go(t, "setId", "forget") /\ mSynchronousFrameId' = mFrameId
  /\ UNCHANGED <<mFrameId, mResponseReceived, mReceivedMessage, mSensorAddress,
                 router, server, job, id, frame, modem>>

Forgotten_Not(message) == message

\* The pointer as a request starts with it.
Forgotten(message) == "null"

forgetMessage(t) ==
  /\ Go(t, "forget", "take") /\ mReceivedMessage' = Forgotten(mReceivedMessage)
  /\ UNCHANGED <<mFrameId, mSynchronousFrameId, mResponseReceived, mSensorAddress,
                 router, server, job, id, frame, modem>>

\* mFrameId++ is a read and a write, and no mutex makes them one.
takeId(t) ==
  /\ Sending(t, Sends \ Synchronous) \/ pc[t] = "take"
  /\ Go(t, pc[t], "send") /\ id' = [id EXCEPT ![t] = mFrameId]
  /\ UNCHANGED <<dm, router, server, job, frame, modem>>

NextId_Wide(i) == i + 1

\* The counter is a byte.
NextId(i) == (i + 1) % IdModulus

\* The modem answers a frame whose id is not 0, or loses it.
Answered(t) ==
  \/ /\ id[t] # 0 /\ Cardinality(modem) < MaxOwed
     /\ modem' = modem \cup {Answer(id[t])}
  \/ UNCHANGED modem

sendData(t) ==
  /\ pc[t] = "send" /\ mFrameId' = NextId(id[t])
  /\ Answered(t)
  /\ IF Head(job[t]).what \in ATCommands
     THEN Go(t, "send", "wrap") /\ UNCHANGED <<job, id>>
     ELSE Await(t, "send")
  /\ UNCHANGED <<slot, mSensorAddress, router, server, frame>>

\* Only AT commands keep 0 from being an id.
skipZero(t) ==
  /\ pc[t] = "wrap" /\ Await(t, "wrap")
  /\ mFrameId' = IF mFrameId = 0 THEN 1 ELSE mFrameId
  /\ UNCHANGED <<slot, mSensorAddress, router, server, frame, modem>>

AfterSend_Again(t) == {job[t], Tail(job[t])}

\* After its last query init goes on to the settings when it has the whole address of the modem,
\* which it may have from before.
AfterSend(t) ==
  {Tail(job[t])} \cup (IF Head(job[t]).what = Queries[Len(Queries)] THEN {Each(Settings)} ELSE {})

\* The flag is read once more.  The caller deletes what it is given, and the
\* slot keeps the id and the pointer.
checkResponse(t) ==
  /\ pc[t] = "wait" /\ mResponseReceived
  /\ mReceivedMessage' = IF mReceivedMessage = "null" THEN "null" ELSE "freed"
  /\ \E rest \in AfterSend(t) : Over(t, "wait", rest)
  /\ UNCHANGED <<mFrameId, mSynchronousFrameId, mResponseReceived, mSensorAddress,
                 router, server, frame, modem>>

\* wait_until returns at the time-out, whatever the modem does.
noResponse(t) ==
  /\ ~mResponseReceived /\ Go(t, "wait", "giveUp")
  /\ UNCHANGED <<dm, router, server, job, id, frame, modem>>

giveUp(t) ==
  /\ pc[t] = "giveUp" /\ mSynchronousFrameId' = 0
  /\ \E rest \in AfterSend(t) : Over(t, "giveUp", rest)
  /\ UNCHANGED <<mFrameId, mResponseReceived, mReceivedMessage, mSensorAddress,
                 router, server, frame, modem>>

SendObjectWaits_ForServer == server # None

\* Server::sendObject goes through the clients without Server::mDataMutex.
SendObjectWaits == FALSE

sendObject(t) ==
  /\ Sending(t, {"clients"}) /\ ~SendObjectWaits
  /\ Sent(t, "next")
  /\ UNCHANGED <<dm, router, server, frame, modem>>

\* Everything is sent; the mutexes are released.
finish(t) ==
  /\ job[t] = <<>> /\ Go(t, "next", "idle")
  /\ router' = None
  /\ server' = IF server = t THEN None ELSE server
  /\ UNCHANGED <<dm, job, id, frame, modem>>

Request(t) ==
  \/ notAddressed(t) \/ clearResponse(t) \/ setSynchronousId(t) \/ forgetMessage(t)
  \/ takeId(t) \/ sendData(t) \/ skipZero(t) \/ checkResponse(t)
  \/ noResponse(t) \/ giveUp(t) \/ sendObject(t) \/ finish(t)

-----------------------------------------------------------------------------
(* What makes threads send.                                                *)

\* A worker tells sensors and clients: setPointChanged, heaterOn, heaterOff.
tellRoom(w) ==
  /\ Running /\ router = None /\ router' = w
  /\ Go(w, "idle", "next")
  /\ \E told \in {<<>>, <<Only("clients")>>} : job' = [job EXCEPT ![w] = RoomWrites \o told]
  /\ UNCHANGED <<dm, server, id, frame, modem>>

\* Timer: the time, to all sensors, with no answer to wait for.
writeTime(c) ==
  /\ Running /\ Go(c, "idle", "next")
  /\ job' = [job EXCEPT ![c] = <<Only("post")>>]
  /\ UNCHANGED <<dm, router, server, id, frame, modem>>

\* The io or the maintenance thread, on its way to CommRouter.
lockServer(c) ==
  /\ Running /\ server = None /\ server' = c
  /\ Go(c, "idle", "lock")
  /\ UNCHANGED <<dm, router, job, id, frame, modem>>

\* It changes a room or the monitoring, and sends the rooms to clients.  The
\* serial thread sends them when it meets a new room.
enterRouter(t) ==
  /\ router = None /\ router' = t
  /\ Go(t, "lock", "next")
  /\ \E told \in {<<>>, <<Only("clients")>>} : job' = [job EXCEPT ![t] = told \o @]
  /\ UNCHANGED <<dm, server, id, frame, modem>>

-----------------------------------------------------------------------------
(* The serial thread.                                                      *)

IsAnswer_ZeroToo(f) == f.id = mSynchronousFrameId

IsAnswer(f) == f.id = mSynchronousFrameId /\ f.id # 0

\* What TemperatureSensors does with a frame that is no answer to a request.
\* A start is answered with the configuration.  An address is sent without
\* waiting.
Handled(f) ==
  CASE f.type = "started"   -> <<To("message", f.of)>>
    [] f.type = "discovery" -> <<Only("post")>>
    [] f.type = "reset"     -> Each(Queries)
    [] OTHER                -> <<>>

\* An answer comes late, or out of order, or never.
receiveAnswer ==
  \E f \in modem \cup Reports :
    /\ IsAnswer(f) /\ frame' = f /\ modem' = modem \ {f}
    /\ Go("serial", "idle", "flag")
    /\ UNCHANGED <<dm, router, server, job, id>>

\* Before TemperatureSensors listens, what is no answer is dropped.  init starts
\* the ids again.
receiveReport ==
  \E f \in modem \cup Reports :
    /\ pc["serial"] = "idle" /\ ~IsAnswer(f) /\ modem' = modem \ {f}
    /\ IF Running /\ f \notin modem
       THEN /\ Go("serial", "idle", IF f \in FromSensors THEN "lock"
                                    ELSE IF Handled(f) = <<>> THEN "idle" ELSE "next")
            /\ job' = [job EXCEPT !["serial"] = Handled(f)]
            /\ mSensorAddress' = mSensorAddress \cup
                  (IF f.type \in {"started", "temperature"} THEN {f.of} ELSE {})
            /\ mFrameId' = IF f.type = "reset" THEN 1 ELSE mFrameId
       ELSE UNCHANGED <<mFrameId, mSensorAddress, pc, job>>
    /\ UNCHANGED <<slot, router, server, id, frame>>

\* The flag goes up before the message is there.
raiseFlag ==
  /\ Go("serial", "flag", "store") /\ mResponseReceived' = TRUE
  /\ UNCHANGED <<mFrameId, mSynchronousFrameId, mReceivedMessage, mSensorAddress,
                 router, server, job, id, frame, modem>>

storeMessage ==
  /\ Go("serial", "store", "idle")
  /\ mReceivedMessage' = "full" /\ frame' = None
  /\ UNCHANGED <<mFrameId, mSynchronousFrameId, mResponseReceived, mSensorAddress,
                 router, server, job, id, modem>>

loseAnswer(a) ==
  /\ modem' = modem \ {a}
  /\ UNCHANGED <<dm, router, server, pc, job, id, frame>>

SerialNext == receiveAnswer \/ receiveReport \/ raiseFlag \/ storeMessage \/ Request("serial")

Next ==
  \/ \E w \in Workers : tellRoom(w)
  \/ \E t \in Threads \ {"serial"} : Request(t)
  \/ \E c \in Callers : writeTime(c) \/ lockServer(c)
  \/ \E t \in Callers \cup {"serial"} : enterRouter(t)
  \/ SerialNext
  \/ \E a \in modem : loseAnswer(a)

Spec == Init /\ [][Next]_vars

-----------------------------------------------------------------------------
(* Properties.                                                             *)

\* The values each variable ranges over.
TypeOK ==
  /\ mFrameId \in FrameId /\ mSynchronousFrameId \in FrameId
  /\ mResponseReceived \in BOOLEAN
  /\ mReceivedMessage \in {"null", "full", "freed"}
  /\ mSensorAddress \subseteq Sensors
  /\ router \in Threads \cup {None} /\ server \in Callers \cup {None}
  /\ pc \in [Threads -> {"idle", "lock", "next", "setId", "forget", "take", "send",
                         "wrap", "wait", "giveUp", "flag", "store"}]
  /\ job \in [Threads -> Seq([what : Sends \cup {"clients"}, to : Sensors \cup {None}])]
  /\ id \in [Threads -> FrameId]
  /\ frame \in Answers \cup Reports \cup {None} /\ modem \subseteq Answers

\* The message in the slot is given to one caller only, which deletes it: no
\* request ends with a pointer to a message that a request before it has had,
\* though the slot keeps that pointer and its flag, the serial thread may fill
\* it late, and no mutex guards it (DMComm.cpp:133-146, 212-213).
AnswerReturnedOnce ==
  \A t \in Threads : pc[t] = "wait" /\ mResponseReceived => mReceivedMessage # "freed"

\* What a sensor says, and the reset of the modem, are never taken for the
\* answer to a request, although their second byte is compared with a frame id
\* and ids wrap around to the value it has (DMComm.cpp:167-171).
ReportsAreNotAnswers ==
  frame # None => frame.type \in {"answer", "status"}

\* Whoever holds the router can go on: it waits for no mutex of a thread that may
\* be waiting for the router, and for the radio no longer than the time-out, even
\* when the serial thread, which alone could bring the answer, is itself waiting
\* for the router (CommRouter.cpp:69-94, Server.cpp:73-88, DMComm.cpp:142).
RouterHolderGoesOn == router # None => ENABLED Request(router)

\* The steps a thread has to take at the most before its list is empty and, at
\* place "next", it gives back the router: eight for each send.
Ahead(place) ==
  CASE place = "next"   -> 8
    [] place = "setId"  -> 7
    [] place = "forget" -> 6
    [] place = "take"   -> 5
    [] place = "send"   -> 4
    [] place = "wrap"   -> 3
    [] place = "wait"   -> 2
    [] place = "giveUp" -> 1
    [] OTHER            -> 0
StepsLeft(place, sends) == 8 * Len(sends) + Ahead(place)

\* Every step of the thread that holds the router brings it nearer to giving it
\* back, and no step of another thread sets it back: nothing is sent twice, no
\* answer or time-out leads to another send, and what others do to the slot does
\* not start a wait again.  Each of these steps waits for the radio's time-out at
\* the most (CommRouter.cpp:69-94, TemperatureSensors.cpp:119, DMComm.cpp:133-146).
ReleaseIsNearer ==
  [][\A t \in Threads :
       router = t /\ router' = t =>
         \/ UNCHANGED <<pc[t], job[t]>>
         \/ StepsLeft(pc'[t], job'[t]) < StepsLeft(pc[t], job[t])]_vars

=============================================================================
