----------------------------- MODULE RoomControl -----------------------------
(***************************************************************************)
(* One heated room of the server: class RoomControl, its worker thread,    *)
(* its TwoPointThermostat and the client that monitors the room.           *)
(*                                                                         *)
(* Two threads meet here.  A caller (the serial or the socket thread, in   *)
(* CommRouter, which holds CommRouter::mDataMutex for the whole call, so   *)
(* there is one call at a time) stores a request in plain and atomic       *)
(* members and notifies a condition variable WITHOUT holding its mutex.    *)
(* The room's worker thread takes the requests, tells CommRouter (which    *)
(* takes CommRouter::mDataMutex) and the thermostat.  Each atomic access   *)
(* that the other thread can see is a step of its own.                     *)
(*                                                                         *)
(* Temperatures are integers in units of 0.05 degrees: 0.2 is 4, half the  *)
(* hysteresis of 0.5 is 5, 16 degrees is 320.                              *)
(***************************************************************************)
EXTENDS Integers

CONSTANTS
  MinSetTemperature, MaxSetTemperature, SetTempDelta, InitSetTemperature,
  InitRoomTemperature,  \* 21.0, before the first report
  HalfHysteresis,
  Temperatures,         \* what a sensor may report
  NoTemperature,        \* none was reported yet
  HasThermostat,        \* FALSE: HeaterOutput 255, a room without a heater
  MaxCalls              \* bound on the calls explored

ASSUME RoomAssumption ==
  /\ MinSetTemperature \in Int /\ MaxSetTemperature \in Int
  /\ InitSetTemperature \in MinSetTemperature..MaxSetTemperature
  /\ SetTempDelta \in Nat \ {0} /\ HalfHysteresis \in Nat
  /\ Temperatures \subseteq Int /\ InitRoomTemperature \in Int
  /\ NoTemperature \notin Int
  /\ HasThermostat \in BOOLEAN /\ MaxCalls \in Nat

VARIABLES
  mUpRequested, mDownRequested, mTempReceived, mWorkReceived,
  mRoomTemperature, mSetTemperature, mWorkerThreadRunning,
  caller,        \* where the calling thread is
  calls,         \* how many calls were made
  worker,        \* where the worker thread is
  setChanged, tempChanged, temperature,  \* the worker's locals
  mListener, mSetPoint, mHeaterOn,       \* the thermostat
  reported,      \* the last temperature a caller reported
  actedOn,       \* the temperature the thermostat was last given
  indicated,     \* heater state last given to the sensors and the database
  relay,         \* heater state last given to the relay
  monitoring,    \* the client is in mConnnectedClients
  shownTemperature, shownSetTemperature  \* what the client was last sent

requests   == <<mUpRequested, mDownRequested, mTempReceived>>
values     == <<mRoomTemperature, mSetTemperature>>
room       == <<requests, mWorkReceived, values, reported>>
thermostat == <<mListener, mSetPoint, mHeaterOn, actedOn>>
heater     == <<indicated, relay>>
client     == <<monitoring, shownTemperature, shownSetTemperature>>
outside    == <<thermostat, heater, client>>
locals     == <<setChanged, tempChanged, temperature>>
vars == <<room, mWorkerThreadRunning, caller, calls, worker, locals, outside>>

CallerStates == {"idle", "flag", "work", "stop", "stopWork", "join", "deleted"}

Waiting  == {"wait", "park", "parked"}
Serving  == {"up", "clampUp", "tellUp", "down", "clampDown", "tellDown",
             "temp", "tellTemp", "clear", "dec"}
Deciding == {"thermostatSet", "thermostatTemp", "indicate", "switch"}
WorkerStates == Waiting \cup Serving \cup Deciding \cup {"loop", "gate", "exited"}

Init ==
  /\ mUpRequested = 0 /\ mDownRequested = 0 /\ mTempReceived = FALSE
  /\ mWorkReceived = 0 /\ mWorkerThreadRunning = TRUE
  /\ mRoomTemperature = InitRoomTemperature
  /\ mSetTemperature = InitSetTemperature
  /\ caller = "idle" /\ calls = 0
  /\ worker = "loop" /\ setChanged = FALSE /\ tempChanged = FALSE
  /\ temperature = InitRoomTemperature
  /\ mListener = HasThermostat /\ mSetPoint = InitSetTemperature
  /\ mHeaterOn = FALSE /\ reported = NoTemperature /\ actedOn = NoTemperature
  /\ indicated = FALSE /\ relay = FALSE
  /\ monitoring = FALSE
  /\ shownTemperature = InitRoomTemperature
  /\ shownSetTemperature = InitSetTemperature

\* CommRouter::mDataMutex: the worker's callbacks into CommRouter need it.
RouterFree == caller \notin {"flag", "work"}

-----------------------------------------------------------------------------
(* The calls CommRouter makes.                                             *)

Begin(next) ==
  /\ caller = "idle" /\ calls < MaxCalls
  /\ caller' = next /\ calls' = calls + 1
  /\ UNCHANGED <<mWorkReceived, mWorkerThreadRunning, worker, locals, outside>>

Continue(from, to) ==
  /\ caller = from /\ caller' = to
  /\ UNCHANGED <<values, reported, calls, locals, heater, client>>

roomTemperature(t) ==
  /\ Begin("flag")
  /\ mRoomTemperature' = t /\ reported' = t
  /\ UNCHANGED <<requests, mSetTemperature>>

flagTemperature ==
  /\ Continue("flag", "work")
  /\ mTempReceived' = TRUE
  /\ UNCHANGED <<mUpRequested, mDownRequested, mWorkReceived,
                 mWorkerThreadRunning, worker, thermostat>>

setPointUp ==
  /\ Begin("work")
  /\ mUpRequested' = mUpRequested + 1
  /\ UNCHANGED <<mDownRequested, mTempReceived, values, reported>>

setPointDown ==
  /\ Begin("work")
  /\ mDownRequested' = mDownRequested + 1
  /\ UNCHANGED <<mUpRequested, mTempReceived, values, reported>>

\* ++mWorkReceived, then notify_one: it wakes the worker only if that sleeps
\* already; a worker that has found no work but does not sleep yet misses it.
announceWork ==
  /\ Continue("work", "idle") \/ Continue("stopWork", "join")
  /\ mWorkReceived' = mWorkReceived + 1
  /\ worker' = IF worker = "parked" THEN "wait" ELSE worker
  /\ UNCHANGED <<requests, mWorkerThreadRunning, thermostat>>

\* ~RoomControl, by the main thread once no caller is left.
unRegisterListener ==
  /\ Continue("idle", "stop")
  /\ mListener' = FALSE
  /\ UNCHANGED <<requests, mWorkReceived, mWorkerThreadRunning, worker,
                 mSetPoint, mHeaterOn, actedOn>>

stopWorkerThread ==
  /\ Continue("stop", "stopWork")
  /\ mWorkerThreadRunning' = FALSE
  /\ UNCHANGED <<requests, mWorkReceived, worker, thermostat>>

join ==
  /\ Continue("join", "deleted") /\ worker = "exited"
  /\ UNCHANGED <<requests, mWorkReceived, mWorkerThreadRunning, worker, thermostat>>

\* A client asks for monitoring and is sent the room list (sendRooms).
enableMonitoring ==
  /\ caller = "idle"
  /\ monitoring' = TRUE
  /\ shownTemperature' = mRoomTemperature
  /\ shownSetTemperature' = mSetTemperature
  /\ UNCHANGED <<room, mWorkerThreadRunning, caller, calls, worker, locals,
                 thermostat, heater>>

disableMonitoring ==
  /\ caller = "idle"
  /\ monitoring' = FALSE
  /\ UNCHANGED <<room, mWorkerThreadRunning, caller, calls, worker, locals,
                 thermostat, heater, shownTemperature, shownSetTemperature>>

-----------------------------------------------------------------------------
(* The worker thread.                                                      *)

Go(from, to) ==
  /\ worker = from /\ worker' = to
  /\ UNCHANGED <<caller, calls, mWorkerThreadRunning>>

loopHead ==
  /\ Go("loop", IF mWorkerThreadRunning THEN "wait" ELSE "exited")
  /\ setChanged' = FALSE /\ tempChanged' = FALSE
  /\ UNCHANGED <<room, temperature, outside>>

WaitEnds_OnlyNotified == FALSE

\* After WAIT_FOR_WORK_TIMEOUT_SEC a wait ends, notified or not.
WaitEnds == worker = "parked"

\* wait_until evaluates its predicate, and only then sleeps.
waitForWork ==
  /\ \/ Go("wait", IF mWorkReceived > 0 THEN "gate" ELSE "park")
     \/ Go("park", "parked")
     \/ WaitEnds /\ Go("parked", "gate")
  /\ UNCHANGED <<room, locals, outside>>

gate ==
  /\ Go("gate", IF mWorkReceived > 0 /\ mWorkerThreadRunning THEN "up" ELSE "loop")
  /\ UNCHANGED <<room, locals, outside>>

UpsLeft_Coalesced == 0

UpsLeft == mUpRequested - 1

\* One round of while (mUpRequested): the addition is visible before the clamp.
takeUp ==
  /\ \/ /\ mUpRequested > 0 /\ Go("up", "clampUp")
        /\ mUpRequested' = UpsLeft
        /\ mSetTemperature' = mSetTemperature + SetTempDelta
        /\ setChanged' = TRUE
     \/ /\ mUpRequested = 0 /\ Go("up", "down")
        /\ UNCHANGED <<mUpRequested, mSetTemperature, setChanged>>
  /\ UNCHANGED <<mDownRequested, mTempReceived, mWorkReceived, mRoomTemperature,
                 reported, tempChanged, temperature, outside>>

takeDown ==
  /\ \/ /\ mDownRequested > 0 /\ Go("down", "clampDown")
        /\ mDownRequested' = mDownRequested - 1
        /\ mSetTemperature' = mSetTemperature - SetTempDelta
        /\ setChanged' = TRUE
     \/ /\ mDownRequested = 0 /\ Go("down", "temp")
        /\ UNCHANGED <<mDownRequested, mSetTemperature, setChanged>>
  /\ UNCHANGED <<mUpRequested, mTempReceived, mWorkReceived, mRoomTemperature,
                 reported, tempChanged, temperature, outside>>

Clamped_Not(t) == t

Clamped(t) == IF t > MaxSetTemperature THEN MaxSetTemperature
              ELSE IF t < MinSetTemperature THEN MinSetTemperature ELSE t

clamp ==
  /\ Go("clampUp", "tellUp") \/ Go("clampDown", "tellDown")
  /\ mSetTemperature' = Clamped(mSetTemperature)
  /\ UNCHANGED <<requests, mWorkReceived, mRoomTemperature, reported, locals, outside>>

SetPointTold_Followed == mSetPoint

SetPointTold == mSetTemperature

\* CommRouter::setPointChanged, under mDataMutex.
tellSetPoint ==
  /\ RouterFree
  /\ Go("tellUp", "up") \/ Go("tellDown", "down")
  /\ shownSetTemperature' = IF monitoring THEN SetPointTold ELSE shownSetTemperature
  /\ UNCHANGED <<room, locals, thermostat, heater, monitoring, shownTemperature>>

\* The flag is tested and the argument of temperatureChanged is evaluated ...
takeTemperature ==
  /\ \/ /\ mTempReceived /\ Go("temp", "tellTemp")
        /\ tempChanged' = TRUE /\ temperature' = mRoomTemperature
     \/ /\ ~mTempReceived /\ Go("temp", "dec")
        /\ UNCHANGED <<tempChanged, temperature>>
  /\ UNCHANGED <<room, setChanged, outside>>

\* ... CommRouter::temperatureChanged sends it, under mDataMutex ...
tellTemperature ==
  /\ RouterFree /\ Go("tellTemp", "clear")
  /\ shownTemperature' = IF monitoring THEN temperature ELSE shownTemperature
  /\ UNCHANGED <<room, locals, thermostat, heater, monitoring, shownSetTemperature>>

\* ... and only now is the flag cleared, whatever was stored in between.
clearTempReceived ==
  /\ Go("clear", "dec")
  /\ mTempReceived' = FALSE
  /\ UNCHANGED <<mUpRequested, mDownRequested, mWorkReceived, values, reported,
                 locals, outside>>

WorkLeft_None == 0
WorkLeft_Twice == mWorkReceived - 2

WorkLeft == mWorkReceived - 1

workDone ==
  /\ Go("dec", "thermostatSet")
  /\ mWorkReceived' = WorkLeft
  /\ UNCHANGED <<requests, values, reported, locals, outside>>

giveSetPoint ==
  /\ Go("thermostatSet", "thermostatTemp")
  /\ mSetPoint' = IF HasThermostat /\ setChanged THEN mSetTemperature ELSE mSetPoint
  /\ UNCHANGED <<room, locals, mListener, mHeaterOn, actedOn, heater, client>>

\* TwoPointThermostat::temperatureChanged up to its callback.
HeaterDemand(on, t, setPoint) ==
  IF t > setPoint + HalfHysteresis THEN FALSE
  ELSE IF t < setPoint - HalfHysteresis THEN TRUE ELSE on

TemperatureGiven_AsSent == temperature

\* Read again: it may be newer than the value the clients were sent.
TemperatureGiven == mRoomTemperature

giveTemperature ==
  /\ \/ /\ HasThermostat /\ tempChanged /\ Go("thermostatTemp", "indicate")
        /\ actedOn' = TemperatureGiven
        /\ mHeaterOn' = HeaterDemand(mHeaterOn, TemperatureGiven, mSetPoint)
     \/ /\ ~(HasThermostat /\ tempChanged) /\ Go("thermostatTemp", "loop")
        /\ UNCHANGED <<actedOn, mHeaterOn>>
  /\ UNCHANGED <<room, locals, mListener, mSetPoint, heater, client>>

\* heaterOn/heaterOff: CommRouter (sensors, database) under mDataMutex, ...
indicateHeater ==
  /\ \/ mListener /\ RouterFree /\ Go("indicate", "switch") /\ indicated' = mHeaterOn
     \/ ~mListener /\ Go("indicate", "loop") /\ UNCHANGED indicated
  /\ UNCHANGED <<room, locals, thermostat, relay, client>>

\* ... then the relay.
switchHeater ==
  /\ Go("switch", "loop")
  /\ relay' = mHeaterOn
  /\ UNCHANGED <<room, locals, thermostat, indicated, client>>

-----------------------------------------------------------------------------

CallerNext ==
  \/ \E t \in Temperatures : roomTemperature(t)
  \/ setPointUp \/ setPointDown
  \/ flagTemperature \/ announceWork
  \/ enableMonitoring \/ disableMonitoring
  \/ unRegisterListener \/ stopWorkerThread \/ join

WorkerNext ==
  \/ loopHead \/ waitForWork \/ gate
  \/ takeUp \/ takeDown \/ clamp \/ tellSetPoint
  \/ takeTemperature \/ tellTemperature \/ clearTempReceived \/ workDone
  \/ giveSetPoint \/ giveTemperature \/ indicateHeater \/ switchHeater

\* The room is gone.
Deleted == caller = "deleted" /\ UNCHANGED vars

Next == CallerNext \/ WorkerNext \/ Deleted

\* The threads run: the worker's wait times out, a call that was begun and a
\* destruction that was begun end.  Nobody has to begin one.
Fairness ==
  /\ WF_vars(WorkerNext)
  /\ WF_vars(flagTemperature \/ announceWork \/ stopWorkerThread \/ join)

Spec == Init /\ [][Next]_vars
FairSpec == Spec /\ Fairness

-----------------------------------------------------------------------------
(* Properties.                                                             *)

\* The values each variable ranges over; in particular the worker never takes
\* more announcements or presses than were made: no counter goes below zero.
TypeOK ==
  /\ mUpRequested \in Nat /\ mDownRequested \in Nat /\ mTempReceived \in BOOLEAN
  /\ mWorkReceived \in Nat /\ mWorkerThreadRunning \in BOOLEAN
  /\ mRoomTemperature \in Int /\ mSetTemperature \in Int
  /\ caller \in CallerStates /\ calls \in Nat
  /\ worker \in WorkerStates /\ setChanged \in BOOLEAN /\ tempChanged \in BOOLEAN
  /\ temperature \in Int
  /\ mListener \in BOOLEAN /\ mSetPoint \in Int /\ mHeaterOn \in BOOLEAN
  /\ reported \in Int \cup {NoTemperature} /\ actedOn \in Int \cup {NoTemperature}
  /\ indicated \in BOOLEAN /\ relay \in BOOLEAN /\ monitoring \in BOOLEAN
  /\ shownTemperature \in Int /\ shownSetTemperature \in Int

\* The room has nothing to do: no call is under way and the worker waits.
Idle == caller = "idle" /\ worker \in Waiting /\ mWorkReceived = 0

\* mWorkReceived counts calls and not the requests themselves, and the worker
\* takes all the requests at each round; still, whenever no call is half way, a
\* request that is stored is announced: it never waits for a later call.
NoStrandedRequest ==
  caller = "idle" /\ (mUpRequested > 0 \/ mDownRequested > 0 \/ mTempReceived)
    => mWorkReceived > 0

\* The set point leaves [Min, Max] only between the addition and its clamp, and
\* what drives the heater never does.
SetPointBounds ==
  /\ worker \notin {"clampUp", "clampDown"}
       => mSetTemperature \in MinSetTemperature..MaxSetTemperature
  /\ mSetPoint \in MinSetTemperature..MaxSetTemperature

\* A room that has nothing to do has given its thermostat the last temperature
\* reported and the set point that holds, whatever arrived while it worked.
ThermostatCurrent ==
  Idle /\ HasThermostat => mSetPoint = mSetTemperature /\ actedOn = reported

\* However the set point was moved, an idle room heats below the lowest set
\* point there is and does not heat above the highest one; relay, sensors and
\* database agree.
ExtremesAreHandled ==
  Idle /\ HasThermostat /\ actedOn # NoTemperature =>
    /\ actedOn < MinSetTemperature - HalfHysteresis => relay
    /\ actedOn > MaxSetTemperature + HalfHysteresis => ~relay
    /\ indicated = relay

\* A monitoring client of an idle room shows the room's set point, also when it
\* joined while the worker was half way through a change.
ClientShowsSetPoint ==
  Idle /\ monitoring => shownSetTemperature = mSetTemperature

\* CommRouter::temperatureChanged: "Temperature has changed in the room; send
\* it to all connected CommClients".
ClientShowsTemperature ==
  Idle /\ monitoring => shownTemperature = mRoomTemperature

Promise == INSTANCE HeatedRoom WITH
  ups <- mUpRequested, downs <- mDownRequested, open <- mWorkerThreadRunning,
  setPoint <- IF worker \in {"clampUp", "clampDown"} THEN Clamped(mSetTemperature)
              ELSE mSetTemperature,
  followed <- mSetPoint, heaterOn <- mHeaterOn

\* The two threads together do what HeatedRoom says, a set point that is being
\* clamped counting as clamped: a press moves the set point one step, once, and
\* the heater is decided from the last report, not from one it overtook.
ImplementsHeatedRoom == Promise!Spec

\* Although notify_one is called without the mutex of the condition variable and
\* can be missed, no press, report or decision is left waiting in an open room.
RequestsAreServed == Promise!Served

\* ~RoomControl returns: its join is not left waiting by a missed notify.
DestructorReturns == caller = "stop" ~> caller = "deleted"

=============================================================================
