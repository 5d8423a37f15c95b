-------------------------- MODULE RoomControlProofs --------------------------
(***************************************************************************)
(* What is proved of RoomControl for every set point range, every set of   *)
(* temperatures and every number of calls, and of HeatedRoom by itself.    *)
(***************************************************************************)
EXTENDS RoomControl, TLAPS

\* Requests stored, a temperature counting once; calls announced, the call that
\* has stored its request and not yet announced it included.
Stored == mUpRequested + mDownRequested + (IF mTempReceived THEN 1 ELSE 0)
Announced == mWorkReceived + (IF caller = "work" THEN 1 ELSE 0)

\* The strengthening of NoStrandedRequest.  A round of the worker consumes one
\* announcement, so it must have consumed a request by then, or there must have
\* been more announcements than requests.  Where the round can be along its way
\* decides which requests can still be the one.
Accounted ==
  /\ Stored <= Announced
  /\ worker \in Serving => mWorkReceived >= 1
  /\ worker \in {"clampUp", "tellUp", "clampDown", "tellDown", "dec"} => Stored < Announced
  /\ worker = "down" => Stored < Announced \/ mDownRequested > 0 \/ mTempReceived
  /\ worker = "temp" => Stored < Announced \/ mTempReceived
  /\ worker \in {"tellTemp", "clear"} => mTempReceived

\* The strengthening of ThermostatCurrent: a report that the thermostat has not
\* acted on is flagged, about to be flagged, or in the hands of the worker.
ReportAccounted ==
  /\ reported # NoTemperature => mRoomTemperature = reported
  /\ mTempReceived \/ tempChanged \/ caller = "flag" => reported # NoTemperature
  /\ worker \in {"tellTemp", "clear"} => tempChanged
  /\ HasThermostat =>
       \/ actedOn = reported
       \/ mTempReceived
       \/ caller = "flag"
       \/ /\ tempChanged
          /\ worker \in {"tellTemp", "clear", "dec", "thermostatSet", "thermostatTemp"}

SetPointAccounted ==
  /\ worker \in {"clampUp", "clampDown"} => setChanged
  /\ HasThermostat =>
       \/ mSetPoint = mSetTemperature
       \/ setChanged /\ worker \in Serving \cup {"thermostatSet"}

\* The strengthening of ExtremesAreHandled: decided with a set point in range, and
\* passed on except while the worker is about to.
HeaterAccounted ==
  /\ HasThermostat /\ actedOn # NoTemperature =>
       /\ actedOn < MinSetTemperature - HalfHysteresis => mHeaterOn
       /\ actedOn > MaxSetTemperature + HalfHysteresis => ~mHeaterOn
  /\ HasThermostat /\ ~mListener => caller \in {"stop", "stopWork", "join", "deleted"}
  /\ worker = "switch" => indicated = mHeaterOn
  /\ HasThermostat /\ mListener /\ worker \notin {"indicate", "switch"} =>
       relay = mHeaterOn /\ indicated = mHeaterOn

CallerInv == caller \in {"idle", "flag", "work", "stop"} => mWorkerThreadRunning

IInv == TypeOK /\ Accounted /\ SetPointBounds /\ ReportAccounted
          /\ SetPointAccounted /\ HeaterAccounted /\ CallerInv

-----------------------------------------------------------------------------

\* Each step of a call or of the worker keeps the types.
LEMMA TypeStep == TypeOK /\ Accounted /\ [Next]_vars => TypeOK'
<1> SUFFICES ASSUME TypeOK, Accounted, [Next]_vars PROVE TypeOK'
  OBVIOUS
<1> USE RoomAssumption DEF TypeOK, requests, values, room, thermostat, heater,
      client, outside, locals
<1>a. {"idle", "flag", "work", "stop", "stopWork", "join", "deleted"} \subseteq CallerStates
  BY DEF CallerStates
<1>b. {"loop", "wait", "park", "parked", "gate", "exited", "up", "clampUp", "tellUp",
       "down", "clampDown", "tellDown", "temp", "tellTemp", "clear", "dec",
       "thermostatSet", "thermostatTemp", "indicate", "switch"} \subseteq WorkerStates
  BY DEF WorkerStates, Waiting, Serving, Deciding
<1>1. CASE UNCHANGED vars
  BY <1>1 DEF vars
<1>2. CASE \E t \in Temperatures : roomTemperature(t)
  BY <1>a, <1>2 DEF Begin, roomTemperature
<1>3. CASE setPointUp
  BY <1>a, <1>3 DEF Begin, setPointUp
<1>4. CASE setPointDown
  BY <1>a, <1>4 DEF Begin, setPointDown
<1>5. CASE flagTemperature
  BY <1>a, <1>5 DEF Continue, flagTemperature
<1>6. CASE announceWork
  BY <1>a, <1>b, <1>6 DEF Continue, announceWork
<1>7. CASE enableMonitoring
  BY <1>7 DEF enableMonitoring
<1>8. CASE disableMonitoring
  BY <1>8, ZenonT(60) DEF disableMonitoring
<1>9. CASE unRegisterListener
  BY <1>a, <1>9, ZenonT(60) DEF Continue, unRegisterListener
<1>10. CASE stopWorkerThread
  BY <1>a, <1>10, ZenonT(60) DEF Continue, stopWorkerThread
<1>11. CASE join
  BY <1>a, <1>11 DEF Continue, join
<1>12. CASE loopHead
  BY <1>b, <1>12, ZenonT(60) DEF Go, loopHead
<1>13. CASE waitForWork
  BY <1>b, <1>13 DEF Go, waitForWork
<1>14. CASE gate
  BY <1>b, <1>14 DEF Go, gate
<1>15. CASE takeUp
  <2>1. mUpRequested' \in Nat /\ mSetTemperature' \in Int
    BY <1>15 DEF takeUp, UpsLeft
  <2>2. setChanged' \in BOOLEAN /\ worker' \in WorkerStates
    BY <1>b, <1>15 DEF Go, takeUp
  <2> QED
    BY <1>15, <2>1, <2>2 DEF Go, takeUp
<1>16. CASE takeDown
  <2>1. mDownRequested' \in Nat /\ mSetTemperature' \in Int
    BY <1>16 DEF takeDown
  <2>2. setChanged' \in BOOLEAN /\ worker' \in WorkerStates
    BY <1>b, <1>16 DEF Go, takeDown
  <2> QED
    BY <1>16, <2>1, <2>2 DEF Go, takeDown
<1>17. CASE clamp
  BY <1>b, <1>17 DEF Go, clamp, Clamped
<1>18. CASE tellSetPoint
  BY <1>b, <1>18 DEF Go, tellSetPoint, SetPointTold
<1>19. CASE takeTemperature
  <2>1. worker' \in WorkerStates
    BY <1>b, <1>19 DEF Go, takeTemperature
  <2>2. tempChanged' \in BOOLEAN /\ temperature' \in Int
    BY <1>19 DEF takeTemperature
  <2> QED
    BY <1>19, <2>1, <2>2 DEF Go, takeTemperature
<1>20. CASE tellTemperature
  BY <1>b, <1>20 DEF Go, tellTemperature
<1>21. CASE clearTempReceived
  BY <1>b, <1>21, ZenonT(60) DEF Go, clearTempReceived
<1>22. CASE workDone
  BY <1>b, <1>22 DEF Go, workDone, WorkLeft, Accounted, Serving
<1>23. CASE giveSetPoint
  BY <1>b, <1>23 DEF Go, giveSetPoint
<1>24. CASE giveTemperature
  <2>1. worker' \in WorkerStates
    BY <1>b, <1>24 DEF Go, giveTemperature
  <2>2. mHeaterOn' \in BOOLEAN
    BY <1>24 DEF giveTemperature, HeaterDemand
  <2>3. actedOn' \in Int \cup {NoTemperature}
    BY <1>24 DEF giveTemperature, TemperatureGiven
  <2> QED
    BY <1>24, <2>1, <2>2, <2>3 DEF Go, giveTemperature
<1>25. CASE indicateHeater
  BY <1>b, <1>25 DEF Go, indicateHeater
<1>26. CASE switchHeater
  BY <1>b, <1>26 DEF Go, switchHeater
<1> QED
  BY <1>1, <1>2, <1>3, <1>4, <1>5, <1>6, <1>7, <1>8, <1>9, <1>10, <1>11,
     <1>12, <1>13, <1>14, <1>15, <1>16, <1>17, <1>18, <1>19, <1>20, <1>21,
     <1>22, <1>23, <1>24, <1>25, <1>26 DEF Next, CallerNext, WorkerNext,
     Deleted

\* No step of a call or of the worker breaks the account.
LEMMA AccountedStep == TypeOK /\ Accounted /\ [Next]_vars => Accounted'
<1> SUFFICES ASSUME TypeOK, Accounted, [Next]_vars PROVE Accounted'
  OBVIOUS
<1> USE RoomAssumption DEF TypeOK, Accounted, Stored, Announced, Serving,
      requests, values, room, thermostat, heater, client, outside, locals
<1>1. CASE UNCHANGED vars
  BY <1>1 DEF vars
<1>2. ASSUME NEW t \in Temperatures, roomTemperature(t) PROVE Accounted'
  BY <1>2 DEF Begin, roomTemperature
<1>3. CASE setPointUp
  BY <1>3 DEF Begin, setPointUp
<1>4. CASE setPointDown
  BY <1>4 DEF Begin, setPointDown
<1>5. CASE flagTemperature
  BY <1>5 DEF Continue, flagTemperature
<1>6. CASE announceWork
  BY <1>6 DEF Continue, announceWork
<1>7. CASE enableMonitoring
  BY <1>7 DEF enableMonitoring
<1>8. CASE disableMonitoring
  BY <1>8 DEF disableMonitoring
<1>9. CASE unRegisterListener
  BY <1>9 DEF Continue, unRegisterListener
<1>10. CASE stopWorkerThread
  BY <1>10 DEF Continue, stopWorkerThread
<1>11. CASE join
  BY <1>11 DEF Continue, join
<1>12. CASE loopHead
  BY <1>12 DEF Go, loopHead
<1>13. CASE waitForWork
  BY <1>13 DEF Go, waitForWork
<1>14. CASE gate
  BY <1>14 DEF Go, gate
<1>15. CASE takeUp
  BY <1>15 DEF Go, takeUp, UpsLeft
<1>16. CASE takeDown
  BY <1>16 DEF Go, takeDown
<1>17. CASE clamp
  BY <1>17 DEF Go, clamp, Clamped
<1>18. CASE tellSetPoint
  BY <1>18 DEF Go, tellSetPoint
<1>19. CASE takeTemperature
  BY <1>19 DEF Go, takeTemperature
<1>20. CASE tellTemperature
  BY <1>20 DEF Go, tellTemperature
<1>21. CASE clearTempReceived
  BY <1>21 DEF Go, clearTempReceived
<1>22. CASE workDone
  BY <1>22 DEF Go, workDone, WorkLeft
<1>23. CASE giveSetPoint
  BY <1>23 DEF Go, giveSetPoint
<1>24. CASE giveTemperature
  BY <1>24 DEF Go, giveTemperature, TemperatureGiven
<1>25. CASE indicateHeater
  BY <1>25 DEF Go, indicateHeater
<1>26. CASE switchHeater
  BY <1>26 DEF Go, switchHeater
<1> QED
  BY <1>1, <1>2, <1>3, <1>4, <1>5, <1>6, <1>7, <1>8, <1>9, <1>10, <1>11,
     <1>12, <1>13, <1>14, <1>15, <1>16, <1>17, <1>18, <1>19, <1>20, <1>21,
     <1>22, <1>23, <1>24, <1>25, <1>26 DEF Next, CallerNext, WorkerNext,
     Deleted

\* The clamp follows every addition before the set point is used.
LEMMA SetPointStep == TypeOK /\ SetPointBounds /\ [Next]_vars => SetPointBounds'
<1> SUFFICES ASSUME TypeOK, SetPointBounds, [Next]_vars PROVE SetPointBounds'
  OBVIOUS
<1> USE RoomAssumption DEF TypeOK, SetPointBounds, requests, values, room,
      thermostat, heater, client, outside, locals
<1>1. CASE UNCHANGED vars
  BY <1>1 DEF vars
<1>2. ASSUME NEW t \in Temperatures, roomTemperature(t) PROVE SetPointBounds'
  BY <1>2 DEF Begin, roomTemperature
<1>3. CASE setPointUp
  BY <1>3 DEF Begin, setPointUp
<1>4. CASE setPointDown
  BY <1>4 DEF Begin, setPointDown
<1>5. CASE flagTemperature
  BY <1>5 DEF Continue, flagTemperature
<1>6. CASE announceWork
  BY <1>6 DEF Continue, announceWork
<1>7. CASE enableMonitoring
  BY <1>7 DEF enableMonitoring
<1>8. CASE disableMonitoring
  BY <1>8 DEF disableMonitoring
<1>9. CASE unRegisterListener
  BY <1>9 DEF Continue, unRegisterListener
<1>10. CASE stopWorkerThread
  BY <1>10 DEF Continue, stopWorkerThread
<1>11. CASE join
  BY <1>11 DEF Continue, join
<1>12. CASE loopHead
  BY <1>12 DEF Go, loopHead
<1>13. CASE waitForWork
  BY <1>13 DEF Go, waitForWork
<1>14. CASE gate
  BY <1>14 DEF Go, gate
<1>15. CASE takeUp
  BY <1>15 DEF Go, takeUp, UpsLeft
<1>16. CASE takeDown
  BY <1>16 DEF Go, takeDown
<1>17. CASE clamp
  BY <1>17 DEF Go, clamp, Clamped
<1>18. CASE tellSetPoint
  BY <1>18 DEF Go, tellSetPoint
<1>19. CASE takeTemperature
  BY <1>19 DEF Go, takeTemperature
<1>20. CASE tellTemperature
  BY <1>20 DEF Go, tellTemperature
<1>21. CASE clearTempReceived
  BY <1>21 DEF Go, clearTempReceived
<1>22. CASE workDone
  BY <1>22 DEF Go, workDone, WorkLeft
<1>23. CASE giveSetPoint
  BY <1>23 DEF Go, giveSetPoint
<1>24. CASE giveTemperature
  BY <1>24 DEF Go, giveTemperature, TemperatureGiven
<1>25. CASE indicateHeater
  BY <1>25 DEF Go, indicateHeater
<1>26. CASE switchHeater
  BY <1>26 DEF Go, switchHeater
<1> QED
  BY <1>1, <1>2, <1>3, <1>4, <1>5, <1>6, <1>7, <1>8, <1>9, <1>10, <1>11,
     <1>12, <1>13, <1>14, <1>15, <1>16, <1>17, <1>18, <1>19, <1>20, <1>21,
     <1>22, <1>23, <1>24, <1>25, <1>26 DEF Next, CallerNext, WorkerNext,
     Deleted

\* A report stays accounted for until the thermostat has it.
LEMMA ReportStep == TypeOK /\ Accounted /\ ReportAccounted /\ [Next]_vars => ReportAccounted'
<1> SUFFICES ASSUME TypeOK, Accounted, ReportAccounted, [Next]_vars PROVE ReportAccounted'
  OBVIOUS
<1> USE RoomAssumption DEF TypeOK, ReportAccounted, requests, values, room,
      thermostat, heater, client, outside, locals
<1>1. CASE UNCHANGED vars
  BY <1>1 DEF vars
<1>2. ASSUME NEW t \in Temperatures, roomTemperature(t) PROVE ReportAccounted'
  BY <1>2 DEF Begin, roomTemperature
<1>3. CASE setPointUp
  BY <1>3 DEF Begin, setPointUp
<1>4. CASE setPointDown
  BY <1>4 DEF Begin, setPointDown
<1>5. CASE flagTemperature
  BY <1>5 DEF Continue, flagTemperature
<1>6. CASE announceWork
  BY <1>6 DEF Continue, announceWork
<1>7. CASE enableMonitoring
  BY <1>7 DEF enableMonitoring
<1>8. CASE disableMonitoring
  BY <1>8 DEF disableMonitoring
<1>9. CASE unRegisterListener
  BY <1>9 DEF Continue, unRegisterListener
<1>10. CASE stopWorkerThread
  BY <1>10 DEF Continue, stopWorkerThread
<1>11. CASE join
  BY <1>11 DEF Continue, join
<1>12. CASE loopHead
  BY <1>12 DEF Go, loopHead
<1>13. CASE waitForWork
  BY <1>13 DEF Go, waitForWork
<1>14. CASE gate
  BY <1>14 DEF Go, gate
<1>15. CASE takeUp
  BY <1>15 DEF Go, takeUp, UpsLeft
<1>16. CASE takeDown
  BY <1>16 DEF Go, takeDown
<1>17. CASE clamp
  BY <1>17 DEF Go, clamp, Clamped
<1>18. CASE tellSetPoint
  BY <1>18 DEF Go, tellSetPoint
<1>19. CASE takeTemperature
  BY <1>19 DEF Go, takeTemperature
<1>20. CASE tellTemperature
  BY <1>20 DEF Go, tellTemperature
<1>21. CASE clearTempReceived
  BY <1>21 DEF Go, clearTempReceived
<1>22. CASE workDone
  BY <1>22 DEF Go, workDone, WorkLeft
<1>23. CASE giveSetPoint
  BY <1>23 DEF Go, giveSetPoint
<1>24. CASE giveTemperature
  BY <1>24 DEF Go, giveTemperature, TemperatureGiven
<1>25. CASE indicateHeater
  BY <1>25 DEF Go, indicateHeater
<1>26. CASE switchHeater
  BY <1>26 DEF Go, switchHeater
<1> QED
  BY <1>1, <1>2, <1>3, <1>4, <1>5, <1>6, <1>7, <1>8, <1>9, <1>10, <1>11,
     <1>12, <1>13, <1>14, <1>15, <1>16, <1>17, <1>18, <1>19, <1>20, <1>21,
     <1>22, <1>23, <1>24, <1>25, <1>26 DEF Next, CallerNext, WorkerNext,
     Deleted

\* A new set point stays accounted for until the thermostat has it.
LEMMA SetPointAccountedStep == TypeOK /\ SetPointAccounted /\ [Next]_vars => SetPointAccounted'
<1> SUFFICES ASSUME TypeOK, SetPointAccounted, [Next]_vars PROVE SetPointAccounted'
  OBVIOUS
<1> USE RoomAssumption DEF TypeOK, SetPointAccounted, Serving, requests,
      values, room, thermostat, heater, client, outside, locals
<1>1. CASE UNCHANGED vars
  BY <1>1 DEF vars
<1>2. ASSUME NEW t \in Temperatures, roomTemperature(t) PROVE SetPointAccounted'
  BY <1>2 DEF Begin, roomTemperature
<1>3. CASE setPointUp
  BY <1>3 DEF Begin, setPointUp
<1>4. CASE setPointDown
  BY <1>4 DEF Begin, setPointDown
<1>5. CASE flagTemperature
  BY <1>5 DEF Continue, flagTemperature
<1>6. CASE announceWork
  BY <1>6 DEF Continue, announceWork
<1>7. CASE enableMonitoring
  BY <1>7 DEF enableMonitoring
<1>8. CASE disableMonitoring
  BY <1>8 DEF disableMonitoring
<1>9. CASE unRegisterListener
  BY <1>9 DEF Continue, unRegisterListener
<1>10. CASE stopWorkerThread
  BY <1>10 DEF Continue, stopWorkerThread
<1>11. CASE join
  BY <1>11 DEF Continue, join
<1>12. CASE loopHead
  BY <1>12 DEF Go, loopHead
<1>13. CASE waitForWork
  BY <1>13 DEF Go, waitForWork
<1>14. CASE gate
  BY <1>14 DEF Go, gate
<1>15. CASE takeUp
  BY <1>15 DEF Go, takeUp, UpsLeft
<1>16. CASE takeDown
  BY <1>16 DEF Go, takeDown
<1>17. CASE clamp
  BY <1>17 DEF Go, clamp, Clamped
<1>18. CASE tellSetPoint
  BY <1>18 DEF Go, tellSetPoint
<1>19. CASE takeTemperature
  BY <1>19 DEF Go, takeTemperature
<1>20. CASE tellTemperature
  BY <1>20 DEF Go, tellTemperature
<1>21. CASE clearTempReceived
  BY <1>21 DEF Go, clearTempReceived
<1>22. CASE workDone
  BY <1>22 DEF Go, workDone, WorkLeft
<1>23. CASE giveSetPoint
  BY <1>23 DEF Go, giveSetPoint
<1>24. CASE giveTemperature
  BY <1>24 DEF Go, giveTemperature, TemperatureGiven
<1>25. CASE indicateHeater
  BY <1>25 DEF Go, indicateHeater
<1>26. CASE switchHeater
  BY <1>26 DEF Go, switchHeater
<1> QED
  BY <1>1, <1>2, <1>3, <1>4, <1>5, <1>6, <1>7, <1>8, <1>9, <1>10, <1>11,
     <1>12, <1>13, <1>14, <1>15, <1>16, <1>17, <1>18, <1>19, <1>20, <1>21,
     <1>22, <1>23, <1>24, <1>25, <1>26 DEF Next, CallerNext, WorkerNext,
     Deleted

\* A call runs only while the worker may still serve it.
LEMMA CallerStep == TypeOK /\ CallerInv /\ [Next]_vars => CallerInv'
<1> SUFFICES ASSUME TypeOK, CallerInv, [Next]_vars PROVE CallerInv'
  OBVIOUS
<1> USE RoomAssumption DEF TypeOK, CallerInv, requests, values, room,
      thermostat, heater, client, outside, locals
<1>1. CASE UNCHANGED vars
  BY <1>1 DEF vars
<1>2. ASSUME NEW t \in Temperatures, roomTemperature(t) PROVE CallerInv'
  BY <1>2 DEF Begin, roomTemperature
<1>3. CASE setPointUp
  BY <1>3 DEF Begin, setPointUp
<1>4. CASE setPointDown
  BY <1>4 DEF Begin, setPointDown
<1>5. CASE flagTemperature
  BY <1>5 DEF Continue, flagTemperature
<1>6. CASE announceWork
  BY <1>6 DEF Continue, announceWork
<1>7. CASE enableMonitoring
  BY <1>7 DEF enableMonitoring
<1>8. CASE disableMonitoring
  BY <1>8 DEF disableMonitoring
<1>9. CASE unRegisterListener
  BY <1>9 DEF Continue, unRegisterListener
<1>10. CASE stopWorkerThread
  BY <1>10 DEF Continue, stopWorkerThread
<1>11. CASE join
  BY <1>11 DEF Continue, join
<1>12. CASE loopHead
  BY <1>12 DEF Go, loopHead
<1>13. CASE waitForWork
  BY <1>13 DEF Go, waitForWork
<1>14. CASE gate
  BY <1>14 DEF Go, gate
<1>15. CASE takeUp
  BY <1>15 DEF Go, takeUp, UpsLeft
<1>16. CASE takeDown
  BY <1>16 DEF Go, takeDown
<1>17. CASE clamp
  BY <1>17 DEF Go, clamp, Clamped
<1>18. CASE tellSetPoint
  BY <1>18 DEF Go, tellSetPoint
<1>19. CASE takeTemperature
  BY <1>19 DEF Go, takeTemperature
<1>20. CASE tellTemperature
  BY <1>20 DEF Go, tellTemperature
<1>21. CASE clearTempReceived
  BY <1>21 DEF Go, clearTempReceived
<1>22. CASE workDone
  BY <1>22 DEF Go, workDone, WorkLeft
<1>23. CASE giveSetPoint
  BY <1>23 DEF Go, giveSetPoint
<1>24. CASE giveTemperature
  BY <1>24 DEF Go, giveTemperature, TemperatureGiven
<1>25. CASE indicateHeater
  BY <1>25 DEF Go, indicateHeater
<1>26. CASE switchHeater
  BY <1>26 DEF Go, switchHeater
<1> QED
  BY <1>1, <1>2, <1>3, <1>4, <1>5, <1>6, <1>7, <1>8, <1>9, <1>10, <1>11,
     <1>12, <1>13, <1>14, <1>15, <1>16, <1>17, <1>18, <1>19, <1>20, <1>21,
     <1>22, <1>23, <1>24, <1>25, <1>26 DEF Next, CallerNext, WorkerNext,
     Deleted

\* A decision is made within range and reaches the sensors and the relay.
LEMMA HeaterStep == TypeOK /\ SetPointBounds /\ HeaterAccounted /\ [Next]_vars => HeaterAccounted'
<1> SUFFICES ASSUME TypeOK, SetPointBounds, HeaterAccounted, [Next]_vars PROVE HeaterAccounted'
  OBVIOUS
<1> USE RoomAssumption DEF TypeOK, HeaterAccounted, requests, values, room,
      thermostat, heater, client, outside, locals
<1>1. CASE UNCHANGED vars
  BY <1>1 DEF vars
<1>2. ASSUME NEW t \in Temperatures, roomTemperature(t) PROVE HeaterAccounted'
  BY <1>2 DEF Begin, roomTemperature
<1>3. CASE setPointUp
  BY <1>3 DEF Begin, setPointUp
<1>4. CASE setPointDown
  BY <1>4 DEF Begin, setPointDown
<1>5. CASE flagTemperature
  BY <1>5 DEF Continue, flagTemperature
<1>6. CASE announceWork
  BY <1>6 DEF Continue, announceWork
<1>7. CASE enableMonitoring
  BY <1>7 DEF enableMonitoring
<1>8. CASE disableMonitoring
  BY <1>8 DEF disableMonitoring
<1>9. CASE unRegisterListener
  BY <1>9 DEF Continue, unRegisterListener
<1>10. CASE stopWorkerThread
  BY <1>10 DEF Continue, stopWorkerThread
<1>11. CASE join
  BY <1>11 DEF Continue, join
<1>12. CASE loopHead
  BY <1>12 DEF Go, loopHead
<1>13. CASE waitForWork
  BY <1>13 DEF Go, waitForWork
<1>14. CASE gate
  BY <1>14 DEF Go, gate
<1>15. CASE takeUp
  BY <1>15 DEF Go, takeUp, UpsLeft
<1>16. CASE takeDown
  BY <1>16 DEF Go, takeDown
<1>17. CASE clamp
  BY <1>17 DEF Go, clamp, Clamped
<1>18. CASE tellSetPoint
  BY <1>18 DEF Go, tellSetPoint
<1>19. CASE takeTemperature
  BY <1>19 DEF Go, takeTemperature
<1>20. CASE tellTemperature
  BY <1>20 DEF Go, tellTemperature
<1>21. CASE clearTempReceived
  BY <1>21 DEF Go, clearTempReceived
<1>22. CASE workDone
  BY <1>22 DEF Go, workDone, WorkLeft
<1>23. CASE giveSetPoint
  BY <1>23 DEF Go, giveSetPoint
<1>24. CASE giveTemperature
  <2>1. CASE worker' = "loop"
    BY <1>24, <2>1 DEF Go, giveTemperature
  <2>2. CASE worker' # "loop"
    <3>1. /\ worker = "thermostatTemp" /\ worker' = "indicate" /\ actedOn' = mRoomTemperature
          /\ mHeaterOn' = HeaterDemand(mHeaterOn, mRoomTemperature, mSetPoint)
          /\ UNCHANGED <<caller, mListener>>
      BY <1>24, <2>2 DEF Go, giveTemperature, TemperatureGiven
    <3>2. actedOn' < MinSetTemperature - HalfHysteresis => mHeaterOn' = TRUE
      BY <3>1 DEF HeaterDemand, SetPointBounds
    <3>3. actedOn' > MaxSetTemperature + HalfHysteresis => mHeaterOn' = FALSE
      BY <3>1 DEF HeaterDemand, SetPointBounds
    <3> QED
      BY <3>1, <3>2, <3>3
  <2> QED
    BY <2>1, <2>2
<1>25. CASE indicateHeater
  BY <1>25 DEF Go, indicateHeater
<1>26. CASE switchHeater
  BY <1>26 DEF Go, switchHeater
<1> QED
  BY <1>1, <1>2, <1>3, <1>4, <1>5, <1>6, <1>7, <1>8, <1>9, <1>10, <1>11,
     <1>12, <1>13, <1>14, <1>15, <1>16, <1>17, <1>18, <1>19, <1>20, <1>21,
     <1>22, <1>23, <1>24, <1>25, <1>26 DEF Next, CallerNext, WorkerNext,
     Deleted

-----------------------------------------------------------------------------

\* The strengthening is inductive.
LEMMA Invariance == Spec => []IInv
<1>1. Init => IInv
  <2> SUFFICES ASSUME Init PROVE IInv
    OBVIOUS
  <2> USE RoomAssumption DEF Init
  <2>1. caller \in CallerStates /\ worker \in WorkerStates
    BY DEF CallerStates, WorkerStates
  <2>2. TypeOK
    <3>1. /\ mUpRequested \in Nat /\ mDownRequested \in Nat /\ mWorkReceived \in Nat
          /\ calls \in Nat
      OBVIOUS
    <3>2. /\ mRoomTemperature \in Int /\ mSetTemperature \in Int /\ temperature \in Int
          /\ mSetPoint \in Int /\ shownTemperature \in Int /\ shownSetTemperature \in Int
      OBVIOUS
    <3> QED
      BY <2>1, <3>1, <3>2, Zenon DEF TypeOK
  <2>3. Accounted
    BY DEF Accounted, Stored, Announced, Serving
  <2>4. SetPointBounds /\ ReportAccounted /\ SetPointAccounted /\ CallerInv
    BY DEF SetPointBounds, ReportAccounted, SetPointAccounted, CallerInv
  <2>5. HeaterAccounted
    BY DEF HeaterAccounted
  <2> QED
    BY <2>2, <2>3, <2>4, <2>5 DEF IInv
<1>2. IInv /\ [Next]_vars => IInv'
  BY TypeStep, AccountedStep, SetPointStep, ReportStep, SetPointAccountedStep, HeaterStep,
     CallerStep DEF IInv
<1> QED
  BY <1>1, <1>2, PTL DEF Spec

\* The counters of RoomControl stay natural numbers, the temperatures integers.
THEOREM TypeCorrect == Spec => []TypeOK
BY Invariance, PTL DEF IInv

\* A request is never stored without an announcement that the worker will find.
THEOREM RequestsNotStranded == Spec => []NoStrandedRequest
<1>1. IInv => NoStrandedRequest
  BY DEF IInv, TypeOK, Accounted, Stored, Announced, NoStrandedRequest
<1> QED
  BY <1>1, Invariance, PTL

\* The set point is out of its range only between an addition and its clamp.
THEOREM SetPointInRange == Spec => []SetPointBounds
BY Invariance, PTL DEF IInv

\* When nothing is left to do, the thermostat has the last report and set point.
THEOREM ThermostatIsCurrent == Spec => []ThermostatCurrent
<1>1. IInv => ThermostatCurrent
  <2> SUFFICES ASSUME IInv, Idle, HasThermostat
               PROVE  mSetPoint = mSetTemperature /\ actedOn = reported
    BY DEF ThermostatCurrent
  <2>1. ~mTempReceived /\ caller = "idle" /\ worker \in {"wait", "park", "parked"}
    BY DEF IInv, TypeOK, Accounted, Stored, Announced, Idle, Waiting
  <2>2. actedOn = reported
    BY <2>1 DEF IInv, ReportAccounted
  <2>3. mSetPoint = mSetTemperature
    BY <2>1 DEF IInv, SetPointAccounted, Serving
  <2> QED
    BY <2>2, <2>3
<1> QED
  BY <1>1, Invariance, PTL

\* An idle room heats when it is colder than every set point it can have and
\* does not when it is warmer, and its relay and sensors agree.
THEOREM ExtremesHandled == Spec => []ExtremesAreHandled
<1>1. IInv => ExtremesAreHandled
  BY DEF IInv, HeaterAccounted, ExtremesAreHandled, Idle, Waiting
<1> QED
  BY <1>1, Invariance, PTL

-----------------------------------------------------------------------------

\* Every step of the threads is a step HeatedRoom allows, or is hidden from it.
LEMMA PromiseStep == IInv /\ [Next]_vars => [Promise!Next]_(Promise!vars)
<1> SUFFICES ASSUME IInv, [Next]_vars PROVE [Promise!Next]_(Promise!vars)
  OBVIOUS
<1> USE RoomAssumption DEF IInv, TypeOK, requests, values, room, thermostat, heater,
      client, outside, locals
<1>1. CASE UNCHANGED vars
  BY <1>1 DEF vars, Promise!vars
<1>2. ASSUME NEW t \in Temperatures, roomTemperature(t) PROVE Promise!Report(t)
  BY <1>2 DEF Begin, roomTemperature, CallerInv, Promise!Report
<1>3. CASE setPointUp
  BY <1>3 DEF Begin, setPointUp, CallerInv, Promise!Press, Promise!Next
<1>4. CASE setPointDown
  BY <1>4 DEF Begin, setPointDown, CallerInv, Promise!Press, Promise!Next
<1>5. CASE flagTemperature
  BY <1>5 DEF Continue, flagTemperature, Promise!vars
<1>6. CASE announceWork
  BY <1>6 DEF Continue, announceWork, Promise!vars
<1>7. CASE enableMonitoring
  BY <1>7 DEF enableMonitoring, Promise!vars
<1>8. CASE disableMonitoring
  BY <1>8 DEF disableMonitoring, Promise!vars
<1>9. CASE unRegisterListener
  BY <1>9 DEF Continue, unRegisterListener, Promise!vars
<1>10. CASE stopWorkerThread
  BY <1>10 DEF Continue, stopWorkerThread, CallerInv, Promise!Close, Promise!Next
<1>11. CASE join
  BY <1>11 DEF Continue, join, Promise!vars
<1>12. CASE loopHead
  BY <1>12 DEF Go, loopHead, Promise!vars
<1>13. CASE waitForWork
  BY <1>13 DEF Go, waitForWork, Promise!vars
<1>14. CASE gate
  BY <1>14 DEF Go, gate, Promise!vars
<1>15. CASE takeUp
  <2>1. CASE mUpRequested = 0
    BY <1>15, <2>1 DEF Go, takeUp, Promise!vars
  <2>2. CASE mUpRequested > 0
    <3>1. /\ worker = "up" /\ worker' = "clampUp" /\ mUpRequested' = mUpRequested - 1
          /\ mSetTemperature' = mSetTemperature + SetTempDelta
          /\ UNCHANGED <<mDownRequested, mWorkerThreadRunning, reported, thermostat, heater>>
      BY <1>15, <2>2 DEF Go, takeUp, UpsLeft
    <3>2. Clamped(mSetTemperature + SetTempDelta)
            = IF mSetTemperature + SetTempDelta > MaxSetTemperature
              THEN MaxSetTemperature ELSE mSetTemperature + SetTempDelta
      BY <3>1 DEF SetPointBounds, Clamped
    <3>3. Promise!ApplyUp
      BY <2>2, <3>1, <3>2 DEF Promise!ApplyUp
    <3> QED
      BY <3>3 DEF Promise!Next
  <2> QED
    BY <2>1, <2>2
<1>16. CASE takeDown
  <2>1. CASE mDownRequested = 0
    BY <1>16, <2>1 DEF Go, takeDown, Promise!vars
  <2>2. CASE mDownRequested > 0
    <3>1. /\ worker = "down" /\ worker' = "clampDown" /\ mDownRequested' = mDownRequested - 1
          /\ mSetTemperature' = mSetTemperature - SetTempDelta
          /\ UNCHANGED <<mUpRequested, mWorkerThreadRunning, reported, thermostat, heater>>
      BY <1>16, <2>2 DEF Go, takeDown
    <3>2. Clamped(mSetTemperature - SetTempDelta)
            = IF mSetTemperature - SetTempDelta < MinSetTemperature
              THEN MinSetTemperature ELSE mSetTemperature - SetTempDelta
      BY <3>1 DEF SetPointBounds, Clamped
    <3>3. Promise!ApplyDown
      BY <2>2, <3>1, <3>2 DEF Promise!ApplyDown
    <3> QED
      BY <3>3 DEF Promise!Next
  <2> QED
    BY <2>1, <2>2
<1>17. CASE clamp
  BY <1>17 DEF Go, clamp, Promise!vars
<1>18. CASE tellSetPoint
  BY <1>18 DEF Go, tellSetPoint, Promise!vars
<1>19. CASE takeTemperature
  BY <1>19 DEF Go, takeTemperature, Promise!vars
<1>20. CASE tellTemperature
  BY <1>20 DEF Go, tellTemperature, Promise!vars
<1>21. CASE clearTempReceived
  BY <1>21 DEF Go, clearTempReceived, Promise!vars
<1>22. CASE workDone
  BY <1>22 DEF Go, workDone, Promise!vars
<1>23. CASE giveSetPoint
  BY <1>23 DEF Go, giveSetPoint, Promise!Follow, Promise!Next, Promise!vars
<1>24. CASE giveTemperature
  BY <1>24 DEF Go, giveTemperature, TemperatureGiven, HeaterDemand, ReportAccounted,
       Promise!Decide, Promise!Next, Promise!vars
<1>25. CASE indicateHeater
  BY <1>25 DEF Go, indicateHeater, Promise!vars
<1>26. CASE switchHeater
  BY <1>26 DEF Go, switchHeater, Promise!Switch, Promise!Next
<1> QED
  BY <1>1, <1>2, <1>3, <1>4, <1>5, <1>6, <1>7, <1>8, <1>9, <1>10, <1>11, <1>12,
     <1>13, <1>14, <1>15, <1>16, <1>17, <1>18, <1>19, <1>20, <1>21, <1>22, <1>23,
     <1>24, <1>25, <1>26 DEF Next, CallerNext, WorkerNext, Deleted, Promise!Next

\* The worker and its callers, however they interleave, implement the room that
\* HeatedRoom describes: no press is lost, doubled or applied unclamped, and the
\* heater is never decided from a report that a newer one has replaced.
THEOREM RoomImplementsHeatedRoom == Spec => ImplementsHeatedRoom
<1>1. Init => Promise!Init
  BY DEF Init, Promise!Init
<1>2. IInv /\ [Next]_vars => [Promise!Next]_(Promise!vars)
  BY PromiseStep
<1> QED
  BY <1>1, <1>2, Invariance, PTL DEF Spec, ImplementsHeatedRoom, Promise!Spec
-----------------------------------------------------------------------------

\* The strengthening of ClientShowsSetPoint: while the client does not show the set
\* point, the worker is on its way to tell it, or the client has gone.
Told ==
  monitoring => \/ shownSetTemperature = mSetTemperature
                \/ worker \in {"clampUp", "tellUp", "clampDown", "tellDown"}

\* Every step keeps the client told, or the worker on its way to tell it.
LEMMA ToldStep == Told /\ [Next]_vars => Told'
<1> SUFFICES ASSUME Told, [Next]_vars PROVE Told'
  OBVIOUS
<1> USE DEF Told, requests, values, room, thermostat, heater, client, outside, locals
<1>1. CASE UNCHANGED vars
  BY <1>1 DEF vars
<1>2. CASE CallerNext
  <2>1. CASE enableMonitoring
    BY <2>1 DEF enableMonitoring
  <2>2. CASE disableMonitoring
    BY <2>2 DEF disableMonitoring
  <2>3. CASE announceWork
    BY <2>3 DEF announceWork, Continue
  <2>4. CASE (\E t \in Temperatures : roomTemperature(t)) \/ setPointUp \/ setPointDown
    BY <2>4 DEF roomTemperature, setPointUp, setPointDown, Begin
  <2>5. CASE flagTemperature \/ unRegisterListener \/ stopWorkerThread \/ join
    BY <2>5 DEF flagTemperature, unRegisterListener, stopWorkerThread, join, Continue
  <2> QED
    BY <1>2, <2>1, <2>2, <2>3, <2>4, <2>5 DEF CallerNext
<1>3. CASE WorkerNext
  <2>1. CASE takeUp \/ takeDown
    BY <2>1 DEF takeUp, takeDown, Go
  <2>2. CASE clamp
    BY <2>2 DEF clamp, Go
  <2>3. CASE tellSetPoint
    BY <2>3 DEF tellSetPoint, SetPointTold, Go
  <2>4. CASE loopHead \/ waitForWork \/ gate
    BY <2>4 DEF loopHead, waitForWork, gate, Go
  <2>5. CASE takeTemperature \/ tellTemperature \/ clearTempReceived \/ workDone
    BY <2>5 DEF takeTemperature, tellTemperature, clearTempReceived, workDone, Go
  <2>6. CASE giveSetPoint \/ giveTemperature \/ indicateHeater \/ switchHeater
    BY <2>6 DEF giveSetPoint, giveTemperature, indicateHeater, switchHeater, Go
  <2> QED
    BY <1>3, <2>1, <2>2, <2>3, <2>4, <2>5, <2>6 DEF WorkerNext
<1>4. CASE Deleted
  BY <1>4 DEF Deleted, vars
<1> QED
  BY <1>1, <1>2, <1>3, <1>4 DEF Next

\* Whenever a client joins, between which steps of a change it may be, an idle room
\* has sent it the set point that holds (CommRouter.cpp, sendRooms).
THEOREM ClientIsTold == Spec => []ClientShowsSetPoint
<1>1. Init => Told
  BY DEF Init, Told
<1>2. Told => ClientShowsSetPoint
  BY DEF Told, ClientShowsSetPoint, Idle, Waiting
<1> QED
  BY <1>1, <1>2, ToldStep, PTL DEF Spec

-----------------------------------------------------------------------------
(* What follows from HeatedRoom alone.                                     *)

\* The set point as HeatedRoom sees it.
Shown == IF worker \in {"clampUp", "clampDown"} THEN Clamped(mSetTemperature)
         ELSE mSetTemperature

\* The heater is on at no temperature that is above every set point's band, and
\* off at none that is below it.
Comfort ==
  actedOn # NoTemperature =>
    /\ mHeaterOn => actedOn <= MaxSetTemperature + HalfHysteresis
    /\ ~mHeaterOn => actedOn >= MinSetTemperature - HalfHysteresis

\* The strengthening of Comfort: both set points are in range.
InComfort ==
  /\ Shown \in MinSetTemperature..MaxSetTemperature
  /\ mSetPoint \in MinSetTemperature..MaxSetTemperature
  /\ {reported, actedOn} \subseteq Temperatures \cup {NoTemperature}
  /\ mHeaterOn \in BOOLEAN /\ Comfort

\* Within the band the heater stays as it is.
LEMMA ComfortStep == InComfort /\ [Promise!Next]_(Promise!vars) => InComfort'
<1>. SUFFICES ASSUME InComfort, [Promise!Next]_(Promise!vars) PROVE InComfort'
  OBVIOUS
<1>. USE RoomAssumption DEF InComfort, Comfort
<1>1. CASE Promise!Press BY <1>1 DEF Promise!Press, Shown
<1>2. ASSUME NEW t \in Temperatures, Promise!Report(t) PROVE InComfort'
  BY <1>2 DEF Promise!Report, Shown
<1>3. CASE Promise!ApplyUp
  <2>1. /\ Shown' = IF Shown + SetTempDelta > MaxSetTemperature
                    THEN MaxSetTemperature ELSE Shown + SetTempDelta
        /\ UNCHANGED <<reported, mSetPoint, actedOn, mHeaterOn>>
    BY <1>3 DEF Promise!ApplyUp, Shown
  <2>2. Shown' \in MinSetTemperature..MaxSetTemperature BY <2>1
  <2>. QED BY <2>1, <2>2
<1>4. CASE Promise!ApplyDown
  <2>1. /\ Shown' = IF Shown - SetTempDelta < MinSetTemperature
                    THEN MinSetTemperature ELSE Shown - SetTempDelta
        /\ UNCHANGED <<reported, mSetPoint, actedOn, mHeaterOn>>
    BY <1>4 DEF Promise!ApplyDown, Shown
  <2>2. Shown' \in MinSetTemperature..MaxSetTemperature BY <2>1
  <2>. QED BY <2>1, <2>2
<1>5. CASE Promise!Follow BY <1>5 DEF Promise!Follow, Shown
<1>6. CASE Promise!Decide
  <2>1. /\ reported # NoTemperature /\ actedOn' = reported
        /\ mHeaterOn' = IF reported > mSetPoint + HalfHysteresis THEN FALSE
                        ELSE IF reported < mSetPoint - HalfHysteresis THEN TRUE ELSE mHeaterOn
        /\ Shown' = Shown /\ UNCHANGED <<reported, mSetPoint>>
    BY <1>6 DEF Promise!Decide, Shown
  <2>2. reported \in Int /\ mSetPoint \in Int
    <3>1. reported \in Temperatures BY <2>1
    <3>. QED BY <3>1
  <2>3. mHeaterOn' \in BOOLEAN BY <2>1
  <2>4. mHeaterOn' => reported <= mSetPoint + HalfHysteresis
    <3>1. reported > mSetPoint + HalfHysteresis => ~mHeaterOn' BY <2>1
    <3>. QED BY <2>2, <3>1
  <2>5. ~mHeaterOn' => reported >= mSetPoint - HalfHysteresis
    <3>1. reported < mSetPoint - HalfHysteresis => mHeaterOn' BY <2>1, <2>2
    <3>. QED BY <2>2, <3>1
  <2>6. Comfort' BY <2>1, <2>2, <2>4, <2>5
  <2>. QED BY <2>1, <2>3, <2>6
<1>7. CASE Promise!Switch BY <1>7 DEF Promise!Switch, Shown
<1>8. CASE Promise!Close BY <1>8 DEF Promise!Close, Shown
<1>9. CASE UNCHANGED Promise!vars BY <1>9 DEF Promise!vars, Shown
<1>. QED BY <1>1, <1>2, <1>3, <1>4, <1>5, <1>6, <1>7, <1>8, <1>9 DEF Promise!Next

\* A room that keeps HeatedRoom's promise, as RoomControl does, heats at no
\* temperature above the highest set point and its hysteresis, and leaves out
\* none below the lowest, whatever is pressed and reported and at every moment
\* of it (RoomControl.cpp, TwoPointThermostat.cpp).
THEOREM HeatedRoomIsComfortable == Promise!Spec => []Comfort
<1>1. Promise!Init => InComfort
  BY RoomAssumption DEF Promise!Init, InComfort, Comfort, Shown
<1>2. InComfort => Comfort BY DEF InComfort
<1>. QED BY <1>1, <1>2, ComfortStep, PTL DEF Promise!Spec

=============================================================================
