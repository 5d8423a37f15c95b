----------------------------- MODULE Mainboard ------------------------------
(***************************************************************************)
(* From the server to the relays: HeaterControl, RelaisDriver, WatchDog    *)
(* and I2C on the Raspberry, and the sketch MainboardControl on the board. *)
(*                                                                         *)
(* Every room's worker thread writes to the bus, one frame at a time under *)
(* I2C::mBusMutex.  The board's interrupt handler puts the frame into the  *)
(* only buffer there is; loop() looks at it once a second, counts every    *)
(* counter down and drives the pins: a relay stays on only as long as      *)
(* somebody keeps asking for it.  The interrupt handler shares nothing but *)
(* the buffer and its flag with loop(), which reads both with interrupts   *)
(* off, so a pass of loop() is one step.                                   *)
(***************************************************************************)
EXTENDS Integers

CONSTANTS
  HeaterOutputs,      \* the outputs the rooms are configured with
  Timeout,            \* RelaisDriver::mWaitTimeSeconds
  WatchDogTime,       \* WatchDog::mWatchDogTimeSeconds
  HasWatchDog,        \* whether the server creates a WatchDog
  LossyBus,           \* whether a write to the bus may fail
  Garbage             \* what a corrupted frame may read, its crc aside

Byte == 0..255

\* The commands of a frame: '0'..'7', 'w' and 'W'.
RelaisId(o)   == 48 + o
WD_CMD        == 119
WD_ENABLE_CMD == 87

\* heaterIdToRelaisId has no character for an output above 8, and
\* checkRelaisId refuses '8'.
Accepted(o) == o \in 0..8 /\ RelaisId(o) \in 48..55

WD        == 8
Relays    == {o \in HeaterOutputs : Accepted(o)}
Positions == Relays \cup {WD}
Frame     == [cmd : Byte, value : Byte]

ASSUME MainboardAssumption ==
  /\ HeaterOutputs \subseteq Byte
  /\ Timeout \in Byte \ {0} /\ WatchDogTime \in Byte \ {0}
  /\ HasWatchDog \in BOOLEAN /\ LossyBus \in BOOLEAN
  /\ Garbage \subseteq Frame

VARIABLES
  serverUp, watchDog,                   \* the Raspberry
  receiveBuffer, commandReceived,       \* shared by interrupt and loop
  counters, watchdogEnabled, pin,       \* the board
  raspberryReset,                       \* the board has pulsed PIN_WD
  request,                              \* the last command for each relay
  sinceOn                               \* passes of loop since it was "on"

slot    == <<receiveBuffer, commandReceived>>
board   == <<counters, watchdogEnabled, pin, raspberryReset>>
history == <<request, sinceOn>>
vars    == <<serverUp, watchDog, slot, board, history>>

NoFrame == [cmd |-> 0, value |-> 0]

Init ==
  /\ serverUp = TRUE /\ watchDog = "none"
  /\ receiveBuffer = NoFrame /\ commandReceived = FALSE
  /\ counters = [p \in Positions |-> 0]
  /\ watchdogEnabled = FALSE /\ pin = [r \in Relays |-> FALSE]
  /\ raspberryReset = FALSE
  /\ request = [r \in Relays |-> "off"]
  /\ sinceOn = [r \in Relays |-> Timeout + 1]

-----------------------------------------------------------------------------
(* The bus.                                                                *)

\* A frame with a good crc raises the flag, over one that still waits there.
receiveEvent(f) == receiveBuffer' = f /\ commandReceived' = TRUE

\* A frame with a bad crc is refused, after it has been read into the buffer.
receiveInvalid(g) == receiveBuffer' = g /\ UNCHANGED commandReceived

\* I2C::writeData; nobody looks at the result, so a frame can get lost.  An open that
\* fails throws a string that nobody catches, before anything is written (I2C.cpp:68-75):
\* that is serverStops in place of the write.
writeData(f) ==
  /\ serverUp
  /\ \/ receiveEvent(f)
     \/ \E g \in Garbage : receiveInvalid(g)
     \/ LossyBus /\ UNCHANGED slot
  /\ UNCHANGED <<serverUp, board>>

-----------------------------------------------------------------------------
(* The Raspberry.                                                          *)

heaterOn(o) ==
  /\ Accepted(o)
  /\ writeData([cmd |-> RelaisId(o), value |-> Timeout])
  /\ request' = [request EXCEPT ![o] = "on"]
  /\ sinceOn' = [sinceOn EXCEPT ![o] = 0]
  /\ UNCHANGED watchDog

heaterOff(o) ==
  /\ Accepted(o)
  /\ writeData([cmd |-> RelaisId(o), value |-> 0])
  /\ request' = [request EXCEPT ![o] = "off"]
  /\ UNCHANGED <<watchDog, sinceOn>>

feed(from, to) ==
  /\ watchDog = from /\ watchDog' = to
  /\ writeData([cmd |-> WD_CMD, value |-> WatchDogTime])
  /\ UNCHANGED history

DISABLE_WATCHDOG == 1

switchWatchDog(from, to, value) ==
  /\ watchDog = from /\ watchDog' = to
  /\ writeData([cmd |-> WD_ENABLE_CMD, value |-> value])
  /\ UNCHANGED history

\* The constructor feeds, sleeps half a second, and enables.
newWatchDog    == HasWatchDog /\ feed("none", "fed")
enableWatchDog == switchWatchDog("fed", "enabled", 1)
feedWatchDog   == feed("enabled", "enabled")
deleteWatchDog == switchWatchDog("enabled", "deleted", DISABLE_WATCHDOG)

\* The server ends, or hangs, without its destructors having run.
serverStops ==
  /\ serverUp /\ serverUp' = FALSE
  /\ UNCHANGED <<watchDog, slot, board, history>>

serverStarts ==
  /\ ~serverUp /\ serverUp' = TRUE
  /\ watchDog' = "none" /\ raspberryReset' = FALSE
  /\ UNCHANGED <<slot, counters, watchdogEnabled, pin, history>>

-----------------------------------------------------------------------------
(* The board.                                                              *)

Counted_Never(n) == n
Counted_Signed(n) == n - 1
Counted_Wraps(n) == (n - 1) % 256
Counted(n) == IF n > 0 THEN n - 1 ELSE n

Position_OneOff(cmd) == IF cmd = WD_CMD THEN WD ELSE cmd - RelaisId(1)
Position(cmd) == IF cmd = WD_CMD THEN WD ELSE cmd - RelaisId(0)

\* processReceived, on counters that loop has counted down already.
Processed(cmd, value, count) ==
  [p \in Positions |-> IF p = Position(cmd) THEN value ELSE count[p]]

Starved_Off(count, enabled) == FALSE
Starved(count, enabled) == enabled /\ count[WD] = 0

loop ==
  LET count   == [p \in Positions |-> Counted(counters[p])]
      cmd     == receiveBuffer.cmd
      value   == receiveBuffer.value
      enabled == IF commandReceived /\ cmd = WD_ENABLE_CMD THEN value > 0
                 ELSE watchdogEnabled
  IN /\ counters' = IF commandReceived THEN Processed(cmd, value, count) ELSE count
     /\ commandReceived' = FALSE /\ UNCHANGED receiveBuffer
     /\ pin' = [r \in Relays |-> counters'[r] > 0]
     /\ watchdogEnabled' = (enabled /\ ~Starved(counters', enabled))
     /\ raspberryReset' = (raspberryReset \/ Starved(counters', enabled))
     /\ serverUp' = (serverUp /\ ~Starved(counters', enabled))
     /\ sinceOn' = [r \in Relays |->
                      IF sinceOn[r] > Timeout THEN sinceOn[r] ELSE sinceOn[r] + 1]
     /\ UNCHANGED <<watchDog, request>>

\* The board loses its power for a moment.
setup ==
  /\ receiveBuffer' = NoFrame /\ commandReceived' = FALSE
  /\ counters' = [p \in Positions |-> 0]
  /\ watchdogEnabled' = FALSE /\ pin' = [r \in Relays |-> FALSE]
  /\ UNCHANGED <<serverUp, watchDog, raspberryReset, history>>

Next ==
  \/ \E o \in HeaterOutputs : heaterOn(o) \/ heaterOff(o)
  \/ newWatchDog \/ enableWatchDog \/ feedWatchDog \/ deleteWatchDog
  \/ serverStops \/ serverStarts \/ loop \/ setup

Spec == Init /\ [][Next]_vars

\* loop() runs again and again; nothing is assumed of the server or the bus.
FairSpec == Spec /\ WF_vars(loop)

-----------------------------------------------------------------------------
(* Properties.                                                             *)

\* The values each variable ranges over; in particular no counter leaves its
\* byte when it is counted down (MainboardControl.ino:192-198).
TypeOK ==
  /\ serverUp \in BOOLEAN /\ watchDog \in {"none", "fed", "enabled", "deleted"}
  /\ receiveBuffer \in Frame /\ commandReceived \in BOOLEAN
  /\ counters \in [Positions -> Byte]
  /\ watchdogEnabled \in BOOLEAN /\ pin \in [Relays -> BOOLEAN]
  /\ raspberryReset \in BOOLEAN
  /\ request \in [Relays -> {"on", "off"}]
  /\ sinceOn \in [Relays -> 0..(Timeout + 1)]

\* A relay is on only if the server asked for it within the last Timeout
\* seconds ("Thermostats must send there temperature within this time",
\* MainApp.cpp:61), however frames for other relays overwrite, delay or lose
\* its own, and whether the server still runs.
FailSafe == \A r \in Relays : pin[r] => sinceOn[r] <= Timeout

\* The board keeps to RelayLease: beside what FailSafe says, no relay comes on
\* unless it was asked for since the board last looked, whatever frame the one
\* buffer still holds and whichever counter it is for.
Lease == INSTANCE RelayLease
ImplementsLease == Lease!Spec

\* A heater that is switched off goes off, unless it is asked for again, even
\* when the frame that says so is lost or overwritten.
OffTakesEffect ==
  \A r \in Relays : request[r] = "off" ~> ~pin[r] \/ request[r] = "on"

\* A server that stops with the watchdog enabled is reset by the board, unless
\* it is started again by other means or the board loses its power.
HungServerIsReset ==
  watchdogEnabled /\ ~serverUp ~> raspberryReset \/ serverUp \/ ~watchdogEnabled

=============================================================================
