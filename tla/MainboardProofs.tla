-------------------------- MODULE MainboardProofs ---------------------------
(***************************************************************************)
(* Mainboard, for every set of heater outputs and every time-out that fits *)
(* a byte: the variables keep their types, and on a bus that corrupts no   *)
(* frame the relays fail safe.                                             *)
(*                                                                         *)
(* FailSafe is not inductive: a pin follows its counter, and a counter is  *)
(* set from a frame that waited in the buffer.  A counter is therefore     *)
(* bounded by the time the last request has left to run (Leased), a frame  *)
(* in the buffer is one whose request is not a whole pass of loop old      *)
(* (Pending), and a pin is high exactly over a running counter (Driven).     *)
(***************************************************************************)
EXTENDS Mainboard, TLAPS

Leased == \A r \in Relays : counters[r] > 0 => counters[r] + sinceOn[r] <= Timeout + 1

Pending ==
  commandReceived =>
    \A r \in Relays : receiveBuffer.cmd = RelaisId(r) /\ receiveBuffer.value > 0
      => receiveBuffer.value = Timeout /\ sinceOn[r] = 0

Driven == \A r \in Relays : pin[r] <=> counters[r] > 0

IInv == TypeOK /\ Leased /\ Pending /\ Driven

-----------------------------------------------------------------------------

\* An output that a heater may be driven by is a relay, and no two relays, and
\* no relay and the watchdog, share a command or a counter.
LEMMA RelayCommands ==
  /\ Relays \subseteq 0..7
  /\ \A o \in HeaterOutputs : Accepted(o) => o \in Relays
  /\ \A r \in Relays : RelaisId(r) \in Byte /\ Position(RelaisId(r)) = r
  /\ \A r \in Relays : r # WD /\ RelaisId(r) \notin {WD_CMD, WD_ENABLE_CMD}
  /\ \A r, q \in Relays : RelaisId(r) = RelaisId(q) => r = q
BY MainboardAssumption DEF Relays, Accepted, RelaisId, Position, WD, WD_CMD,
   WD_ENABLE_CMD, Byte

\* A counter that is counted down stays in its byte.
LEMMA CountedDown ==
  \A n \in Byte : Counted(n) \in Byte /\ (Counted(n) > 0 => Counted(n) = n - 1)
BY DEF Counted, Byte

\* A write puts a frame, or what is left of one, into the buffer.
LEMMA WriteType ==
  ASSUME TypeOK, NEW f \in Frame, writeData(f)
  PROVE  /\ receiveBuffer' \in Frame /\ commandReceived' \in BOOLEAN
         /\ UNCHANGED <<serverUp, board>>
BY MainboardAssumption DEF TypeOK, writeData, receiveEvent, receiveInvalid, slot

-----------------------------------------------------------------------------
(* Types.                                                                  *)

\* The times fit a byte and are not zero.
LEMMA Times == Timeout \in 1..255 /\ WatchDogTime \in 1..255 /\ 0 \in Byte
BY MainboardAssumption DEF Byte

\* The empty buffer is a frame like any other.
LEMMA NoFrameType == NoFrame \in Frame
BY DEF NoFrame, Frame, Byte

\* Types at the start.
LEMMA TypeInit == Init => TypeOK
<1> SUFFICES ASSUME Init PROVE TypeOK
  OBVIOUS
<1>1. sinceOn \in [Relays -> 0..(Timeout + 1)]
  BY Times DEF Init
<1>2. counters \in [Positions -> Byte]
  BY Times DEF Init
<1>3. QED
  BY <1>1, <1>2, NoFrameType DEF Init, TypeOK

\* Every step keeps the types.
LEMMA TypeStep == TypeOK /\ [Next]_vars => TypeOK'
<1> SUFFICES ASSUME TypeOK, [Next]_vars PROVE TypeOK'
  OBVIOUS
<1> USE RelayCommands
<1>1. ASSUME NEW o \in HeaterOutputs, heaterOn(o) PROVE TypeOK'
  <2>1. o \in Relays
    BY <1>1 DEF heaterOn
  <2>2. [cmd |-> RelaisId(o), value |-> Timeout] \in Frame
    BY <2>1, MainboardAssumption DEF Frame
  <2>3. QED
    BY <1>1, <2>1, <2>2, WriteType, MainboardAssumption
       DEF heaterOn, TypeOK, board, Byte
<1>2. ASSUME NEW o \in HeaterOutputs, heaterOff(o) PROVE TypeOK'
  <2>1. o \in Relays
    BY <1>2 DEF heaterOff
  <2>2. [cmd |-> RelaisId(o), value |-> 0] \in Frame
    BY <2>1 DEF Frame, Byte
  <2>3. QED
    BY <1>2, <2>1, <2>2, WriteType DEF heaterOff, TypeOK, board
<1>3. ASSUME NEW from, NEW to \in {"fed", "enabled"}, feed(from, to) PROVE TypeOK'
  <2>1. [cmd |-> WD_CMD, value |-> WatchDogTime] \in Frame
    BY MainboardAssumption DEF Frame, Byte, WD_CMD
  <2>2. QED
    BY <1>3, <2>1, WriteType DEF feed, TypeOK, board, history, history
<1>4. ASSUME NEW from, NEW to \in {"enabled", "deleted"}, NEW value \in {0, 1},
             switchWatchDog(from, to, value)
      PROVE  TypeOK'
  <2>1. [cmd |-> WD_ENABLE_CMD, value |-> value] \in Frame
    BY DEF Frame, Byte, WD_ENABLE_CMD
  <2>2. QED
    BY <1>4, <2>1, WriteType DEF switchWatchDog, TypeOK, board, history
<1>5. ASSUME serverStops \/ serverStarts PROVE TypeOK'
  BY <1>5 DEF serverStops, serverStarts, TypeOK, slot, board, history
<1>6. ASSUME loop PROVE TypeOK'
  <2> DEFINE count == [p \in Positions |-> Counted(counters[p])]
             enabled == IF commandReceived /\ receiveBuffer.cmd = WD_ENABLE_CMD
                        THEN receiveBuffer.value > 0 ELSE watchdogEnabled
  <2>1. count \in [Positions -> Byte]
    BY CountedDown DEF TypeOK
  <2>2. receiveBuffer.value \in Byte
    BY DEF TypeOK, Frame
  <2>3. counters' \in [Positions -> Byte]
    <3>1. counters' = count
            \/ counters' = Processed(receiveBuffer.cmd, receiveBuffer.value, count)
      BY <1>6 DEF loop
    <3>2. QED
      BY <2>1, <2>2, <3>1 DEF Processed
  <2>4. enabled \in BOOLEAN /\ Starved(counters', enabled) \in BOOLEAN
    <3>1. (receiveBuffer.value > 0) \in BOOLEAN
      BY <2>2 DEF Byte
    <3>2. watchdogEnabled \in BOOLEAN
      BY DEF TypeOK
    <3>3. enabled \in BOOLEAN
      BY <3>1, <3>2, Zenon
    <3>4. QED
      BY <3>3, Zenon DEF Starved
  <2>5. /\ watchdogEnabled' = (enabled /\ ~Starved(counters', enabled))
        /\ raspberryReset' = (raspberryReset \/ Starved(counters', enabled))
        /\ serverUp' = (serverUp /\ ~Starved(counters', enabled))
    BY <1>6 DEF loop
  <2>6. watchdogEnabled' \in BOOLEAN /\ raspberryReset' \in BOOLEAN
          /\ serverUp' \in BOOLEAN
    BY <2>4, <2>5
  <2>7. sinceOn' \in [Relays -> 0..(Timeout + 1)]
    BY <1>6, MainboardAssumption DEF loop, TypeOK, Byte
  <2>8. pin' \in [Relays -> BOOLEAN]
    BY <1>6 DEF loop
  <2>9. /\ receiveBuffer' \in Frame /\ commandReceived' \in BOOLEAN
        /\ watchDog' \in {"none", "fed", "enabled", "deleted"}
        /\ request' \in [Relays -> {"on", "off"}]
    BY <1>6 DEF loop, TypeOK
  <2>10. QED
    BY <2>3, <2>6, <2>7, <2>8, <2>9 DEF TypeOK
<1>7. ASSUME setup PROVE TypeOK'
  <2>1. counters' \in [Positions -> Byte] /\ pin' \in [Relays -> BOOLEAN]
    BY <1>7, Times DEF setup
  <2>2. QED
    BY <1>7, <2>1, NoFrameType DEF setup, TypeOK, history
<1>8. ASSUME UNCHANGED vars PROVE TypeOK'
  BY <1>8 DEF vars, TypeOK, slot, board, history
<1>9. QED
  BY <1>1, <1>2, <1>3, <1>4, <1>5, <1>6, <1>7, <1>8
     DEF Next, newWatchDog, enableWatchDog, feedWatchDog, deleteWatchDog,
         DISABLE_WATCHDOG

\* Every reachable state is well typed: no counter leaves its byte.
THEOREM TypeCorrect == Spec => []TypeOK
BY TypeInit, TypeStep, PTL DEF Spec

-----------------------------------------------------------------------------
(* Fail safe.                                                              *)

\* Commands that concern no relay leave what is known of the relays alone.
LEMMA OtherWrite ==
  ASSUME IInv, Garbage = {}, NEW f \in Frame, writeData(f), UNCHANGED sinceOn,
         \A r \in Relays : f.cmd = RelaisId(r) => f.value = 0
  PROVE  Leased' /\ Pending' /\ Driven'
<1>1. Leased' /\ Driven'
  BY DEF IInv, Leased, Driven, writeData, board
<1>2. \/ receiveBuffer' = f
      \/ UNCHANGED slot
  BY DEF writeData, receiveEvent, receiveInvalid
<1>3. receiveBuffer' = f => Pending'
  BY DEF Pending
<1>4. UNCHANGED slot => Pending'
  BY DEF IInv, Pending, slot
<1>5. QED
  BY <1>1, <1>2, <1>3, <1>4

\* Every step keeps what ties requests, frames, counters and pins together.
LEMMA FailSafeStep ==
  ASSUME Garbage = {}, IInv, [Next]_vars
  PROVE  Leased' /\ Pending' /\ Driven'
<1> USE RelayCommands
<1> TypeOK
  BY DEF IInv
<1>1. ASSUME NEW o \in HeaterOutputs, heaterOn(o)
      PROVE  Leased' /\ Pending' /\ Driven'
  <2>1. o \in Relays /\ sinceOn' = [sinceOn EXCEPT ![o] = 0]
    BY <1>1 DEF heaterOn
  <2>2. UNCHANGED <<counters, pin>>
    BY <1>1 DEF heaterOn, writeData, board
  <2>3. Driven'
    BY <2>2 DEF IInv, Driven
  <2>4. Leased'
    <3> SUFFICES ASSUME NEW r \in Relays, counters[r] > 0
                 PROVE  counters[r] + sinceOn'[r] <= Timeout + 1
      BY <2>2 DEF Leased
    <3>1. counters[r] + sinceOn[r] <= Timeout + 1
      BY DEF IInv, Leased
    <3>2. /\ counters[r] \in Int /\ sinceOn[r] \in Int /\ 0 <= sinceOn[r]
          /\ Timeout \in Int
      BY Times, SMTT(60) DEF TypeOK, Positions, Byte
    <3>3. sinceOn'[r] = IF r = o THEN 0 ELSE sinceOn[r]
      BY <2>1 DEF TypeOK
    <3>4. QED
      BY <3>1, <3>2, <3>3
  <2>5. \/ receiveBuffer' = [cmd |-> RelaisId(o), value |-> Timeout]
        \/ UNCHANGED slot
    BY <1>1 DEF heaterOn, writeData, receiveEvent, receiveInvalid
  <2>6. Pending'
    <3>1. \A r \in Relays : sinceOn'[r] = IF r = o THEN 0 ELSE sinceOn[r]
      BY <2>1 DEF TypeOK
    <3>2. CASE receiveBuffer' = [cmd |-> RelaisId(o), value |-> Timeout]
      BY <2>1, <3>1, <3>2 DEF Pending
    <3>3. CASE UNCHANGED slot
      BY <3>1, <3>3 DEF IInv, Pending, slot
    <3>4. QED
      BY <2>5, <3>2, <3>3
  <2>7. QED
    BY <2>3, <2>4, <2>6
<1>2. ASSUME NEW o \in HeaterOutputs, heaterOff(o)
      PROVE  Leased' /\ Pending' /\ Driven'
  <2>1. o \in Relays
    BY <1>2 DEF heaterOff
  <2>2. [cmd |-> RelaisId(o), value |-> 0] \in Frame
    BY <2>1 DEF Frame, Byte
  <2>3. QED
    BY <1>2, <2>2, OtherWrite DEF heaterOff
<1>3. ASSUME NEW from, NEW to, feed(from, to) PROVE Leased' /\ Pending' /\ Driven'
  <2>1. [cmd |-> WD_CMD, value |-> WatchDogTime] \in Frame
    BY MainboardAssumption DEF Frame, Byte, WD_CMD
  <2>2. QED
    BY <1>3, <2>1, OtherWrite DEF feed, history
<1>4. ASSUME NEW from, NEW to, NEW value \in {0, 1}, switchWatchDog(from, to, value)
      PROVE  Leased' /\ Pending' /\ Driven'
  <2>1. [cmd |-> WD_ENABLE_CMD, value |-> value] \in Frame
    BY DEF Frame, Byte, WD_ENABLE_CMD
  <2>2. QED
    BY <1>4, <2>1, OtherWrite DEF switchWatchDog, history
<1>5. ASSUME serverStops \/ serverStarts PROVE Leased' /\ Pending' /\ Driven'
  BY <1>5 DEF serverStops, serverStarts, IInv, Leased, Pending, Driven, slot, board,
     history
<1>6. ASSUME loop PROVE Leased' /\ Pending' /\ Driven'
  <2> DEFINE count == [p \in Positions |-> Counted(counters[p])]
  <2>1. Pending'
    BY <1>6 DEF loop, Pending
  <2>2. Driven'
    BY <1>6 DEF loop, Driven
  <2>3. ASSUME NEW r \in Relays, counters'[r] > 0
        PROVE  counters'[r] + sinceOn'[r] <= Timeout + 1
    <3>1. sinceOn'[r] = IF sinceOn[r] > Timeout THEN sinceOn[r] ELSE sinceOn[r] + 1
      BY <1>6 DEF loop
    <3>2. /\ counters[r] \in Byte /\ sinceOn[r] \in 0..(Timeout + 1)
          /\ count[r] = Counted(counters[r])
      BY DEF TypeOK, Positions
    <3>3. CASE counters'[r] = count[r]
      <4>1. counters'[r] = counters[r] - 1
        BY <2>3, <3>2, <3>3, CountedDown
      <4>2. counters[r] > 0
        BY <2>3, <3>2, <4>1 DEF Byte
      <4>3. counters[r] + sinceOn[r] <= Timeout + 1
        BY <4>2 DEF IInv, Leased
      <4>4. QED
        <5>1. counters[r] \in Int /\ sinceOn[r] \in Int /\ Timeout \in Int
          BY <3>2, Times DEF Byte
        <5>2. sinceOn'[r] = sinceOn[r] + 1
          BY <3>1, <4>2, <4>3, <5>1
        <5>3. QED
          BY <4>1, <4>3, <5>1, <5>2
    <3>4. CASE counters'[r] # count[r]
      <4>1. /\ commandReceived
            /\ counters' = Processed(receiveBuffer.cmd, receiveBuffer.value, count)
        BY <1>6, <3>4 DEF loop
      <4>2. /\ r = Position(receiveBuffer.cmd)
            /\ counters'[r] = receiveBuffer.value
        BY <3>4, <4>1 DEF Processed, Positions
      <4>3. receiveBuffer.cmd = RelaisId(r)
        BY <4>2 DEF Position, RelaisId, TypeOK, Frame, Byte
      <4>4. counters'[r] = Timeout /\ sinceOn[r] = 0
        BY <2>3, <4>1, <4>2, <4>3 DEF IInv, Pending
      <4>5. QED
        BY <3>1, <4>4, MainboardAssumption DEF Byte
    <3>5. QED
      BY <3>3, <3>4
  <2>4. QED
    BY <2>1, <2>2, <2>3 DEF Leased
<1>7. ASSUME setup PROVE Leased' /\ Pending' /\ Driven'
  BY <1>7 DEF setup, Leased, Pending, Driven, Positions
<1>8. ASSUME UNCHANGED vars PROVE Leased' /\ Pending' /\ Driven'
  BY <1>8 DEF vars, slot, board, history, IInv, Leased, Pending, Driven
<1>9. QED
  BY <1>1, <1>2, <1>3, <1>4, <1>5, <1>6, <1>7, <1>8
     DEF Next, newWatchDog, enableWatchDog, feedWatchDog, deleteWatchDog,
         DISABLE_WATCHDOG

\* The invariant holds throughout, on a bus that corrupts no frame.
LEMMA Invariance == ASSUME Garbage = {} PROVE Spec => []IInv
<1>1. Init => IInv
  <2>1. Init => Leased /\ Pending /\ Driven
    BY DEF Init, Leased, Pending, Driven, Positions
  <2>2. QED
    BY <2>1, TypeInit DEF IInv
<1>2. IInv /\ [Next]_vars => IInv'
  BY TypeStep, FailSafeStep DEF IInv
<1>3. QED
  BY <1>1, <1>2, PTL DEF Spec

\* On a bus that corrupts no frame, a relay is on only if the server asked for
\* it within the last Timeout seconds, whatever it asked of the other relays
\* and whether or not it still runs.
THEOREM RelaysFailSafe == ASSUME Garbage = {} PROVE Spec => []FailSafe
<1>1. IInv => FailSafe
  <2> SUFFICES ASSUME IInv, NEW r \in Relays, pin[r] PROVE sinceOn[r] <= Timeout
    BY DEF FailSafe
  <2>1. counters[r] > 0 /\ counters[r] + sinceOn[r] <= Timeout + 1
    BY DEF IInv, Driven, Leased
  <2>2. counters[r] \in Int /\ sinceOn[r] \in Int /\ Timeout \in Int
    BY Times DEF IInv, TypeOK, Positions, Byte
  <2>3. QED
    BY <2>1, <2>2
<1>2. QED
  BY <1>1, Invariance, PTL

-----------------------------------------------------------------------------
(* The lease.                                                              *)

\* What is on after a pass of loop was on before it with time left, or has
\* been asked for since the pass before.
LEMMA LentByLoop ==
  ASSUME IInv, loop, NEW r \in Relays, pin'[r]
  PROVE  Lease!Lent(r)
<1> DEFINE count == [p \in Positions |-> Counted(counters[p])]
<1> USE RelayCommands
<1> TypeOK
  BY DEF IInv
<1>1. counters'[r] > 0
  BY DEF loop
<1>2. /\ counters[r] \in Byte /\ sinceOn[r] \in 0..(Timeout + 1)
      /\ count[r] = Counted(counters[r])
  BY DEF TypeOK, Positions
<1>3. counters[r] \in Int /\ sinceOn[r] \in Int /\ Timeout \in Int
  BY <1>2, Times DEF Byte
<1>4. CASE counters'[r] = count[r]
  <2>1. counters'[r] = counters[r] - 1
    BY <1>1, <1>2, <1>4, CountedDown
  <2>2. counters[r] > 1
    BY <1>1, <1>3, <2>1
  <2>3. counters[r] > 0
    BY <1>3, <2>2
  <2>4. counters[r] + sinceOn[r] <= Timeout + 1
    BY <2>3 DEF IInv, Leased
  <2>5. sinceOn[r] < Timeout
    BY <1>3, <2>2, <2>4
  <2>6. pin[r]
    BY <2>3 DEF IInv, Driven
  <2>7. QED
    BY <2>5, <2>6 DEF Lease!Lent
<1>5. CASE counters'[r] # count[r]
  <2>1. /\ commandReceived
        /\ counters' = Processed(receiveBuffer.cmd, receiveBuffer.value, count)
    BY <1>5 DEF loop
  <2>2. r = Position(receiveBuffer.cmd) /\ counters'[r] = receiveBuffer.value
    BY <1>5, <2>1 DEF Processed, Positions
  <2>3. receiveBuffer.cmd = RelaisId(r)
    BY <2>2 DEF Position, RelaisId, TypeOK, Frame, Byte
  <2>4. sinceOn[r] = 0
    BY <1>1, <2>1, <2>2, <2>3 DEF IInv, Pending
  <2>5. QED
    BY <2>4 DEF Lease!Lent
<1>6. QED
  BY <1>4, <1>5

\* Asking is a step of the server, a pass one of the board; what the server
\* switches off, and how it fares, the lease does not see.
LEMMA LeaseStep ==
  ASSUME IInv, [Next]_vars
  PROVE  [Lease!Next]_<<pin, sinceOn>>
<1>1. ASSUME NEW o \in HeaterOutputs, heaterOn(o) PROVE Lease!Next
  <2>1. o \in Relays
    BY <1>1, RelayCommands DEF heaterOn
  <2>2. Lease!ask(o)
    BY <1>1 DEF heaterOn, writeData, board, Lease!ask
  <2>3. QED
    BY <2>1, <2>2 DEF Lease!Next
<1>2. ASSUME NEW o \in HeaterOutputs, heaterOff(o) PROVE UNCHANGED <<pin, sinceOn>>
  BY <1>2 DEF heaterOff, writeData, board
<1>3. ASSUME NEW from, NEW to, feed(from, to) PROVE UNCHANGED <<pin, sinceOn>>
  BY <1>3 DEF feed, writeData, board, history
<1>4. ASSUME NEW from, NEW to, NEW value, switchWatchDog(from, to, value)
      PROVE  UNCHANGED <<pin, sinceOn>>
  BY <1>4 DEF switchWatchDog, writeData, board, history
<1>5. ASSUME serverStops \/ serverStarts PROVE UNCHANGED <<pin, sinceOn>>
  BY <1>5 DEF serverStops, serverStarts, board, history
<1>6. ASSUME loop PROVE Lease!Next
  <2>1. pin' \in [Relays -> BOOLEAN]
    BY <1>6 DEF loop
  <2>2. \A r \in Relays : pin'[r] => Lease!Lent(r)
    BY <1>6, LentByLoop
  <2>3. sinceOn' = [r \in Relays |->
                      IF sinceOn[r] > Timeout THEN sinceOn[r] ELSE sinceOn[r] + 1]
    BY <1>6 DEF loop
  <2>4. Lease!pass
    BY <2>1, <2>2, <2>3 DEF Lease!pass
  <2>5. QED
    BY <2>4 DEF Lease!Next
<1>7. ASSUME setup PROVE Lease!Next
  <2>1. Lease!powerLoss
    BY <1>7 DEF setup, history, Lease!powerLoss
  <2>2. QED
    BY <2>1 DEF Lease!Next
<1>8. ASSUME UNCHANGED vars PROVE UNCHANGED <<pin, sinceOn>>
  BY <1>8 DEF vars, board, history
<1>9. QED
  BY <1>1, <1>2, <1>3, <1>4, <1>5, <1>6, <1>7, <1>8
     DEF Next, newWatchDog, enableWatchDog, feedWatchDog, deleteWatchDog

\* On a bus that corrupts no frame the board implements RelayLease: a relay
\* comes on only in the pass after somebody asked for it, and never again on an
\* old request, whatever else the single buffer held in between.
THEOREM BoardKeepsLease == ASSUME Garbage = {} PROVE Spec => ImplementsLease
<1>1. Init => Lease!Init
  BY DEF Init, Lease!Init
<1>2. IInv /\ [Next]_vars => [Lease!Next]_<<pin, sinceOn>>
  BY LeaseStep
<1>3. QED
  BY <1>1, <1>2, Invariance, PTL DEF Spec, ImplementsLease, Lease!Spec

\* The lease alone is what makes a relay fail safe: whoever relies on FailSafe
\* needs to know nothing of frames, counters and what the bus may lose.
THEOREM LeaseFailsSafe == Lease!Spec => []FailSafe
<1> DEFINE Clock == sinceOn \in [Relays -> Nat]
<1> USE Times
<1>1. Lease!Init => Clock /\ FailSafe
  BY DEF Lease!Init, FailSafe
<1>2. Clock /\ FailSafe /\ [Lease!Next]_<<pin, sinceOn>> => Clock' /\ FailSafe'
  <2> SUFFICES ASSUME Clock, FailSafe, [Lease!Next]_<<pin, sinceOn>>
               PROVE  Clock' /\ FailSafe'
    OBVIOUS
  <2>1. ASSUME NEW r \in Relays, Lease!ask(r) PROVE Clock' /\ FailSafe'
    BY <2>1 DEF Lease!ask, FailSafe
  <2>2. CASE Lease!pass
    <3>1. Clock'
      BY <2>2 DEF Lease!pass
    <3>2. ASSUME NEW r \in Relays, pin'[r] PROVE sinceOn'[r] <= Timeout
      <4>1. sinceOn'[r] = IF sinceOn[r] > Timeout THEN sinceOn[r] ELSE sinceOn[r] + 1
        BY <2>2 DEF Lease!pass
      <4>2. sinceOn[r] = 0 \/ sinceOn[r] < Timeout
        BY <2>2, <3>2 DEF Lease!pass, Lease!Lent
      <4>3. QED
        BY <4>1, <4>2
    <3>3. QED
      BY <3>1, <3>2 DEF FailSafe
  <2>3. CASE Lease!powerLoss
    BY <2>3 DEF Lease!powerLoss, FailSafe
  <2>4. CASE UNCHANGED <<pin, sinceOn>>
    BY <2>4 DEF FailSafe
  <2>5. QED
    BY <2>1, <2>2, <2>3, <2>4 DEF Lease!Next
<1>3. QED
  BY <1>1, <1>2, PTL DEF Lease!Spec

=============================================================================
