----------------------------- MODULE HeatedRoom -----------------------------
(***************************************************************************)
(* What a room promises those who use it, whatever threads serve it: every *)
(* press of a button moves the set point by one clamped step, once; the    *)
(* heater is decided from the last temperature reported and from a set     *)
(* point the room has had; and nothing waits for ever while it is open.    *)
(***************************************************************************)
EXTENDS Integers

CONSTANTS MinSetTemperature, MaxSetTemperature, SetTempDelta, InitSetTemperature,
          HalfHysteresis, Temperatures, NoTemperature, HasThermostat

VARIABLES
  ups, downs,  \* presses accepted and not applied yet
  setPoint,    \* the room's set point
  reported,    \* the last temperature reported
  followed,    \* the set point the heater is decided with
  actedOn,     \* the temperature the heater was last decided from
  heaterOn,    \* that decision
  relay,       \* the heater itself
  open         \* the room has not been closed

vars == <<ups, downs, setPoint, reported, followed, actedOn, heaterOn, relay, open>>

Init ==
  /\ ups = 0 /\ downs = 0 /\ setPoint = InitSetTemperature
  /\ followed = InitSetTemperature
  /\ reported = NoTemperature /\ actedOn = NoTemperature
  /\ heaterOn = FALSE /\ relay = FALSE /\ open = TRUE

Press ==
  /\ open
  /\ \/ ups' = ups + 1 /\ UNCHANGED downs
     \/ downs' = downs + 1 /\ UNCHANGED ups
  /\ UNCHANGED <<setPoint, reported, followed, actedOn, heaterOn, relay, open>>

Report(t) ==
  /\ open
  /\ reported' = t
  /\ UNCHANGED <<ups, downs, setPoint, followed, actedOn, heaterOn, relay, open>>

ApplyUp ==
  /\ ups > 0 /\ ups' = ups - 1
  /\ setPoint' = IF setPoint + SetTempDelta > MaxSetTemperature
                 THEN MaxSetTemperature ELSE setPoint + SetTempDelta
  /\ UNCHANGED <<downs, reported, followed, actedOn, heaterOn, relay, open>>

ApplyDown ==
  /\ downs > 0 /\ downs' = downs - 1
  /\ setPoint' = IF setPoint - SetTempDelta < MinSetTemperature
                 THEN MinSetTemperature ELSE setPoint - SetTempDelta
  /\ UNCHANGED <<ups, reported, followed, actedOn, heaterOn, relay, open>>

Follow ==
  /\ followed' = setPoint
  /\ UNCHANGED <<ups, downs, setPoint, reported, actedOn, heaterOn, relay, open>>

\* Only a report makes the room decide; a new set point alone does not.
Decide ==
  /\ HasThermostat /\ reported # NoTemperature
  /\ actedOn' = reported
  /\ heaterOn' = IF reported > followed + HalfHysteresis THEN FALSE
                 ELSE IF reported < followed - HalfHysteresis THEN TRUE ELSE heaterOn
  /\ UNCHANGED <<ups, downs, setPoint, reported, followed, relay, open>>

Switch ==
  /\ relay' = heaterOn
  /\ UNCHANGED <<ups, downs, setPoint, reported, followed, actedOn, heaterOn, open>>

Close ==
  /\ open /\ open' = FALSE
  /\ UNCHANGED <<ups, downs, setPoint, reported, followed, actedOn, heaterOn, relay>>

Next ==
  \/ Press \/ (\E t \in Temperatures : Report(t)) \/ Close
  \/ ApplyUp \/ ApplyDown \/ Follow \/ Decide \/ Switch

\* While the room is open: presses are applied, a new set point and a new
\* temperature reach the heater's decision, and the decision the heater.
Served ==
  /\ ups > 0 ~> (ups = 0 \/ ~open)
  /\ downs > 0 ~> (downs = 0 \/ ~open)
  /\ (HasThermostat /\ followed # setPoint) ~> (followed = setPoint \/ ~open)
  /\ (HasThermostat /\ actedOn # reported) ~> (actedOn = reported \/ ~open)
  /\ relay # heaterOn ~> (relay = heaterOn \/ ~open)

Spec == Init /\ [][Next]_vars

=============================================================================
