----------------------------- MODULE RelayLease -----------------------------
(***************************************************************************)
(* What the board promises to the rooms: a relay is lent, never given.  It *)
(* comes on only in the pass after somebody asked for it, and stays on for *)
(* Timeout passes at the most, unless it is asked for again.  It may go    *)
(* off at any time: requests get lost, and the board may lose its power.   *)
(***************************************************************************)
EXTENDS Naturals

CONSTANTS Relays, Timeout

VARIABLES
  pin,
  sinceOn     \* passes since the relay was last asked for, up to Timeout + 1

Init ==
  /\ pin = [r \in Relays |-> FALSE]
  /\ sinceOn = [r \in Relays |-> Timeout + 1]

ask(r) == sinceOn' = [sinceOn EXCEPT ![r] = 0] /\ UNCHANGED pin

\* The relays that may be on after this pass.
Lent(r) == sinceOn[r] = 0 \/ (pin[r] /\ sinceOn[r] < Timeout)

pass ==
  /\ pin' \in [Relays -> BOOLEAN] /\ \A r \in Relays : pin'[r] => Lent(r)
  /\ sinceOn' = [r \in Relays |->
                   IF sinceOn[r] > Timeout THEN sinceOn[r] ELSE sinceOn[r] + 1]

powerLoss == pin' = [r \in Relays |-> FALSE] /\ UNCHANGED sinceOn

Next == (\E r \in Relays : ask(r)) \/ pass \/ powerLoss

Spec == Init /\ [][Next]_<<pin, sinceOn>>

=============================================================================
