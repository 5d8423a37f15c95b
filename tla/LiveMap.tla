------------------------------- MODULE LiveMap -------------------------------
(***************************************************************************)
(* What administrators are promised about phones, whatever listeners and   *)
(* database lie between: every report of a phone is followed by a push, to *)
(* all who watch that phone and to nobody else, before the next report     *)
(* comes in; and a map that is pushed says what the phone reported last,   *)
(* except for what was lost and for a location that is older than the      *)
(* minutes the watcher asked for.                                          *)
(***************************************************************************)
CONSTANTS Phones, Sockets, Fixes, Fences, Minutes, None, Lost

VARIABLES
  fix, fence,  \* reported last by each phone, None before; Lost if it was
  recent,      \* the Minutes in which that location lies
  due,         \* the phone whose last report has not been pushed, or None
  viewer,      \* the phone that is watched on each socket, and how far back
  map          \* the last map pushed on it, until denied

Watch(p, minutes) == [clientName |-> p, minutes |-> minutes]
NoWatch == Watch(None, None)

Response == [about : {None} \cup Phones, newest : {None} \cup Fixes,
             fence : {None} \cup Fences]

\* A map says what is watched, as the phone reported it last.
Current(watch, m) ==
  LET p == watch.clientName
  IN /\ m.about = p
     /\ \/ fix[p] = Lost \/ m.newest = fix[p]
        \/ m.newest = None /\ watch.minutes \notin recent[p]
     /\ fence[p] = Lost \/ m.fence = fence[p]

NoMap == [about |-> None, newest |-> None, fence |-> None]

Init ==
  /\ fix = [p \in Phones |-> None] /\ fence = [p \in Phones |-> None]
  /\ recent = [p \in Phones |-> {}]
  /\ due = None
  /\ viewer = [s \in Sockets |-> NoWatch] /\ map = [s \in Sockets |-> NoMap]

Cleared(sockets) == [s \in Sockets |-> IF s \in sockets THEN NoMap ELSE map[s]]
Viewing(sockets, watch) == [s \in Sockets |-> IF s \in sockets THEN watch ELSE viewer[s]]

\* These sockets, and no others, are sent a map of what they then watch.
Pushed(sockets) ==
  /\ map' \in [Sockets -> Response]
  /\ \A s \in Sockets : IF s \in sockets THEN Current(viewer'[s], map'[s])
                        ELSE map'[s] = map[s]

\* The phone moves, changes its fence, or only says that it is there.
report(p) ==
  /\ due = None /\ due' = p
  /\ \/ UNCHANGED <<fix, fence, recent>>
     \/ \E f \in Fixes \cup {Lost} :
          /\ fix' = [fix EXCEPT ![p] = f] /\ recent' = [recent EXCEPT ![p] = Minutes]
          /\ UNCHANGED fence
     \/ \E f \in Fences \cup {None, Lost} :
          fence' = [fence EXCEPT ![p] = f] /\ UNCHANGED <<fix, recent>>
  /\ UNCHANGED <<viewer, map>>

push ==
  /\ due # None /\ due' = None /\ UNCHANGED <<fix, fence, recent, viewer>>
  /\ Pushed({s \in Sockets : viewer[s].clientName = due})

\* An administrator asks, and is answered on all its sockets; or is denied.
ask(sockets, watch) ==
  /\ due = None /\ viewer' = Viewing(sockets, watch) /\ Pushed(sockets)
  /\ UNCHANGED <<fix, fence, recent, due>>

deny(sockets) ==
  /\ due = None /\ viewer' = Viewing(sockets, NoWatch) /\ map' = Cleared(sockets)
  /\ UNCHANGED <<fix, fence, recent, due>>

\* A socket of somebody who watches already shows nothing before the next push.
open(s, watch) ==
  /\ map[s] = NoMap /\ viewer' = Viewing({s}, watch)
  /\ UNCHANGED <<fix, fence, recent, due, map>>

close(s) ==
  /\ viewer' = Viewing({s}, NoWatch) /\ map' = Cleared({s})
  /\ UNCHANGED <<fix, fence, recent, due>>

\* What a phone reported grows old, or is lost.
age(p) ==
  /\ \E left \in SUBSET recent[p] : recent' = [recent EXCEPT ![p] = left]
  /\ UNCHANGED <<fix, fence, due, viewer, map>>

lose ==
  /\ fix' = [p \in Phones |-> Lost] /\ fence' = [p \in Phones |-> Lost]
  /\ UNCHANGED <<recent, due, viewer, map>>

Watches == [clientName : Phones, minutes : Minutes]

Next ==
  \/ push \/ lose
  \/ \E s \in Sockets : close(s) \/ (\E w \in Watches : open(s, w))
  \/ \E p \in Phones : report(p) \/ age(p)
  \/ \E sockets \in SUBSET Sockets : deny(sockets) \/ (\E w \in Watches : ask(sockets, w))

Spec == Init /\ [][Next]_<<fix, fence, recent, due, viewer, map>>

=============================================================================
