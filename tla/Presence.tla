------------------------------ MODULE Presence ------------------------------
(***************************************************************************)
(* What the server promises its listeners about who is connected: a name   *)
(* is told with its first session, and taken back only when no session     *)
(* of that name is left, however many sockets a client has had and in      *)
(* whatever order they come and go.                                        *)
(***************************************************************************)
CONSTANTS
  Conns, Names,
  None

VARIABLES
  session,    \* the name of each connection whose handshake is over, or None
  told        \* the names that the listeners hold for connected

Init == session = [c \in Conns |-> None] /\ told = {}

join(c, n) ==
  /\ session[c] = None /\ session' = [session EXCEPT ![c] = n]
  /\ told' = told \cup {n}

leave(c) == UNCHANGED told /\ session' = [session EXCEPT ![c] = None]

\* A handshake may end when its connection has been given up already.
joinLate(n) == told' = told \cup {n} /\ UNCHANGED session

forget(n) ==
  /\ \A c \in Conns : session[c] # n
  /\ told' = told \ {n} /\ UNCHANGED session

Next ==
  \/ \E c \in Conns : leave(c)
  \/ \E c \in Conns, n \in Names : join(c, n)
  \/ \E n \in Names : joinLate(n) \/ forget(n)

Spec == Init /\ [][Next]_<<session, told>>

=============================================================================
