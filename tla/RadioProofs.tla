---------------------------- MODULE RadioProofs -----------------------------
(***************************************************************************)
(* Radio, for any number of workers, sensors and other threads, any        *)
(* commands at start-up, and any width of the frame id: the variables keep *)
(* their types, reports are not taken for answers, and an answer is given  *)
(* to one request only.                                                    *)
(*                                                                         *)
(* The slot has no mutex.  What keeps two requests apart is who waits and  *)
(* when: start-up runs alone (Startup), a worker waits inside the router   *)
(* (Holder), the other threads never wait (Posting), and the serial thread *)
(* waits in vain, since it alone fills the slot (Unanswered).  And who has *)
(* the router is not at a place where it would wait for another mutex      *)
(* (Held), so no two threads of the server wait for each other, and has    *)
(* only messages left to send and a bounded number of them (Work), so it   *)
(* gives the router back.                                                  *)
(***************************************************************************)
EXTENDS Radio, SequenceTheorems, TLAPS

Item   == [what : Sends \cup {"clients"}, to : Sensors \cup {None}]
Posts  == {Only("post"), Only("clients")}
Places == {"idle", "lock", "next", "setId", "forget", "take", "send",
           "wrap", "wait", "giveUp", "flag", "store"}

OnSync == {"setId", "forget", "take", "wait", "giveUp"}
OnAny  == OnSync \cup {"send", "wrap"}

\* A thread in the middle of a send has something to send.
What(t) == Head(job[t]).what
Busy ==
  \A t \in Threads :
    /\ pc[t] \in OnAny => job[t] # <<>> /\ What(t) \in Sends
    /\ pc[t] \in OnSync => What(t) \in Synchronous

\* During start-up the other threads are idle, but for the serial thread, which
\* may have an answer.
Startup ==
  pc["main"] # "idle" =>
    \A t \in Threads \ {"main"} :
      pc[t] = "idle" \/ (t = "serial" /\ pc[t] \in {"flag", "store"})

Holder == \A w \in Workers : pc[w] # "idle" => router = w

\* Whoever is about to give the router back has it.
Leaving == \A t \in Threads : pc[t] = "next" /\ job[t] = <<>> => router = t

Posting == \A c \in Callers : job[c] \in Seq(Posts)

Control == Busy /\ Startup /\ Holder /\ Leaving /\ Posting

\* The slot.
Waits(t) == pc[t] \in OnAny \ {"giveUp"} /\ What(t) \in Synchronous
Unanswered == Waits("serial") => ~mResponseReceived

Cleared(t) == pc[t] \in {"take", "send", "wrap", "wait"} /\ What(t) \in Synchronous
Clean == \A t \in Workers \cup {"main"} : Cleared(t) => mReceivedMessage # "freed"

Inv == TypeOK /\ Control /\ Unanswered /\ Clean

-----------------------------------------------------------------------------
(* Types of what is sent.                                                  *)

\* The names of what is sent are different.
LEMMA Kinds ==
  /\ Sends \cap {"clients"} = {} /\ "post" \notin Synchronous
  /\ "message" \in Sends /\ "post" \in Sends /\ Synchronous \subseteq Sends
  /\ Posts \subseteq Item
  /\ \A what \in Sends \cup {"clients"} : Only(what) \in Item
BY RadioAssumption DEF Sends, Synchronous, ATCommands, Posts, Only, To, Item

\* What is handed to a sender is a sequence of items.
LEMMA Lists ==
  /\ RoomWrites \in Seq(Item)
  /\ Each(Queries) \in Seq(Item) /\ Each(Queries) # <<>>
  /\ Each(Settings) \in Seq(Item)
  /\ \A f \in Reports : Handled(f) \in Seq(Item)
<1>1. RoomWrites \in Seq(Item)
  <2>1. \A i \in DOMAIN Room : To("message", Room[i]) \in Item
    BY Kinds DEF Item, To, Sensors, Range
  <2>. QED BY <2>1, RadioAssumption DEF RoomWrites
<1>2. Each(Queries) \in Seq(Item) /\ Each(Queries) # <<>>
  <2>1. \A i \in DOMAIN Queries : Only(Queries[i]) \in Item
    BY Kinds DEF Sends, ATCommands, Range
  <2>. QED BY <2>1, RadioAssumption DEF Each
<1>3. Each(Settings) \in Seq(Item)
  <2>1. \A i \in DOMAIN Settings : Only(Settings[i]) \in Item
    BY Kinds DEF Sends, ATCommands, Range
  <2>. QED BY <2>1, RadioAssumption DEF Each
<1>4. ASSUME NEW f \in Reports PROVE Handled(f) \in Seq(Item)
  <2>1. f.type = "started" => To("message", f.of) \in Item
    BY Kinds DEF Reports, FromSensors, Discovery, HardwareReset, WatchdogTimerReset,
                 Frame, To, Item, Sensors
  <2>2. Only("post") \in Item
    BY Kinds
  <2>. QED BY <1>2, <2>1, <2>2 DEF Handled
<1>. QED BY <1>1, <1>2, <1>3, <1>4

-----------------------------------------------------------------------------
(* A thread goes on.                                                       *)

\* Thread t goes from within a send, or before one, to place p with list j.
Moves(t, p, j) ==
  /\ pc' = [pc EXCEPT ![t] = p] /\ job' = [job EXCEPT ![t] = j]
  /\ UNCHANGED router

\* What a move may lead to.
Legal(t, p, j) ==
  /\ p \in Places /\ j \in Seq(Item)
  /\ p \in OnAny => j # <<>> /\ Head(j).what \in Sends
  /\ p \in OnSync => Head(j).what \in Synchronous
  /\ p = "next" /\ j = <<>> => router = t
  /\ t \in Callers => j \in Seq(Posts)

\* A thread that goes to a legal place keeps the types.
LEMMA MoveKeepsTypes ==
  ASSUME TypeOK, NEW t \in Threads, NEW p, NEW j, Moves(t, p, j), Legal(t, p, j)
  PROVE  pc' \in [Threads -> Places] /\ job' \in [Threads -> Seq(Item)]
BY DEF TypeOK, Moves, Legal, Places, Item

\* And the rules of which thread may be where.
LEMMA MoveKeepsControl ==
  ASSUME TypeOK, Control, NEW t \in Threads, NEW p, NEW j,
         Moves(t, p, j), Legal(t, p, j), pc[t] \notin {"idle", "flag", "store"}
  PROVE  Control'
<1>1. /\ pc \in [Threads -> Places] /\ job \in [Threads -> Seq(Item)]
  BY DEF TypeOK, Places, Item
<1>2. /\ pc'[t] = p /\ job'[t] = j
      /\ \A u \in Threads \ {t} : pc'[u] = pc[u] /\ job'[u] = job[u]
      /\ router' = router
  BY <1>1 DEF Moves
<1>3. "main" \in Threads /\ Workers \subseteq Threads /\ Callers \subseteq Threads
  BY DEF Threads
<1>4. Busy'
  BY <1>2 DEF Control, Busy, Legal, What
<1>5. Startup'
  BY <1>2, <1>3 DEF Control, Startup
<1>6. Holder'
  BY <1>2, <1>3 DEF Control, Holder
<1>7. Leaving'
  BY <1>2 DEF Control, Leaving, Legal
<1>8. Posting'
  BY <1>2, <1>3 DEF Control, Posting, Legal
<1>. QED BY <1>4, <1>5, <1>6, <1>7, <1>8 DEF Control

\* A move that leaves flag and message alone and does not begin to wait.
LEMMA MoveKeepsSlot ==
  ASSUME TypeOK, Unanswered, Clean, NEW t \in Threads, NEW p, NEW j, Moves(t, p, j),
         UNCHANGED <<mResponseReceived, mReceivedMessage>>,
         Waits(t)' => Waits(t), Cleared(t)' => Cleared(t)
  PROVE  Unanswered' /\ Clean'
<1>1. /\ pc \in [Threads -> Places] /\ job \in [Threads -> Seq(Item)]
  BY DEF TypeOK, Places, Item
<1>2. \A u \in Threads \ {t} : pc'[u] = pc[u] /\ job'[u] = job[u]
  BY <1>1 DEF Moves
<1>3. {"main", "serial"} \cup Workers \subseteq Threads
  BY DEF Threads
<1>4. \A u \in Threads : (Waits(u)' => Waits(u)) /\ (Cleared(u)' => Cleared(u))
  BY <1>2 DEF Waits, Cleared, What
<1>. QED BY <1>3, <1>4 DEF Unanswered, Clean

-----------------------------------------------------------------------------
(* What a send leaves behind.                                              *)

\* What is left to send, and who can be waiting.
LEMMA Remaining ==
  ASSUME Inv, NEW t \in Threads, job[t] # <<>>
  PROVE  /\ Tail(job[t]) \in Seq(Item)
         /\ t \in Callers => Tail(job[t]) \in Seq(Posts) /\ What(t) \notin Synchronous
<1>1. job[t] \in Seq(Item)
  BY DEF Inv, TypeOK, Item
<1>2. Tail(job[t]) \in Seq(Item)
  BY <1>1, HeadTailProperties
<1>3. ASSUME t \in Callers
      PROVE  Tail(job[t]) \in Seq(Posts) /\ What(t) \notin Synchronous
  <2>1. job[t] \in Seq(Posts)
    BY <1>3 DEF Inv, Control, Posting
  <2>2. Head(job[t]) \in Posts /\ Tail(job[t]) \in Seq(Posts)
    BY <2>1, HeadTailProperties
  <2>3. \A x \in Posts : x.what \in {"post", "clients"}
    BY DEF Posts, Only, To
  <2>4. {"post", "clients"} \cap Synchronous = {}
    BY Kinds
  <2>. QED BY <2>2, <2>3, <2>4 DEF What
<1>. QED BY <1>2, <1>3

\* A send that is over.
LEMMA OverKeeps ==
  ASSUME Inv, NEW t \in Threads, NEW from, NEW rest,
         Over(t, from, rest), from \notin {"idle", "flag", "store"},
         rest \in Seq(Item), t \in Callers => rest \in Seq(Posts),
         UNCHANGED router
  PROVE  /\ Control' /\ ~Waits(t)' /\ ~Cleared(t)'
         /\ pc' \in [Threads -> Places] /\ job' \in [Threads -> Seq(Item)]
         /\ id' \in [Threads -> FrameId]
         /\ \E p : Moves(t, p, rest)
<1> DEFINE p == IF rest = <<>> /\ router # t THEN "idle" ELSE "next"
<1>1. Moves(t, p, rest) /\ pc[t] = from
  BY DEF Over, Go, Moves
<1>2. Legal(t, p, rest)
  BY DEF Legal, Places, OnAny, OnSync
<1>3. Control'
  BY <1>1, <1>2, MoveKeepsControl DEF Inv
<1>4. pc' \in [Threads -> Places] /\ job' \in [Threads -> Seq(Item)]
  BY <1>1, <1>2, MoveKeepsTypes DEF Inv
<1>5. id' \in [Threads -> FrameId]
  <2>1. 0 \in FrameId
    BY RadioAssumption DEF FrameId
  <2>. QED BY <2>1 DEF Over, Inv, TypeOK
<1>6. pc'[t] \in {"idle", "next"}
  BY DEF Over, Go, Inv, TypeOK
<1>7. ~Waits(t)' /\ ~Cleared(t)'
  BY <1>6 DEF Waits, Cleared, OnAny, OnSync
<1>. QED BY <1>1, <1>3, <1>4, <1>5, <1>7

\* A step within a send.
LEMMA GoKeeps ==
  ASSUME Inv, NEW t \in Threads, NEW from, NEW to,
         Go(t, from, to), from \notin {"idle", "flag", "store"},
         to \in OnAny, job[t] # <<>>, What(t) \in Sends,
         to \in OnSync => What(t) \in Synchronous,
         UNCHANGED <<job, router>>
  PROVE  /\ Control'
         /\ pc' \in [Threads -> Places] /\ job' \in [Threads -> Seq(Item)]
         /\ Moves(t, to, job[t])
<1>1. job \in [Threads -> Seq(Item)]
  BY DEF Inv, TypeOK, Item
<1>2. Moves(t, to, job[t])
  BY <1>1 DEF Go, Moves
<1>3. t \in Callers => job[t] \in Seq(Posts)
  BY DEF Inv, Control, Posting
<1>4. to \in Places /\ to # "next"
  BY DEF OnAny, OnSync, Places
<1>5. Legal(t, to, job[t])
  BY <1>1, <1>3, <1>4 DEF Legal, What
<1>6. pc[t] \notin {"idle", "flag", "store"}
  BY DEF Go
<1>. QED
  BY <1>2, <1>5, <1>6, MoveKeepsControl, MoveKeepsTypes DEF Inv

-----------------------------------------------------------------------------
(* The steps of a request.                                                 *)

\* The variables a request's bookkeeping leaves alone, but for the slot.
LEMMA Ending ==
  ASSUME Inv, NEW t \in Threads, NEW from, NEW rest,
         Over(t, from, rest), from \notin {"idle", "flag", "store"},
         rest \in Seq(Item), t \in Callers => rest \in Seq(Posts),
         mFrameId' \in FrameId, modem' \subseteq Answers,
         UNCHANGED <<slot, mSensorAddress, router, server, frame>>
  PROVE  Inv'
<1>1. /\ Control' /\ ~Waits(t)' /\ ~Cleared(t)'
      /\ pc' \in [Threads -> Places] /\ job' \in [Threads -> Seq(Item)]
      /\ id' \in [Threads -> FrameId]
      /\ \E p : Moves(t, p, rest)
  BY OverKeeps
<1>2. Unanswered' /\ Clean'
  BY <1>1, MoveKeepsSlot DEF Inv, slot
<1>3. TypeOK'
  BY <1>1 DEF Inv, TypeOK, Places, Item, slot
<1>. QED BY <1>1, <1>2, <1>3 DEF Inv

\* What has no address, or goes to clients, touches no slot.
LEMMA SkipStep ==
  ASSUME Inv, NEW t \in Threads, notAddressed(t) \/ sendObject(t)
  PROVE  Inv'
<1>1. /\ job[t] # <<>> /\ Over(t, "next", Tail(job[t]))
      /\ UNCHANGED <<dm, router, server, frame, modem>>
  BY DEF notAddressed, sendObject, Sending, Sent
<1>2. /\ mFrameId' \in FrameId /\ modem' \subseteq Answers
      /\ UNCHANGED <<slot, mSensorAddress, router, server, frame>>
  BY <1>1 DEF Inv, TypeOK, dm
<1>. QED BY <1>1, <1>2, Remaining, Ending

\* The flag is cleared by the only thread that may wait for it.
LEMMA ClearStep ==
  ASSUME Inv, NEW t \in Threads, clearResponse(t)
  PROVE  Inv'
<1>1. /\ Go(t, "next", "setId") /\ job[t] # <<>> /\ What(t) \in Synchronous
      /\ mResponseReceived' = FALSE
      /\ UNCHANGED <<mFrameId, mSynchronousFrameId, mReceivedMessage, mSensorAddress,
                     router, server, job, id, frame, modem>>
  BY DEF clearResponse, Sending, What
<1>2. /\ Control' /\ Moves(t, "setId", job[t])
      /\ pc' \in [Threads -> Places] /\ job' \in [Threads -> Seq(Item)]
  BY <1>1, Kinds, GoKeeps DEF OnAny, OnSync
<1>3. TypeOK'
  BY <1>1, <1>2 DEF Inv, TypeOK, Places, Item
<1>4. Unanswered'
  BY <1>1 DEF Unanswered
<1>5. Clean'
  <2>1. \A u \in Threads : Cleared(u)' => Cleared(u)
    BY <1>1 DEF Go, Cleared, What, Inv, TypeOK
  <2>. QED BY <1>1, <2>1 DEF Inv, Clean, Threads
<1>. QED BY <1>2, <1>3, <1>4, <1>5 DEF Inv

\* The id that a request waits for is stored.
LEMMA SetIdStep ==
  ASSUME Inv, NEW t \in Threads, setSynchronousId(t)
  PROVE  Inv'
<1>1. /\ Go(t, "setId", "forget") /\ mSynchronousFrameId' = mFrameId
      /\ UNCHANGED <<mFrameId, mResponseReceived, mReceivedMessage, mSensorAddress,
                     router, server, job, id, frame, modem>>
  BY DEF setSynchronousId
<1>2. /\ job[t] # <<>> /\ What(t) \in Synchronous
  BY <1>1 DEF Inv, Control, Busy, OnAny, OnSync, Go
<1>3. /\ Control' /\ Moves(t, "forget", job[t])
      /\ pc' \in [Threads -> Places] /\ job' \in [Threads -> Seq(Item)]
  BY <1>1, <1>2, Kinds, GoKeeps DEF OnAny, OnSync
<1>4. TypeOK'
  BY <1>1, <1>3 DEF Inv, TypeOK, Places, Item
<1>5. (Waits(t)' => Waits(t)) /\ (Cleared(t)' => Cleared(t))
  BY <1>1 DEF Go, Waits, Cleared, What, OnAny, OnSync, Inv, TypeOK
<1>6. Unanswered' /\ Clean'
  BY <1>1, <1>3, <1>5, MoveKeepsSlot DEF Inv
<1>. QED BY <1>3, <1>4, <1>6 DEF Inv

\* From here on the slot is empty until the serial thread fills it.
LEMMA ForgetStep ==
  ASSUME Inv, NEW t \in Threads, forgetMessage(t)
  PROVE  Inv'
<1>1. /\ Go(t, "forget", "take") /\ mReceivedMessage' = "null"
      /\ UNCHANGED <<mFrameId, mSynchronousFrameId, mResponseReceived, mSensorAddress,
                     router, server, job, id, frame, modem>>
  BY DEF forgetMessage, Forgotten
<1>2. /\ job[t] # <<>> /\ What(t) \in Synchronous
  BY <1>1 DEF Inv, Control, Busy, OnAny, OnSync, Go
<1>3. /\ Control' /\ Moves(t, "take", job[t])
      /\ pc' \in [Threads -> Places] /\ job' \in [Threads -> Seq(Item)]
  BY <1>1, <1>2, Kinds, GoKeeps DEF OnAny, OnSync
<1>4. TypeOK'
  BY <1>1, <1>3 DEF Inv, TypeOK, Places, Item
<1>5. \A u \in Threads : Waits(u)' => Waits(u)
  BY <1>1 DEF Go, Waits, What, OnAny, OnSync, Inv, TypeOK
<1>6. Unanswered' /\ Clean'
  BY <1>1, <1>5 DEF Inv, Unanswered, Clean, Threads
<1>. QED BY <1>3, <1>4, <1>6 DEF Inv

\* The frame id is read for the frame to send.
LEMMA TakeStep ==
  ASSUME Inv, NEW t \in Threads, takeId(t)
  PROVE  Inv'
<1>1. /\ pc[t] \in {"next", "take"} /\ Go(t, pc[t], "send")
      /\ id' = [id EXCEPT ![t] = mFrameId]
      /\ UNCHANGED <<dm, router, server, job, frame, modem>>
      /\ pc[t] = "next" => job[t] # <<>> /\ What(t) \in Sends \ Synchronous
  BY DEF takeId, Sending, What
<1>2. /\ job[t] # <<>> /\ What(t) \in Sends
  BY <1>1 DEF Inv, Control, Busy, OnAny, OnSync
<1>3. /\ Control' /\ Moves(t, "send", job[t])
      /\ pc' \in [Threads -> Places] /\ job' \in [Threads -> Seq(Item)]
  BY <1>1, <1>2, GoKeeps DEF OnAny, OnSync
<1>4. TypeOK'
  BY <1>1, <1>3 DEF Inv, TypeOK, Places, Item, dm, slot
<1>5. (Waits(t)' => Waits(t)) /\ (Cleared(t)' => Cleared(t))
  BY <1>1 DEF Go, Waits, Cleared, What, OnAny, OnSync, Inv, TypeOK
<1>6. Unanswered' /\ Clean'
  BY <1>1, <1>3, <1>5, MoveKeepsSlot DEF Inv, dm, slot
<1>. QED BY <1>3, <1>4, <1>6 DEF Inv

\* Ten seconds have passed without an answer.
LEMMA WaitStep ==
  ASSUME Inv, NEW t \in Threads, noResponse(t)
  PROVE  Inv'
<1>1. /\ Go(t, "wait", "giveUp")
      /\ UNCHANGED <<dm, router, server, job, id, frame, modem>>
  BY DEF noResponse
<1>2. /\ job[t] # <<>> /\ What(t) \in Synchronous
  BY <1>1 DEF Inv, Control, Busy, OnAny, OnSync, Go
<1>3. /\ Control' /\ Moves(t, "giveUp", job[t])
      /\ pc' \in [Threads -> Places] /\ job' \in [Threads -> Seq(Item)]
  BY <1>1, <1>2, Kinds, GoKeeps DEF OnAny, OnSync
<1>4. TypeOK'
  BY <1>1, <1>3 DEF Inv, TypeOK, Places, Item, dm, slot
<1>5. (Waits(t)' => Waits(t)) /\ (Cleared(t)' => Cleared(t))
  BY <1>1 DEF Go, Waits, Cleared, What, OnAny, OnSync, Inv, TypeOK
<1>6. Unanswered' /\ Clean'
  BY <1>1, <1>3, <1>5, MoveKeepsSlot DEF Inv, dm, slot
<1>. QED BY <1>3, <1>4, <1>6 DEF Inv

\* After a send the thread waits for the answer, or goes on with the next.
LEMMA AwaitStep ==
  ASSUME Inv, NEW t \in Threads, NEW from \in {"send", "wrap"}, Await(t, from),
         mFrameId' \in FrameId, modem' \subseteq Answers,
         UNCHANGED <<slot, mSensorAddress, router, server, frame>>
  PROVE  Inv'
<1>1. pc[t] = from
  BY DEF Await, Sent, Over, Go
<1>2. job[t] # <<>> /\ What(t) \in Sends
  BY <1>1 DEF Inv, Control, Busy, OnAny
<1>3. ASSUME What(t) \in Synchronous  PROVE Inv'
  <2>1. Go(t, from, "wait") /\ UNCHANGED <<job, id>>
    BY <1>3 DEF Await, What
  <2>2. /\ Control' /\ Moves(t, "wait", job[t])
        /\ pc' \in [Threads -> Places] /\ job' \in [Threads -> Seq(Item)]
    BY <1>2, <1>3, <2>1, GoKeeps DEF OnAny, OnSync
  <2>3. TypeOK'
    BY <2>1, <2>2 DEF Inv, TypeOK, Places, Item, slot
  <2>4. (Waits(t)' => Waits(t)) /\ (Cleared(t)' => Cleared(t))
    BY <2>1 DEF Go, Waits, Cleared, What, OnAny, OnSync, Inv, TypeOK
  <2>5. Unanswered' /\ Clean'
    BY <2>2, <2>4, MoveKeepsSlot DEF Inv, slot
  <2>. QED BY <2>2, <2>3, <2>5 DEF Inv
<1>4. ASSUME What(t) \notin Synchronous  PROVE Inv'
  <2>1. Over(t, from, Tail(job[t]))
    BY <1>4 DEF Await, Sent, What
  <2>. QED BY <1>2, <2>1, Remaining, Ending
<1>. QED BY <1>3, <1>4

\* The frame leaves, and the modem owes an answer or none.
LEMMA SendStep ==
  ASSUME Inv, NEW t \in Threads, sendData(t)
  PROVE  Inv'
<1>1. /\ pc[t] = "send" /\ mFrameId' = NextId(id[t]) /\ Answered(t)
      /\ UNCHANGED <<slot, mSensorAddress, router, server, frame>>
  BY DEF sendData
<1>2. id[t] \in FrameId
  BY DEF Inv, TypeOK
<1>3. mFrameId' \in FrameId
  BY <1>1, <1>2, RadioAssumption DEF NextId, FrameId
<1>4. modem' \subseteq Answers
  BY <1>1, <1>2 DEF Answered, Answers, Inv, TypeOK
<1>5. job[t] # <<>> /\ What(t) \in Sends
  BY <1>1 DEF Inv, Control, Busy, OnAny
<1>6. ASSUME What(t) \in ATCommands  PROVE Inv'
  <2>1. Go(t, "send", "wrap") /\ UNCHANGED <<job, id>>
    BY <1>6 DEF sendData, What
  <2>2. /\ Control' /\ Moves(t, "wrap", job[t])
        /\ pc' \in [Threads -> Places] /\ job' \in [Threads -> Seq(Item)]
    BY <1>1, <1>5, <2>1, GoKeeps DEF OnAny, OnSync
  <2>3. TypeOK'
    BY <1>1, <1>3, <1>4, <2>1, <2>2 DEF Inv, TypeOK, Places, Item, slot
  <2>4. (Waits(t)' => Waits(t)) /\ (Cleared(t)' => Cleared(t))
    BY <2>1 DEF Go, Waits, Cleared, What, OnAny, OnSync, Inv, TypeOK
  <2>5. Unanswered' /\ Clean'
    BY <1>1, <2>2, <2>4, MoveKeepsSlot DEF Inv, slot
  <2>. QED BY <2>2, <2>3, <2>5 DEF Inv
<1>7. ASSUME What(t) \notin ATCommands  PROVE Inv'
  <2>1. Await(t, "send")
    BY <1>7 DEF sendData, What
  <2>. QED BY <1>1, <1>3, <1>4, <2>1, AwaitStep
<1>. QED BY <1>6, <1>7

\* The counter skips zero, after an AT command only.
LEMMA WrapStep ==
  ASSUME Inv, NEW t \in Threads, skipZero(t)
  PROVE  Inv'
<1>1. /\ Await(t, "wrap") /\ mFrameId' = IF mFrameId = 0 THEN 1 ELSE mFrameId
      /\ UNCHANGED <<slot, mSensorAddress, router, server, frame, modem>>
  BY DEF skipZero
<1>2. mFrameId' \in FrameId /\ modem' \subseteq Answers
  BY <1>1, RadioAssumption DEF FrameId, Inv, TypeOK
<1>. QED BY <1>1, <1>2, AwaitStep

\* What is left after a request that has waited.
LEMMA Continues ==
  ASSUME Inv, NEW t \in Threads, pc[t] \in {"wait", "giveUp"},
         NEW rest \in AfterSend(t)
  PROVE  rest \in Seq(Item) /\ t \notin Callers
<1>1. job[t] # <<>> /\ What(t) \in Synchronous
  BY DEF Inv, Control, Busy, OnAny, OnSync
<1>. QED BY <1>1, Remaining, Lists DEF AfterSend

\* The serial thread alone fills the slot, so it never reads an answer; of the
\* others at most one is in a request, and it alone loses the message.
LEMMA CheckStep ==
  ASSUME Inv, NEW t \in Threads, checkResponse(t)
  PROVE  Inv'
<1>1. /\ pc[t] = "wait" /\ mResponseReceived
      /\ mReceivedMessage' = IF mReceivedMessage = "null" THEN "null" ELSE "freed"
      /\ UNCHANGED <<mFrameId, mSynchronousFrameId, mResponseReceived, mSensorAddress,
                     router, server, frame, modem>>
  BY DEF checkResponse
<1>2. PICK rest \in AfterSend(t) : Over(t, "wait", rest)
  BY DEF checkResponse
<1>3. rest \in Seq(Item) /\ t \notin Callers
  BY <1>1, Continues
<1>4. What(t) \in Synchronous
  BY <1>1 DEF Inv, Control, Busy, OnAny, OnSync
<1>5. t # "serial"
  BY <1>1, <1>4 DEF Inv, Unanswered, Waits, OnAny, OnSync
<1>6. /\ Control' /\ ~Waits(t)' /\ ~Cleared(t)'
      /\ pc' \in [Threads -> Places] /\ job' \in [Threads -> Seq(Item)]
      /\ id' \in [Threads -> FrameId]
  BY <1>1, <1>2, <1>3, OverKeeps
<1>7. TypeOK'
  BY <1>1, <1>6 DEF Inv, TypeOK, Places, Item
<1>8. \A u \in Threads \ {t} : pc'[u] = pc[u] /\ job'[u] = job[u]
  BY <1>2 DEF Over, Go, Inv, TypeOK
<1>9. Unanswered'
  BY <1>1, <1>5, <1>8 DEF Inv, Unanswered, Waits, What, Threads
<1>10. Clean'
  <2>1. t \in Workers \cup {"main"}
    BY <1>3, <1>5 DEF Threads
  <2>2. ASSUME NEW u \in Workers \cup {"main"}, u # t  PROVE pc[u] \in {"idle", "lock", "next"}
    <3>1. t # "main" => pc["main"] = "idle"
      BY <1>1, <1>5 DEF Inv, Control, Startup
    <3>2. t = "main" => pc[u] = "idle"
      BY <1>1, <2>2, RadioAssumption DEF Inv, Control, Startup, Threads
    <3>3. t # "main" /\ u # "main" => pc[u] = "idle"
      BY <1>1, <2>1, <2>2 DEF Inv, Control, Holder
    <3>. QED BY <3>1, <3>2, <3>3
  <2>3. \A u \in Workers \cup {"main"} : ~Cleared(u)'
    BY <1>6, <1>8, <2>2 DEF Cleared, Threads
  <2>. QED BY <2>3 DEF Clean
<1>. QED BY <1>6, <1>7, <1>9, <1>10 DEF Inv

\* A request that gives up waits for no id any more.
LEMMA GiveUpStep ==
  ASSUME Inv, NEW t \in Threads, giveUp(t)
  PROVE  Inv'
<1>1. /\ pc[t] = "giveUp" /\ mSynchronousFrameId' = 0
      /\ UNCHANGED <<mFrameId, mResponseReceived, mReceivedMessage, mSensorAddress,
                     router, server, frame, modem>>
  BY DEF giveUp
<1>2. PICK rest \in AfterSend(t) : Over(t, "giveUp", rest)
  BY DEF giveUp
<1>3. rest \in Seq(Item) /\ t \notin Callers
  BY <1>1, Continues
<1>4. /\ Control' /\ ~Waits(t)' /\ ~Cleared(t)'
      /\ pc' \in [Threads -> Places] /\ job' \in [Threads -> Seq(Item)]
      /\ id' \in [Threads -> FrameId]
      /\ \E p : Moves(t, p, rest)
  BY <1>1, <1>2, <1>3, OverKeeps
<1>5. 0 \in FrameId
  BY RadioAssumption DEF FrameId
<1>6. TypeOK'
  BY <1>1, <1>4, <1>5 DEF Inv, TypeOK, Places, Item
<1>7. Unanswered' /\ Clean'
  BY <1>1, <1>4, MoveKeepsSlot DEF Inv
<1>. QED BY <1>4, <1>6, <1>7 DEF Inv

\* Whoever gives the router back has it, so no worker is in a request.
LEMMA FinishStep ==
  ASSUME Inv, NEW t \in Threads, finish(t)
  PROVE  Inv'
<1>1. /\ job[t] = <<>> /\ pc[t] = "next" /\ pc' = [pc EXCEPT ![t] = "idle"]
      /\ router' = None /\ server' \in {None, server}
      /\ UNCHANGED <<dm, job, id, frame, modem>>
  BY DEF finish, Go
<1>2. router = t
  BY <1>1 DEF Inv, Control, Leaving
<1>3. /\ pc'[t] = "idle" /\ \A u \in Threads \ {t} : pc'[u] = pc[u]
  BY <1>1 DEF Inv, TypeOK
<1>4. \A u \in Threads : (Waits(u)' => Waits(u)) /\ (Cleared(u)' => Cleared(u))
  BY <1>1, <1>3 DEF Waits, Cleared, What, OnAny, OnSync
<1>5. Busy'
  BY <1>1, <1>3 DEF Inv, Control, Busy, What, OnAny, OnSync
<1>6. Startup'
  BY <1>3 DEF Inv, Control, Startup, Threads
<1>7. Holder'
  BY <1>2, <1>3 DEF Inv, Control, Holder, Threads
<1>8. Leaving'
  BY <1>1, <1>2, <1>3 DEF Inv, Control, Leaving
<1>9. Posting'
  BY <1>1 DEF Inv, Control, Posting
<1>10. Unanswered' /\ Clean'
  BY <1>1, <1>4 DEF Inv, Unanswered, Clean, dm, slot, Threads
<1>11. TypeOK'
  <2>1. pc' \in [Threads -> Places]
    BY <1>1 DEF Inv, TypeOK, Places
  <2>. QED BY <1>1, <2>1 DEF Inv, TypeOK, Places, dm, slot
<1>. QED BY <1>5, <1>6, <1>7, <1>8, <1>9, <1>10, <1>11 DEF Inv, Control

\* Every step of a request.
LEMMA RequestStep ==
  ASSUME Inv, NEW t \in Threads, Request(t)
  PROVE  Inv'
<1>1. notAddressed(t) \/ sendObject(t) => Inv'
  BY SkipStep
<1>2. clearResponse(t) => Inv'
  BY ClearStep
<1>3. setSynchronousId(t) => Inv'
  BY SetIdStep
<1>4. forgetMessage(t) => Inv'
  BY ForgetStep
<1>5. takeId(t) => Inv'
  BY TakeStep
<1>6. sendData(t) => Inv'
  BY SendStep
<1>7. skipZero(t) => Inv'
  BY WrapStep
<1>8. checkResponse(t) => Inv'
  BY CheckStep
<1>9. noResponse(t) => Inv'
  BY WaitStep
<1>10. giveUp(t) => Inv'
  BY GiveUpStep
<1>11. finish(t) => Inv'
  BY FinishStep
<1>. QED
  BY <1>1, <1>2, <1>3, <1>4, <1>5, <1>6, <1>7, <1>8, <1>9, <1>10, <1>11 DEF Request

-----------------------------------------------------------------------------
(* The steps that begin something.                                         *)

\* A thread that takes up work: place p, list j, and perhaps the router.
Begins(t, p, j) ==
  /\ pc' = [pc EXCEPT ![t] = p] /\ job' = [job EXCEPT ![t] = j]
  /\ p \in {"idle", "lock", "next"} /\ j \in Seq(Item)
  /\ pc[t] \in {"idle", "lock"} /\ pc["main"] = "idle" /\ t # "main"
  /\ t \in Callers => j \in Seq(Posts)
  /\ \/ p = "next" /\ router = None /\ router' = t
     \/ (p = "next" => j # <<>>) /\ t \notin Workers /\ UNCHANGED router

\* A thread that was outside begins something.
LEMMA BeginKeeps ==
  ASSUME Inv, NEW t \in Threads, NEW p, NEW j, Begins(t, p, j),
         UNCHANGED <<slot, server, id, frame>>,
         mFrameId' \in FrameId, mSensorAddress' \subseteq Sensors, modem' \subseteq Answers
  PROVE  Inv'
<1>1. /\ pc \in [Threads -> Places] /\ job \in [Threads -> Seq(Item)]
  BY DEF Inv, TypeOK, Places, Item
<1>2. /\ pc'[t] = p /\ job'[t] = j
      /\ \A u \in Threads \ {t} : pc'[u] = pc[u] /\ job'[u] = job[u]
  BY <1>1 DEF Begins
<1>3. p \notin OnAny /\ pc["main"] = "idle" /\ p \in Places /\ j \in Seq(Item)
  BY DEF Begins, OnAny, OnSync, Places
<1>4. TypeOK'
  <2>1. pc' \in [Threads -> Places] /\ job' \in [Threads -> Seq(Item)]
    BY <1>1, <1>3 DEF Begins
  <2>2. router' \in Threads \cup {None}
    BY DEF Begins, Inv, TypeOK
  <2>. QED BY <2>1, <2>2 DEF Inv, TypeOK, Places, Item, slot
<1>5. Busy'
  BY <1>2, <1>3 DEF Inv, Control, Busy, What, OnSync, OnAny
<1>6. t # "main"
  BY DEF Begins
<1>7. Startup'
  BY <1>2, <1>3, <1>6 DEF Startup, Threads
<1>8. Holder'
  <2>1. ASSUME router = None, router' = t  PROVE Holder'
    <3>1. \A w \in Workers : pc[w] = "idle"
      BY <2>1, RadioAssumption DEF Inv, Control, Holder, Threads
    <3>. QED BY <1>2, <2>1, <3>1 DEF Holder, Threads
  <2>2. ASSUME t \notin Workers, UNCHANGED router  PROVE Holder'
    BY <1>2, <2>2 DEF Inv, Control, Holder, Threads
  <2>. QED BY <2>1, <2>2 DEF Begins
<1>9. Leaving'
  <2>1. ASSUME router = None, router' = t  PROVE Leaving'
    <3>1. \A u \in Threads : ~(pc[u] = "next" /\ job[u] = <<>>)
      BY <2>1, RadioAssumption DEF Inv, Control, Leaving, Threads
    <3>. QED BY <1>2, <2>1, <3>1 DEF Leaving
  <2>2. ASSUME p = "next" => j # <<>>, UNCHANGED router  PROVE Leaving'
    BY <1>2, <2>2 DEF Inv, Control, Leaving
  <2>. QED BY <2>1, <2>2 DEF Begins
<1>10. Posting'
  BY <1>2 DEF Inv, Control, Posting, Begins, Threads
<1>11. \A u \in Threads : (Waits(u)' => Waits(u)) /\ (Cleared(u)' => Cleared(u))
  BY <1>2, <1>3 DEF Waits, Cleared, What, OnAny, OnSync
<1>12. Unanswered' /\ Clean'
  BY <1>11 DEF Inv, Unanswered, Clean, slot, Threads
<1>. QED BY <1>4, <1>5, <1>7, <1>8, <1>9, <1>10, <1>12 DEF Inv, Control

\* What is told to clients does not change what a list is made of.
LEMMA Told ==
  ASSUME NEW told \in {<<>>, <<Only("clients")>>}
  PROVE  /\ \A j \in Seq(Item) : j \o told \in Seq(Item) /\ told \o j \in Seq(Item)
         /\ \A j \in Seq(Posts) : told \o j \in Seq(Posts)
<1>1. Only("clients") \in Item /\ Only("clients") \in Posts
  BY Kinds DEF Posts
<1>2. <<Only("clients")>> \in Seq(Item) /\ <<Only("clients")>> \in Seq(Posts)
  BY <1>1
<1>3. told \in Seq(Item)
  BY <1>2, EmptySeq
<1>4. told \in Seq(Posts)
  BY <1>2, EmptySeq
<1>. QED BY <1>3, <1>4, ConcatProperties

\* A worker enters the router to tell its room.
LEMMA TellStep ==
  ASSUME Inv, NEW w \in Workers, tellRoom(w)
  PROVE  Inv'
<1>1. /\ pc["main"] = "idle" /\ router = None /\ router' = w
      /\ pc[w] = "idle" /\ pc' = [pc EXCEPT ![w] = "next"]
      /\ UNCHANGED <<dm, server, id, frame, modem>>
  BY DEF tellRoom, Running, Go
<1>2. PICK told \in {<<>>, <<Only("clients")>>} : job' = [job EXCEPT ![w] = RoomWrites \o told]
  BY DEF tellRoom
<1>3. RoomWrites \o told \in Seq(Item)
  BY Lists, Told
<1>4. w \notin Callers /\ w # "main" /\ w \in Threads
  BY RadioAssumption DEF Threads
<1>5. Begins(w, "next", RoomWrites \o told)
  BY <1>1, <1>2, <1>3, <1>4 DEF Begins
<1>6. /\ UNCHANGED <<slot, server, id, frame>>
      /\ mFrameId' \in FrameId /\ mSensorAddress' \subseteq Sensors /\ modem' \subseteq Answers
  BY <1>1 DEF dm, Inv, TypeOK
<1>. QED BY <1>4, <1>5, <1>6, BeginKeeps

\* The timer broadcasts without the router.
LEMMA TimeStep ==
  ASSUME Inv, NEW c \in Callers, writeTime(c)
  PROVE  Inv'
<1>1. /\ pc["main"] = "idle" /\ pc[c] = "idle" /\ pc' = [pc EXCEPT ![c] = "next"]
      /\ job' = [job EXCEPT ![c] = <<Only("post")>>]
      /\ UNCHANGED <<dm, router, server, id, frame, modem>>
  BY DEF writeTime, Running, Go
<1>2. <<Only("post")>> \in Seq(Item) /\ <<Only("post")>> \in Seq(Posts) /\ <<Only("post")>> # <<>>
  BY Kinds DEF Posts
<1>3. c \notin Workers /\ c # "main" /\ c \in Threads
  BY RadioAssumption DEF Threads
<1>4. Begins(c, "next", <<Only("post")>>)
  BY <1>1, <1>2, <1>3 DEF Begins
<1>5. /\ UNCHANGED <<slot, server, id, frame>>
      /\ mFrameId' \in FrameId /\ mSensorAddress' \subseteq Sensors /\ modem' \subseteq Answers
  BY <1>1 DEF dm, Inv, TypeOK
<1>. QED BY <1>3, <1>4, <1>5, BeginKeeps

\* The mutex of the server plays no part in the invariant.
LEMMA LockStep ==
  ASSUME Inv, NEW c \in Callers, lockServer(c)
  PROVE  Inv'
<1>1. /\ pc["main"] = "idle" /\ server' = c
      /\ pc[c] = "idle" /\ pc' = [pc EXCEPT ![c] = "lock"]
      /\ UNCHANGED <<dm, router, job, id, frame, modem>>
  BY DEF lockServer, Running, Go
<1>2. c \notin Workers /\ c # "main" /\ c \in Threads
  BY RadioAssumption DEF Threads
<1>3. /\ pc \in [Threads -> Places]
  BY DEF Inv, TypeOK, Places
<1>4. /\ pc'[c] = "lock" /\ \A u \in Threads \ {c} : pc'[u] = pc[u]
  BY <1>1, <1>2, <1>3
<1>5. TypeOK'
  <2>1. pc' \in [Threads -> Places]
    BY <1>1, <1>3 DEF Places
  <2>. QED BY <1>1, <2>1 DEF Inv, TypeOK, Places, dm, slot
<1>6. Busy'
  BY <1>1, <1>4 DEF Inv, Control, Busy, What, OnAny, OnSync
<1>7. Startup'
  BY <1>1, <1>2, <1>4 DEF Startup, Threads
<1>8. Holder'
  BY <1>1, <1>2, <1>4 DEF Inv, Control, Holder, Threads
<1>9. Leaving'
  BY <1>1, <1>4 DEF Inv, Control, Leaving
<1>10. Posting'
  BY <1>1 DEF Inv, Control, Posting
<1>11. \A u \in Threads : (Waits(u)' => Waits(u)) /\ (Cleared(u)' => Cleared(u))
  BY <1>1, <1>4 DEF Waits, Cleared, What, OnAny, OnSync
<1>12. Unanswered' /\ Clean'
  BY <1>1, <1>11 DEF Inv, Unanswered, Clean, dm, slot, Threads
<1>. QED BY <1>5, <1>6, <1>7, <1>8, <1>9, <1>10, <1>12 DEF Inv, Control

\* A thread that waited for the router gets it.
LEMMA EnterStep ==
  ASSUME Inv, NEW t \in Callers \cup {"serial"}, enterRouter(t)
  PROVE  Inv'
<1>1. /\ router = None /\ router' = t
      /\ pc[t] = "lock" /\ pc' = [pc EXCEPT ![t] = "next"]
      /\ UNCHANGED <<dm, server, id, frame, modem>>
  BY DEF enterRouter, Go
<1>2. PICK told \in {<<>>, <<Only("clients")>>} : job' = [job EXCEPT ![t] = told \o @]
  BY DEF enterRouter
<1>3. t # "main" /\ t \in Threads
  BY RadioAssumption DEF Threads
<1>4. pc["main"] = "idle"
  BY <1>1, <1>3 DEF Inv, Control, Startup
<1>5. job[t] \in Seq(Item) /\ (t \in Callers => job[t] \in Seq(Posts))
  BY <1>3 DEF Inv, TypeOK, Item, Control, Posting
<1>6. told \o job[t] \in Seq(Item) /\ (t \in Callers => told \o job[t] \in Seq(Posts))
  BY <1>5, Told
<1>7. job' = [job EXCEPT ![t] = told \o job[t]]
  BY <1>2, <1>3 DEF Inv, TypeOK
<1>8. Begins(t, "next", told \o job[t])
  BY <1>1, <1>3, <1>4, <1>6, <1>7 DEF Begins
<1>9. /\ UNCHANGED <<slot, server, id, frame>>
      /\ mFrameId' \in FrameId /\ mSensorAddress' \subseteq Sensors /\ modem' \subseteq Answers
  BY <1>1 DEF dm, Inv, TypeOK
<1>. QED BY <1>3, <1>8, <1>9, BeginKeeps

-----------------------------------------------------------------------------
(* The serial thread.                                                      *)

\* The serial thread is none of the others.
LEMMA Serial == "serial" \in Threads \ (Workers \cup Callers \cup {"main"})
BY RadioAssumption DEF Threads

\* An answer of the modem is taken up, or nobody waits for it.
LEMMA AnswerStep ==
  ASSUME Inv, receiveAnswer
  PROVE  Inv'
<1>1. PICK f \in modem \cup Reports :
        /\ frame' = f /\ modem' = modem \ {f}
        /\ pc["serial"] = "idle" /\ pc' = [pc EXCEPT !["serial"] = "flag"]
        /\ UNCHANGED <<dm, router, server, job, id>>
  BY DEF receiveAnswer, Go
<1>2. pc \in [Threads -> Places]
  BY DEF Inv, TypeOK, Places
<1>3. /\ pc'["serial"] = "flag" /\ \A u \in Threads \ {"serial"} : pc'[u] = pc[u]
  BY <1>1, <1>2, Serial
<1>4. TypeOK'
  <2>1. pc' \in [Threads -> Places]
    BY <1>1, <1>2 DEF Places
  <2>2. frame' \in Answers \cup Reports \cup {None} /\ modem' \subseteq Answers
    BY <1>1 DEF Inv, TypeOK
  <2>. QED BY <1>1, <2>1, <2>2 DEF Inv, TypeOK, Places, dm, slot
<1>5. Busy'
  BY <1>1, <1>3 DEF Inv, Control, Busy, What, OnAny, OnSync
<1>6. Startup'
  BY <1>3, Serial DEF Inv, Control, Startup, Threads
<1>7. Holder'
  BY <1>1, <1>3, Serial DEF Inv, Control, Holder, Threads
<1>8. Leaving'
  BY <1>1, <1>3 DEF Inv, Control, Leaving
<1>9. Posting'
  BY <1>1 DEF Inv, Control, Posting
<1>10. \A u \in Threads : (Waits(u)' => Waits(u)) /\ (Cleared(u)' => Cleared(u))
  BY <1>1, <1>3 DEF Waits, Cleared, What, OnAny, OnSync
<1>11. Unanswered' /\ Clean'
  BY <1>1, <1>10 DEF Inv, Unanswered, Clean, dm, slot, Threads
<1>. QED BY <1>4, <1>5, <1>6, <1>7, <1>8, <1>9, <1>11 DEF Inv, Control

\* A report begins work of the serial thread and fills no slot.
LEMMA ReportStep ==
  ASSUME Inv, receiveReport
  PROVE  Inv'
<1>1. PICK f \in modem \cup Reports :
        /\ pc["serial"] = "idle" /\ modem' = modem \ {f}
        /\ IF Running /\ f \notin modem
           THEN /\ Go("serial", "idle", IF f \in FromSensors THEN "lock"
                                          ELSE IF Handled(f) = <<>> THEN "idle" ELSE "next")
                /\ job' = [job EXCEPT !["serial"] = Handled(f)]
                /\ mSensorAddress' = mSensorAddress \cup
                      (IF f.type \in {"started", "temperature"} THEN {f.of} ELSE {})
                /\ mFrameId' = IF f.type = "reset" THEN 1 ELSE mFrameId
           ELSE UNCHANGED <<mFrameId, mSensorAddress, pc, job>>
        /\ UNCHANGED <<slot, router, server, id, frame>>
  BY DEF receiveReport
<1>2. modem' \subseteq Answers
  BY <1>1 DEF Inv, TypeOK
<1>3. ASSUME Running, f \notin modem  PROVE Inv'
  <2> DEFINE p == IF f \in FromSensors THEN "lock"
                  ELSE IF Handled(f) = <<>> THEN "idle" ELSE "next"
  <2>1. f \in Reports
    BY <1>3
  <2>2. Handled(f) \in Seq(Item)
    BY <2>1, Lists
  <2>3. p \in {"idle", "lock", "next"} /\ (p = "next" => Handled(f) # <<>>)
    OBVIOUS
  <2>4. Begins("serial", p, Handled(f))
    BY <1>1, <1>3, <2>2, <2>3, Serial DEF Begins, Go, Running
  <2>5. mSensorAddress' \subseteq Sensors
    <3>1. f.type \in {"started", "temperature"} => f.of \in Sensors
      BY <2>1 DEF Reports, FromSensors, Discovery, HardwareReset, WatchdogTimerReset, Frame
    <3>. QED BY <1>1, <1>3, <3>1 DEF Inv, TypeOK
  <2>6. mFrameId' \in FrameId
    BY <1>1, <1>3, RadioAssumption DEF Inv, TypeOK, FrameId
  <2>. QED BY <1>1, <1>2, <2>4, <2>5, <2>6, Serial, BeginKeeps
<1>4. ASSUME ~(Running /\ f \notin modem)  PROVE Inv'
  <2>1. UNCHANGED <<mFrameId, mSensorAddress, pc, job, slot, router, server, id, frame>>
    BY <1>1, <1>4
  <2>2. TypeOK'
    BY <1>2, <2>1 DEF Inv, TypeOK, slot
  <2>3. Control'
    BY <2>1 DEF Inv, Control, Busy, Startup, Holder, Leaving, Posting, What
  <2>4. Unanswered' /\ Clean'
    BY <2>1 DEF Inv, Unanswered, Clean, Waits, Cleared, What, slot
  <2>. QED BY <2>2, <2>3, <2>4 DEF Inv
<1>. QED BY <1>3, <1>4

\* While the serial thread hands an answer over, it is in no request.
LEMMA HandOver ==
  ASSUME Inv, NEW from \in {"flag", "store"}, NEW to \in {"store", "idle"}, Go("serial", from, to),
         UNCHANGED <<mFrameId, mSynchronousFrameId, mSensorAddress, router, server, job, id, modem>>,
         mResponseReceived' \in BOOLEAN, mReceivedMessage' \in {mReceivedMessage, "full"},
         frame' \in {frame, None}
  PROVE  Inv'
<1>1. pc \in [Threads -> Places]
  BY DEF Inv, TypeOK, Places
<1>2. /\ pc'["serial"] = to /\ \A u \in Threads \ {"serial"} : pc'[u] = pc[u]
      /\ job' = job /\ router' = router
  BY <1>1, Serial DEF Go
<1>3. TypeOK'
  <2>1. pc' \in [Threads -> Places]
    BY <1>1 DEF Go, Places
  <2>2. frame' \in Answers \cup Reports \cup {None}
    BY DEF Inv, TypeOK
  <2>. QED BY <2>1, <2>2 DEF Inv, TypeOK, Places
<1>4. Busy'
  BY <1>2 DEF Inv, Control, Busy, What, OnAny, OnSync
<1>5. Startup'
  BY <1>2, Serial DEF Inv, Control, Startup, Threads
<1>6. Holder'
  BY <1>2, Serial DEF Inv, Control, Holder, Threads
<1>7. Leaving'
  BY <1>2 DEF Inv, Control, Leaving
<1>8. Posting'
  BY <1>2 DEF Inv, Control, Posting
<1>9. Unanswered'
  BY <1>2 DEF Unanswered, Waits, OnAny, OnSync
<1>10. Clean'
  <2>1. \A u \in Workers \cup {"main"} : Cleared(u)' => Cleared(u)
    BY <1>2, Serial DEF Cleared, What, Threads
  <2>. QED BY <2>1 DEF Inv, Clean
<1>. QED BY <1>3, <1>4, <1>5, <1>6, <1>7, <1>8, <1>9, <1>10 DEF Inv, Control

\* Every step of the serial thread preserves the invariant.
LEMMA SerialStep ==
  ASSUME Inv, SerialNext
  PROVE  Inv'
<1>1. receiveAnswer => Inv'
  BY AnswerStep
<1>2. receiveReport => Inv'
  BY ReportStep
<1>3. ASSUME raiseFlag  PROVE Inv'
  <2>1. /\ Go("serial", "flag", "store") /\ mResponseReceived' \in BOOLEAN
        /\ UNCHANGED <<mFrameId, mSynchronousFrameId, mReceivedMessage, mSensorAddress,
                       router, server, job, id, frame, modem>>
    BY <1>3 DEF raiseFlag
  <2>. QED BY <2>1, HandOver
<1>4. ASSUME storeMessage  PROVE Inv'
  <2>1. /\ Go("serial", "store", "idle") /\ mReceivedMessage' = "full" /\ frame' = None
        /\ UNCHANGED <<mFrameId, mSynchronousFrameId, mResponseReceived, mSensorAddress,
                       router, server, job, id, modem>>
    BY <1>4 DEF storeMessage
  <2>2. mResponseReceived' \in BOOLEAN
    BY <2>1 DEF Inv, TypeOK
  <2>. QED BY <2>1, <2>2, HandOver
<1>5. Request("serial") => Inv'
  BY Serial, RequestStep
<1>. QED BY <1>1, <1>2, <1>3, <1>4, <1>5 DEF SerialNext

-----------------------------------------------------------------------------
(* The invariant of the specification.                                     *)

\* Only the start-up runs, and the slot is empty.
LEMMA InvInit == Init => Inv
<1>. SUFFICES ASSUME Init PROVE Inv
  OBVIOUS
<1>1. "main" \in Threads /\ "serial" \in Threads
  BY Serial DEF Threads
<1>2. \A t \in Threads : pc[t] = IF t = "main" THEN "next" ELSE "idle"
  BY DEF Init
<1>3. job["main"] # <<>> /\ \A t \in Threads : t # "main" => job[t] = <<>>
  BY <1>1, Lists DEF Init
<1>4. TypeOK
  <2>1. 0 \in FrameId /\ 1 \in FrameId
    BY RadioAssumption DEF FrameId
  <2>2. job \in [Threads -> Seq(Item)]
    BY Lists DEF Init
  <2>3. pc \in [Threads -> Places]
    BY DEF Init, Places
  <2>. QED BY <2>1, <2>2, <2>3 DEF Init, TypeOK, Item, Places
<1>5. Busy /\ Startup
  BY <1>2 DEF Busy, Startup, OnAny, OnSync
<1>6. Holder /\ Leaving
  BY <1>1, <1>2, <1>3, RadioAssumption DEF Holder, Leaving, Threads
<1>7. Posting
  <2>1. \A c \in Callers : job[c] = <<>>
    BY <1>3, RadioAssumption DEF Threads
  <2>. QED BY <2>1, EmptySeq DEF Posting
<1>8. Unanswered /\ Clean
  BY <1>1, <1>2 DEF Unanswered, Clean, Waits, Cleared, OnAny, OnSync, Threads
<1>. QED BY <1>4, <1>5, <1>6, <1>7, <1>8 DEF Inv, Control

\* Every step of every thread preserves the invariant.
LEMMA InvNext == Inv /\ [Next]_vars => Inv'
<1>. SUFFICES ASSUME Inv, [Next]_vars PROVE Inv'
  OBVIOUS
<1>1. (\E w \in Workers : tellRoom(w)) => Inv'
  BY TellStep
<1>2. (\E t \in Threads \ {"serial"} : Request(t)) => Inv'
  BY RequestStep
<1>3. (\E c \in Callers : writeTime(c) \/ lockServer(c)) => Inv'
  BY TimeStep, LockStep
<1>4. (\E t \in Callers \cup {"serial"} : enterRouter(t)) => Inv'
  BY EnterStep
<1>5. SerialNext => Inv'
  BY SerialStep
<1>6. (\E a \in modem : loseAnswer(a)) => Inv'
  <2>. SUFFICES ASSUME NEW a \in modem, loseAnswer(a) PROVE Inv'
    OBVIOUS
  <2>1. /\ modem' \subseteq Answers
        /\ UNCHANGED <<dm, router, server, pc, job, id, frame>>
    BY DEF loseAnswer, Inv, TypeOK
  <2>2. TypeOK'
    BY <2>1 DEF Inv, TypeOK, dm, slot
  <2>3. Control'
    BY <2>1 DEF Inv, Control, Busy, Startup, Holder, Leaving, Posting, What
  <2>4. Unanswered' /\ Clean'
    BY <2>1 DEF Inv, Unanswered, Clean, Waits, Cleared, What, dm, slot
  <2>. QED BY <2>2, <2>3, <2>4 DEF Inv
<1>7. UNCHANGED vars => Inv'
  <2>. SUFFICES ASSUME UNCHANGED vars PROVE Inv'
    OBVIOUS
  <2>1. TypeOK'
    BY DEF Inv, TypeOK, vars, dm, slot
  <2>2. Control'
    BY DEF Inv, Control, Busy, Startup, Holder, Leaving, Posting, What, vars
  <2>3. Unanswered' /\ Clean'
    BY DEF Inv, Unanswered, Clean, Waits, Cleared, What, vars, dm, slot
  <2>. QED BY <2>1, <2>2, <2>3 DEF Inv
<1>. QED BY <1>1, <1>2, <1>3, <1>4, <1>5, <1>6, <1>7 DEF Next

\* The invariant holds throughout.
LEMMA InvHolds == Spec => []Inv
<1>. QED BY InvInit, InvNext, PTL DEF Spec

\* The variables of the radio keep their types, for any threads, commands and
\* width of the frame id (DMComm.h, TemperatureSensors.h).
THEOREM TypeCorrect == Spec => []TypeOK
<1>1. Inv => TypeOK
  BY DEF Inv
<1>. QED BY <1>1, InvHolds, PTL

\* Of those who may wait, the callers send nothing that is answered, the serial
\* thread sees no flag, and the others have forgotten what was in the slot
\* before they sent (DMComm.cpp:133-146).
THEOREM AnswersReturnedOnce == Spec => []AnswerReturnedOnce
<1>1. ASSUME Inv, NEW t \in Threads, pc[t] = "wait", mResponseReceived
      PROVE  mReceivedMessage # "freed"
  <2>1. job[t] # <<>> /\ What(t) \in Synchronous
    BY <1>1 DEF Inv, Control, Busy, OnAny, OnSync
  <2>2. t \notin Callers
    BY <1>1, <2>1, Remaining
  <2>3. t # "serial"
    BY <1>1, <2>1 DEF Inv, Unanswered, Waits, OnAny, OnSync
  <2>4. t \in Workers \cup {"main"}
    BY <2>2, <2>3 DEF Threads
  <2>. QED BY <1>1, <2>1, <2>4 DEF Inv, Clean, Cleared
<1>2. Inv => AnswerReturnedOnce
  BY <1>1 DEF AnswerReturnedOnce
<1>. QED BY <1>2, InvHolds, PTL

-----------------------------------------------------------------------------
(* What is taken for an answer.                                            *)

\* Answers and the status of the watchdog are the only frames with an id.
LEMMA OnlyAnswers ==
  ASSUME Inv, ReportsAreNotAnswers, [Next]_vars
  PROVE  ReportsAreNotAnswers'
<1>1. ASSUME receiveAnswer  PROVE ReportsAreNotAnswers'
  <2>1. PICK f \in modem \cup Reports : IsAnswer(f) /\ frame' = f
    BY <1>1 DEF receiveAnswer
  <2>2. f \in Answers => f.type = "answer"
    BY DEF Answers, Answer, Frame
  <2>3. f \in Reports /\ f.id # 0 => f.type = "status"
    BY DEF Reports, FromSensors, Discovery, HardwareReset, WatchdogTimerReset, Frame
  <2>4. f \in Answers \cup Reports
    BY DEF Inv, TypeOK
  <2>. QED BY <2>1, <2>2, <2>3, <2>4 DEF IsAnswer, ReportsAreNotAnswers
<1>2. ASSUME storeMessage  PROVE ReportsAreNotAnswers'
  BY <1>2 DEF storeMessage, ReportsAreNotAnswers
<1>3. ASSUME NEW t \in Threads, Request(t)  PROVE UNCHANGED frame
  BY <1>3 DEF Request, notAddressed, clearResponse, setSynchronousId, forgetMessage, takeId,
              sendData, skipZero, checkResponse, noResponse, giveUp, sendObject, finish
<1>4. ASSUME receiveReport  PROVE UNCHANGED frame
  BY <1>4 DEF receiveReport
<1>5. ASSUME raiseFlag  PROVE UNCHANGED frame
  BY <1>5 DEF raiseFlag
<1>6. (\E w \in Workers : tellRoom(w)) => UNCHANGED frame
  BY DEF tellRoom
<1>7. (\E c \in Callers : writeTime(c) \/ lockServer(c)) => UNCHANGED frame
  BY DEF writeTime, lockServer
<1>8. (\E t \in Callers \cup {"serial"} : enterRouter(t)) => UNCHANGED frame
  BY DEF enterRouter
<1>9. (\E a \in modem : loseAnswer(a)) => UNCHANGED frame
  BY DEF loseAnswer
<1>10. UNCHANGED vars => UNCHANGED frame
  BY DEF vars
<1>11. UNCHANGED frame => ReportsAreNotAnswers'
  BY DEF ReportsAreNotAnswers
<1>12. SerialNext => ReportsAreNotAnswers'
  BY <1>1, <1>2, <1>3, <1>4, <1>5, <1>11, Serial DEF SerialNext
<1>. QED BY <1>3, <1>6, <1>7, <1>8, <1>9, <1>10, <1>11, <1>12 DEF Next

\* Whatever the frame ids wrap around to, what a sensor says and the reset of
\* the modem are not taken for answers (DMComm.cpp:167-171).
THEOREM ReportsNeverAnswer == Spec => []ReportsAreNotAnswers
<1>1. Init => ReportsAreNotAnswers
  BY DEF Init, ReportsAreNotAnswers
<1>. QED BY <1>1, OnlyAnswers, InvHolds, PTL DEF Spec


-----------------------------------------------------------------------------
(* The mutex of the router.                                                *)

\* Whoever has the router has entered it, and is in no other wait for a mutex.
Held == router # None => pc[router] \notin {"idle", "lock", "flag", "store"}

\* Thread t is at the guard of a step of Request(t) that asks nothing of any other
\* thread, of a mutex or of the modem: it may send, be in a send, or be done.
Ready(t) ==
  \/ pc[t] = "next" /\ job[t] = <<>>
  \/ pc[t] = "next" /\ job[t] # <<>> /\ What(t) \in Sends
  \/ pc[t] = "next" /\ job[t] # <<>> /\ What(t) = "clients" /\ ~SendObjectWaits
  \/ pc[t] \in OnAny /\ job[t] # <<>> /\ What(t) \in Sends

\* A send that is over gives up its place only if the router is not in hand.
LEMMA OverHeld ==
  ASSUME TypeOK, Held, NEW t \in Threads, NEW from, NEW rest, Over(t, from, rest),
         UNCHANGED router
  PROVE  Held'
BY DEF TypeOK, Held, Over, Go

\* A step within a send leads to a place that waits for no mutex.
LEMMA GoHeld ==
  ASSUME TypeOK, Held, NEW t \in Threads, NEW from, NEW to \in OnAny, Go(t, from, to),
         UNCHANGED router
  PROVE  Held'
BY DEF TypeOK, Held, Go, OnAny, OnSync

\* A thread without the router moves as it likes.
LEMMA OutsideHeld ==
  ASSUME TypeOK, Held, NEW t \in Threads, NEW from \in {"idle", "lock", "flag", "store"}, NEW to,
         Go(t, from, to), UNCHANGED router
  PROVE  Held'
<1>1. router # t BY RadioAssumption DEF Held, Go, Threads
<1>2. \A u \in Threads \ {t} : pc'[u] = pc[u] BY DEF TypeOK, Go
<1>. QED BY <1>1, <1>2 DEF TypeOK, Held

\* Whatever a request does, its thread stays ready if it has the router.
LEMMA RequestHeld ==
  ASSUME Inv, Held, NEW t \in Threads, Request(t)
  PROVE  Held'
<1>. USE DEF Inv
<1>1. CASE notAddressed(t) BY <1>1, OverHeld DEF notAddressed, Sent
<1>2. CASE clearResponse(t) BY <1>2, GoHeld DEF clearResponse, OnAny, OnSync
<1>3. CASE setSynchronousId(t) BY <1>3, GoHeld DEF setSynchronousId, OnAny, OnSync
<1>4. CASE forgetMessage(t) BY <1>4, GoHeld DEF forgetMessage, OnAny, OnSync
<1>5. CASE takeId(t) BY <1>5, GoHeld DEF takeId, OnAny, OnSync
<1>6. CASE sendData(t)
  <2>1. UNCHANGED router /\ (Go(t, "send", "wrap") \/ Await(t, "send")) BY <1>6 DEF sendData
  <2>2. CASE Go(t, "send", "wrap") BY <2>1, <2>2, GoHeld DEF OnAny, OnSync
  <2>3. CASE Await(t, "send") BY <2>1, <2>3, GoHeld, OverHeld DEF Await, Sent, OnAny, OnSync
  <2>. QED BY <2>1, <2>2, <2>3
<1>7. CASE skipZero(t) BY <1>7, GoHeld, OverHeld DEF skipZero, Await, Sent, OnAny, OnSync
<1>8. CASE checkResponse(t) BY <1>8, OverHeld DEF checkResponse
<1>9. CASE noResponse(t) BY <1>9, GoHeld DEF noResponse, OnAny, OnSync
<1>10. CASE giveUp(t) BY <1>10, OverHeld DEF giveUp
<1>11. CASE sendObject(t) BY <1>11, OverHeld DEF sendObject, Sent
<1>12. CASE finish(t) BY <1>12 DEF finish, Held
<1>. QED BY <1>1, <1>2, <1>3, <1>4, <1>5, <1>6, <1>7, <1>8, <1>9, <1>10, <1>11, <1>12
         DEF Request

\* Every step of every thread preserves it.
LEMMA HeldStep == Inv /\ Held /\ [Next]_vars => Held'
<1>. SUFFICES ASSUME Inv, Held, [Next]_vars PROVE Held' OBVIOUS
<1>0. TypeOK BY DEF Inv
<1>1. ASSUME NEW w \in Workers, tellRoom(w) PROVE Held'
  <2>1. router' = w /\ w \in Threads /\ pc'[w] = "next"
    BY <1>0, <1>1 DEF tellRoom, Go, TypeOK, Threads
  <2>. QED BY <2>1 DEF Held
<1>2. ASSUME NEW t \in Threads, Request(t) PROVE Held' BY <1>2, RequestHeld
<1>3. ASSUME NEW c \in Callers, writeTime(c) \/ lockServer(c) PROVE Held'
  <2>1. c \in Threads BY DEF Threads
  <2>2. UNCHANGED router /\ (Go(c, "idle", "next") \/ Go(c, "idle", "lock"))
    BY <1>3 DEF writeTime, lockServer
  <2>. QED BY <1>0, <2>1, <2>2, OutsideHeld
<1>4. ASSUME NEW t \in Callers \cup {"serial"}, enterRouter(t) PROVE Held'
  <2>1. router' = t /\ t \in Threads /\ pc'[t] = "next"
    BY <1>0, <1>4 DEF enterRouter, Go, TypeOK, Threads
  <2>. QED BY <2>1 DEF Held
<1>5. CASE receiveAnswer
  <2>1. UNCHANGED router /\ Go("serial", "idle", "flag") BY <1>5 DEF receiveAnswer
  <2>. QED BY <1>0, <2>1, Serial, OutsideHeld
<1>6. CASE receiveReport
  <2>1. UNCHANGED router /\ (UNCHANGED pc \/ \E to : Go("serial", "idle", to))
    BY <1>6 DEF receiveReport
  <2>2. CASE UNCHANGED pc BY <2>1, <2>2 DEF Held
  <2>. QED BY <1>0, <2>1, <2>2, Serial, OutsideHeld
<1>7. CASE raiseFlag \/ storeMessage
  <2>1. UNCHANGED router /\ (Go("serial", "flag", "store") \/ Go("serial", "store", "idle"))
    BY <1>7 DEF raiseFlag, storeMessage
  <2>. QED BY <1>0, <2>1, Serial, OutsideHeld
<1>8. ASSUME NEW a \in modem, loseAnswer(a) PROVE Held' BY <1>8 DEF loseAnswer, Held
<1>9. CASE UNCHANGED vars BY <1>9 DEF vars, Held
<1>10. "serial" \in Threads BY Serial
<1>. QED BY <1>1, <1>2, <1>3, <1>4, <1>5, <1>6, <1>7, <1>8, <1>9, <1>10 DEF Next, SerialNext

\* Whoever holds the router can take its next step whatever the other threads
\* hold or wait for, the serial thread included, and whether or not the modem
\* answers; so nobody waits for the router in a circle (CommRouter.cpp:69-94,
\* Server.cpp:73-88, DMComm.cpp:142).
THEOREM HolderIsReady == Spec => [](router # None => Ready(router))
<1>1. Init => Held BY DEF Init, Held
<1>2. Inv /\ Held => (router # None => Ready(router))
  <2>. SUFFICES ASSUME Inv, Held, router # None PROVE Ready(router) OBVIOUS
  <2>1. router \in Threads BY DEF Inv, TypeOK
  <2>2. pc[router] = "next" \/ pc[router] \in OnAny
    BY <2>1 DEF Inv, TypeOK, Held, OnAny, OnSync
  <2>3. CASE pc[router] \in OnAny BY <2>1, <2>3 DEF Inv, Control, Busy, Ready
  <2>4. CASE pc[router] = "next" /\ job[router] # <<>>
    <3>1. job[router] \in Seq(Item) BY <2>1 DEF Inv, TypeOK, Item
    <3>2. Head(job[router]) \in Item BY <2>4, <3>1, HeadTailProperties
    <3>. QED BY <2>4, <3>2 DEF Item, What, Ready, SendObjectWaits
  <2>5. CASE pc[router] = "next" /\ job[router] = <<>> BY <2>5 DEF Ready
  <2>. QED BY <2>2, <2>3, <2>4, <2>5
<1>. QED BY <1>1, <1>2, InvHolds, HeldStep, InvNext, InvInit, PTL DEF Spec

-----------------------------------------------------------------------------
(* The router is given back.                                               *)

\* What is sent by those who may come to hold the router.
Errand == [what : {"message", "clients"}, to : Sensors \cup {None}]

\* Whoever is in no send has nothing left to send,
Resting == \A t \in Threads : pc[t] \in {"idle", "flag", "store"} => job[t] = <<>>
\* whoever waits for the router has a message at the most,
Queued == \A t \in Threads : pc[t] = "lock" =>
            job[t] \in Seq(Errand) /\ Len(job[t]) <= Len(Room)
\* and whoever has it, one for each sensor of the room, and one for the clients.
Errands == router # None =>
             job[router] \in Seq(Errand) /\ Len(job[router]) <= Len(Room) + 1
Work == Resting /\ Queued /\ Errands

\* The steps a thread has left become fewer.
Nearer(t) == StepsLeft(pc'[t], job'[t]) < StepsLeft(pc[t], job[t])

\* A step of a request ends a send, goes on within one, or is the last.
Ends(t) ==
  \E from \in OnAny \cup {"next"} : \E rest \in AfterSend(t) \cup {Tail(job[t])} :
    job[t] # <<>> /\ Over(t, from, rest) /\ UNCHANGED router
Proceeds(t) ==
  \E from \in OnAny \cup {"next"} : \E to \in OnAny :
    Ahead(to) < Ahead(from) /\ Go(t, from, to) /\ UNCHANGED <<job, router>>

\* No place is more than eight steps from the end of its send.
LEMMA AheadRange == \A place : Ahead(place) \in 0..8
BY DEF Ahead

\* At a place within a send, or before one, there is a step to take.
LEMMA AheadOfSends == \A place \in OnAny \cup {"next"} : Ahead(place) >= 1
BY DEF Ahead, OnAny, OnSync

\* A send less outweighs any place.
LEMMA SendLess ==
  ASSUME NEW n \in Nat, NEW m \in Nat, n = m + 1, NEW a \in 0..8, NEW b \in 1..8
  PROVE  8 * m + a < 8 * n + b
OBVIOUS

\* A place further on, with the same sends.
LEMMA PlaceLess ==
  ASSUME NEW n \in Nat, NEW a \in 0..8, NEW b \in 0..8, a < b
  PROVE  8 * n + a < 8 * n + b
OBVIOUS

\* A send that is over is never taken up again.
LEMMA TailNearer ==
  ASSUME TypeOK, NEW t \in Threads, job[t] # <<>>, pc[t] \in OnAny \cup {"next"},
         job'[t] = Tail(job[t])
  PROVE  Nearer(t)
<1>1. job[t] \in Seq(Item) BY DEF TypeOK, Item
<1>2. Tail(job[t]) \in Seq(Item) /\ Len(Tail(job[t])) = Len(job[t]) - 1
  BY <1>1, HeadTailProperties
<1>3. Len(job[t]) \in Nat /\ Len(Tail(job[t])) \in Nat BY <1>1, <1>2, LenProperties
<1>4. Len(job[t]) = Len(Tail(job[t])) + 1 BY <1>2, <1>3
<1>5. Ahead(pc'[t]) \in 0..8 /\ Ahead(pc[t]) \in 1..8 BY AheadRange, AheadOfSends
<1>6. 8 * Len(Tail(job[t])) + Ahead(pc'[t]) < 8 * Len(job[t]) + Ahead(pc[t])
  BY <1>3, <1>4, <1>5, SendLess
<1>. QED BY <1>6 DEF Nearer, StepsLeft

\* Nor is a place within it.
LEMMA PlaceNearer ==
  ASSUME TypeOK, NEW t \in Threads, job'[t] = job[t], Ahead(pc'[t]) < Ahead(pc[t])
  PROVE  Nearer(t)
<1>1. job[t] \in Seq(Item) BY DEF TypeOK, Item
<1>2. Len(job[t]) \in Nat BY <1>1, LenProperties
<1>3. Ahead(pc'[t]) \in 0..8 /\ Ahead(pc[t]) \in 0..8 BY AheadRange
<1>4. 8 * Len(job[t]) + Ahead(pc'[t]) < 8 * Len(job[t]) + Ahead(pc[t])
  BY <1>2, <1>3, PlaceLess
<1>. QED BY <1>4 DEF Nearer, StepsLeft

\* Nothing else is a step of a request.
LEMMA RequestKinds ==
  ASSUME Inv, NEW t \in Threads, Request(t)
  PROVE  Ends(t) \/ Proceeds(t) \/ finish(t)
<1>0. pc[t] \in OnAny => job[t] # <<>> BY DEF Inv, Control, Busy
<1>1. CASE notAddressed(t)
  BY <1>1 DEF notAddressed, Sending, Sent, Ends
<1>2. CASE clearResponse(t)
  BY <1>2 DEF clearResponse, Proceeds, Ahead, OnAny, OnSync
<1>3. CASE setSynchronousId(t)
  BY <1>3 DEF setSynchronousId, Proceeds, Ahead, OnAny, OnSync
<1>4. CASE forgetMessage(t)
  BY <1>4 DEF forgetMessage, Proceeds, Ahead, OnAny, OnSync
<1>5. CASE takeId(t)
  <2>1. pc[t] \in {"next", "take"} /\ Go(t, pc[t], "send") /\ UNCHANGED <<job, router>>
    BY <1>5 DEF takeId, Sending
  <2>2. Ahead("send") < Ahead(pc[t]) BY <2>1 DEF Ahead
  <2>. QED BY <2>1, <2>2 DEF Proceeds, OnAny, OnSync
<1>6. ASSUME NEW from \in {"send", "wrap"}, Await(t, from), UNCHANGED router
      PROVE  Ends(t) \/ Proceeds(t)
  <2>1. pc[t] = from BY <1>6 DEF Await, Sent, Over, Go
  <2>2. from \in OnAny /\ "wait" \in OnAny /\ Ahead("wait") < Ahead(from)
    BY DEF OnAny, OnSync, Ahead
  <2>3. CASE Go(t, from, "wait") /\ UNCHANGED job BY <1>6, <2>2, <2>3 DEF Proceeds
  <2>4. CASE Sent(t, from) BY <1>0, <1>6, <2>1, <2>2, <2>4 DEF Sent, Ends
  <2>. QED BY <1>6, <2>3, <2>4 DEF Await
<1>7. CASE sendData(t)
  <2>1. UNCHANGED router /\ (Await(t, "send") \/ (Go(t, "send", "wrap") /\ UNCHANGED job))
    BY <1>7 DEF sendData
  <2>2. CASE Go(t, "send", "wrap") /\ UNCHANGED job
    BY <2>1, <2>2 DEF Proceeds, Ahead, OnAny, OnSync
  <2>. QED BY <1>6, <2>1, <2>2
<1>8. CASE skipZero(t) BY <1>6, <1>8 DEF skipZero
<1>9. CASE checkResponse(t)
  <2>1. pc[t] \in OnAny /\ "wait" \in OnAny BY <1>9 DEF checkResponse, OnAny, OnSync
  <2>. QED BY <1>0, <1>9, <2>1 DEF checkResponse, Ends
<1>10. CASE noResponse(t)
  BY <1>10 DEF noResponse, Proceeds, Ahead, OnAny, OnSync
<1>11. CASE giveUp(t)
  <2>1. pc[t] \in OnAny /\ "giveUp" \in OnAny BY <1>11 DEF giveUp, OnAny, OnSync
  <2>. QED BY <1>0, <1>11, <2>1 DEF giveUp, Ends
<1>12. CASE sendObject(t)
  BY <1>12 DEF sendObject, Sending, Sent, Ends
<1>. QED BY <1>1, <1>2, <1>3, <1>4, <1>5, <1>7, <1>8, <1>9, <1>10, <1>11, <1>12
         DEF Request

\* What a request does to places and lists.
LEMMA RequestFrame ==
  ASSUME Inv, NEW t \in Threads, Request(t)
  PROVE  /\ \A u \in Threads \ {t} : pc'[u] = pc[u] /\ job'[u] = job[u]
         /\ pc'[t] \in OnAny \cup {"next", "idle"}
         /\ pc'[t] = "idle" => job'[t] = <<>>
         /\ router' \in {router, None}
<1>1. pc \in [Threads -> Places] /\ job \in [Threads -> Seq(Item)]
  BY DEF Inv, TypeOK, Places, Item
<1>2. CASE Ends(t) BY <1>1, <1>2 DEF Ends, Over, Go
<1>3. CASE Proceeds(t) BY <1>1, <1>3 DEF Proceeds, Go, OnAny, OnSync
<1>4. CASE finish(t) BY <1>1, <1>4 DEF finish, Go
<1>. QED BY <1>2, <1>3, <1>4, RequestKinds

\* A thread that sends messages and to clients has no settings to go on to: each of
\* its steps is one less to take.
LEMMA ErrandNearer ==
  ASSUME Inv, NEW t \in Threads, job[t] \in Seq(Errand), Request(t)
  PROVE  finish(t) \/ (Nearer(t) /\ job'[t] \in {job[t], Tail(job[t])})
<1>1. pc \in [Threads -> Places] /\ job \in [Threads -> Seq(Item)] /\ TypeOK
  BY DEF Inv, TypeOK, Places, Item
<1>2. ASSUME Ends(t) PROVE Nearer(t) /\ job'[t] = Tail(job[t])
  <2>1. PICK from \in OnAny \cup {"next"}, rest \in AfterSend(t) \cup {Tail(job[t])} :
          job[t] # <<>> /\ Over(t, from, rest)
    BY <1>2 DEF Ends
  <2>2. Head(job[t]).what \in {"message", "clients"}
    <3>1. Head(job[t]) \in Errand BY <2>1, HeadTailProperties
    <3>. QED BY <3>1 DEF Errand
  <2>3. Queries[Len(Queries)] \in Range(Queries)
    <3>1. Queries \in Seq(Range(Queries)) /\ Queries # <<>> BY RadioAssumption
    <3>2. Len(Queries) \in 1..Len(Queries) BY <3>1, EmptySeq, LenProperties
    <3>. QED BY <3>1, <3>2, ElementOfSeq
  <2>4. Head(job[t]).what # Queries[Len(Queries)] BY <2>2, <2>3, RadioAssumption
  <2>5. rest = Tail(job[t]) BY <2>1, <2>4 DEF AfterSend
  <2>6. job'[t] = Tail(job[t]) /\ pc[t] = from BY <1>1, <2>1, <2>5 DEF Over, Go
  <2>. QED BY <1>1, <2>1, <2>6, TailNearer
<1>3. ASSUME Proceeds(t) PROVE Nearer(t) /\ job'[t] = job[t]
  <2>1. PICK from \in OnAny \cup {"next"}, to \in OnAny :
          Ahead(to) < Ahead(from) /\ Go(t, from, to) /\ UNCHANGED job
    BY <1>3 DEF Proceeds
  <2>2. pc[t] = from /\ pc'[t] = to /\ job'[t] = job[t] BY <1>1, <2>1 DEF Go
  <2>3. Ahead(pc'[t]) < Ahead(pc[t]) BY <2>1, <2>2
  <2>. QED BY <1>1, <2>2, <2>3, PlaceNearer
<1>. QED BY <1>2, <1>3, RequestKinds

\* Thread t, and no other, goes to place p with list j.
Turns(t, p, j) ==
  /\ pc' = [pc EXCEPT ![t] = p] /\ job' = [job EXCEPT ![t] = j]

\* The rules of who has what to send survive such a turn.
LEMMA TurnKeepsWork ==
  ASSUME TypeOK, Work, NEW t \in Threads, NEW p, NEW j, Turns(t, p, j),
         router' \in {router, t, None},
         p \in {"idle", "flag", "store"} => j = <<>>,
         p = "lock" => j \in Seq(Errand) /\ Len(j) <= Len(Room),
         router' = t => j \in Seq(Errand) /\ Len(j) <= Len(Room) + 1
  PROVE  Work'
<1>1. pc \in [Threads -> Places] /\ job \in [Threads -> Seq(Item)]
  BY DEF TypeOK, Places, Item
<1>2. /\ pc'[t] = p /\ job'[t] = j
      /\ \A u \in Threads \ {t} : pc'[u] = pc[u] /\ job'[u] = job[u]
  BY <1>1 DEF Turns
<1>3. Resting' BY <1>2 DEF Work, Resting
<1>4. Queued' BY <1>2 DEF Work, Queued
<1>5. Errands'
  <2>. SUFFICES ASSUME router' # None
       PROVE  job'[router'] \in Seq(Errand) /\ Len(job'[router']) <= Len(Room) + 1
    BY DEF Errands
  <2>1. CASE router' = t BY <1>2, <2>1
  <2>2. CASE router' # t
    <3>1. router' = router /\ router \in Threads \ {t} BY <2>2 DEF TypeOK
    <3>. QED BY <1>2, <3>1 DEF Work, Errands
  <2>. QED BY <2>1, <2>2
<1>. QED BY <1>3, <1>4, <1>5 DEF Work

\* Nothing happens to places, lists and the router.
LEMMA StillKeepsWork ==
  ASSUME Work, UNCHANGED <<pc, job, router>>
  PROVE  Work'
BY DEF Work, Resting, Queued, Errands

\* The tail of a list is one shorter.
LEMMA ShorterTail ==
  ASSUME NEW S, NEW s \in Seq(S), s # <<>>, NEW n \in Nat, Len(s) <= n
  PROVE  Tail(s) \in Seq(S) /\ Len(Tail(s)) <= n
<1>1. Tail(s) \in Seq(S) /\ Len(Tail(s)) = Len(s) - 1 BY HeadTailProperties
<1>2. Len(s) \in Nat BY LenProperties
<1>. QED BY <1>1, <1>2

\* The sensors of the room are a sequence.
LEMMA RoomLength == Room \in Seq(Sensors) /\ Len(Room) \in Nat
<1>1. Room \in Seq(Sensors) BY RadioAssumption DEF Sensors
<1>. QED BY <1>1, LenProperties

\* A request adds nothing to what its thread had to do.
LEMMA RequestWork ==
  ASSUME Inv, Work, NEW t \in Threads, Request(t)
  PROVE  Work'
<1>1. /\ \A u \in Threads \ {t} : pc'[u] = pc[u] /\ job'[u] = job[u]
      /\ pc'[t] \in OnAny \cup {"next", "idle"}
      /\ pc'[t] = "idle" => job'[t] = <<>>
      /\ router' \in {router, None}
  BY RequestFrame
<1>2. pc'[t] \notin {"lock", "flag", "store"} BY <1>1 DEF OnAny, OnSync
<1>3. Resting' BY <1>1, <1>2 DEF Work, Resting
<1>4. Queued' BY <1>1, <1>2 DEF Work, Queued
<1>5. Errands'
  <2>. SUFFICES ASSUME router' # None
       PROVE  job'[router'] \in Seq(Errand) /\ Len(job'[router']) <= Len(Room) + 1
    BY DEF Errands
  <2>1. /\ router' = router /\ router \in Threads
        /\ job[router] \in Seq(Errand) /\ Len(job[router]) <= Len(Room) + 1
    BY <1>1 DEF Inv, TypeOK, Work, Errands
  <2>2. CASE router # t BY <1>1, <2>1, <2>2
  <2>3. CASE router = t
    <3>1. ~finish(t) BY DEF finish
    <3>2. job'[t] \in {job[t], Tail(job[t])} BY <2>1, <2>3, <3>1, ErrandNearer
    <3>3. CASE job'[t] = job[t] BY <2>1, <2>3, <3>3
    <3>4. CASE job'[t] = Tail(job[t]) /\ job[t] # <<>>
      <4>1. Len(Room) + 1 \in Nat BY RoomLength
      <4>2. Tail(job[t]) \in Seq(Errand) /\ Len(Tail(job[t])) <= Len(Room) + 1
        BY <2>1, <2>3, <3>4, <4>1, ShorterTail
      <4>. QED BY <2>1, <2>3, <3>4, <4>2
    <3>5. CASE job[t] = <<>>
      <4>1. ~Ends(t) BY <3>5 DEF Ends
      <4>2. UNCHANGED job BY <3>1, <4>1, RequestKinds DEF Proceeds
      <4>. QED BY <2>1, <2>3, <4>2
    <3>. QED BY <3>2, <3>3, <3>4, <3>5
  <2>. QED BY <2>2, <2>3
<1>. QED BY <1>3, <1>4, <1>5 DEF Work

\* One send more than the room has sensors.
LEMMA OneMore ==
  ASSUME NEW n \in Nat, NEW m \in Nat, m <= n, NEW k \in 0..1, NEW l, l = m + k
  PROVE  l <= n + 1
OBVIOUS

\* What a worker has to send is a message for each sensor of its room, and
\* perhaps one for the clients.
LEMMA RoomErrands ==
  ASSUME NEW told \in {<<>>, <<Only("clients")>>}
  PROVE  RoomWrites \o told \in Seq(Errand) /\ Len(RoomWrites \o told) <= Len(Room) + 1
<1>1. DOMAIN Room = 1..Len(Room) /\ Len(Room) \in Nat BY RoomLength, LenProperties
<1>2. \A i \in DOMAIN Room : To("message", Room[i]) \in Errand
  BY DEF To, Errand, Sensors, Range
<1>3. RoomWrites \in Seq(Errand) /\ Len(RoomWrites) = Len(Room)
  BY <1>1, <1>2 DEF RoomWrites
<1>4. told \in Seq(Errand) /\ Len(told) \in 0..1
  <2>1. Only("clients") \in Errand BY DEF Only, To, Errand
  <2>2. CASE told = <<>> BY <2>2
  <2>3. CASE told = <<Only("clients")>> BY <2>1, <2>3
  <2>. QED BY <2>2, <2>3
<1>5. RoomWrites \o told \in Seq(Errand) BY <1>3, <1>4, ConcatProperties
<1>6. Len(RoomWrites \o told) = Len(Room) + Len(told) BY <1>3, <1>4, ConcatProperties
<1>7. Len(RoomWrites \o told) <= Len(Room) + 1 
  <2>1. Len(Room) \in Nat /\ Len(Room) <= Len(Room) BY RoomLength
  <2>2. Len(told) \in 0..1 BY <1>4
  <2>. QED BY <2>1, <2>2, <1>6, OneMore
<1>. QED BY <1>5, <1>7

\* Whoever enters the router may have the clients to tell as well.
LEMMA EnterErrands ==
  ASSUME NEW s \in Seq(Errand), Len(s) <= Len(Room),
         NEW told \in {<<>>, <<Only("clients")>>}
  PROVE  told \o s \in Seq(Errand) /\ Len(told \o s) <= Len(Room) + 1
<1>1. Len(Room) \in Nat /\ Len(s) \in Nat BY RoomLength, LenProperties
<1>2. told \in Seq(Errand) /\ Len(told) \in 0..1
  <2>1. Only("clients") \in Errand BY DEF Only, To, Errand
  <2>2. CASE told = <<>> BY <2>2
  <2>3. CASE told = <<Only("clients")>> BY <2>1, <2>3
  <2>. QED BY <2>2, <2>3
<1>3. told \o s \in Seq(Errand) BY <1>2, ConcatProperties
<1>4. Len(told \o s) = Len(s) + Len(told) BY <1>1, <1>2, ConcatProperties
<1>5. Len(told \o s) <= Len(Room) + 1 BY <1>1, <1>2, <1>4, OneMore
<1>. QED BY <1>3, <1>5

\* What a sensor says is answered with one message at the most.
LEMMA SensorErrands ==
  ASSUME NEW f \in FromSensors
  PROVE  Handled(f) \in Seq(Errand) /\ Len(Handled(f)) <= Len(Room)
<1>1. f.of \in Sensors /\ f.type \in {"started", "temperature", "button"}
  BY DEF FromSensors, Frame
<1>2. Len(Room) >= 1
  <2>1. PICK i \in DOMAIN Room : f.of = Room[i] BY <1>1 DEF Sensors, Range
  <2>. QED BY <2>1, RoomLength, LenProperties
<1>3. CASE f.type = "started"
  <2>1. To("message", f.of) \in Errand BY <1>1 DEF To, Errand
  <2>2. Handled(f) = <<To("message", f.of)>> BY <1>3 DEF Handled
  <2>3. Handled(f) \in Seq(Errand) /\ Len(Handled(f)) = 1 BY <2>1, <2>2
  <2>. QED BY <1>2, <2>3, RoomLength
<1>4. CASE f.type # "started"
  <2>1. Handled(f) = <<>> BY <1>1, <1>4 DEF Handled
  <2>2. Len(Handled(f)) = 0 /\ Handled(f) \in Seq(Errand) BY <2>1
  <2>. QED BY <1>2, <2>2, RoomLength
<1>. QED BY <1>3, <1>4

\* Every step of every thread keeps to it.
LEMMA WorkStep == Inv /\ Held /\ Work /\ [Next]_vars => Work'
<1>. SUFFICES ASSUME Inv, Held, Work, [Next]_vars PROVE Work' OBVIOUS
<1>0. TypeOK /\ pc \in [Threads -> Places] /\ job \in [Threads -> Seq(Item)]
  BY DEF Inv, TypeOK, Places, Item
<1>1. ASSUME NEW w \in Workers, tellRoom(w) PROVE Work'
  <2>1. PICK told \in {<<>>, <<Only("clients")>>} :
          Turns(w, "next", RoomWrites \o told) /\ router' = w
    BY <1>1 DEF tellRoom, Turns, Go
  <2>2. w \in Threads BY DEF Threads
  <2>. QED BY <1>0, <2>1, <2>2, RoomErrands, TurnKeepsWork
<1>2. ASSUME NEW t \in Threads, Request(t) PROVE Work' BY <1>2, RequestWork
<1>3. ASSUME NEW c \in Callers, writeTime(c) PROVE Work'
  <2>1. c \in Threads BY DEF Threads
  <2>2. Turns(c, "next", <<Only("post")>>) /\ UNCHANGED router /\ pc[c] = "idle"
    BY <1>3 DEF writeTime, Turns, Go
  <2>3. router # c BY <2>1, <2>2, RadioAssumption DEF Held, Threads
  <2>. QED BY <1>0, <2>1, <2>2, <2>3, TurnKeepsWork
<1>4. ASSUME NEW c \in Callers, lockServer(c) PROVE Work'
  <2>1. c \in Threads BY DEF Threads
  <2>2. UNCHANGED <<router, job>> /\ Go(c, "idle", "lock") BY <1>4 DEF lockServer
  <2>3. job[c] = <<>> BY <2>1, <2>2 DEF Work, Resting, Go
  <2>4. Turns(c, "lock", <<>>) BY <1>0, <2>1, <2>2, <2>3 DEF Turns, Go
  <2>5. router # c BY <2>1, <2>2, RadioAssumption DEF Held, Threads, Go
  <2>6. <<>> \in Seq(Errand) /\ Len(<<>>) <= Len(Room) BY RoomLength
  <2>. QED BY <1>0, <2>1, <2>2, <2>4, <2>5, <2>6, TurnKeepsWork
<1>5. ASSUME NEW t \in Callers \cup {"serial"}, enterRouter(t) PROVE Work'
  <2>1. t \in Threads BY DEF Threads
  <2>2. PICK told \in {<<>>, <<Only("clients")>>} :
          /\ Turns(t, "next", told \o job[t]) /\ router' = t
          /\ pc[t] = "lock"
    BY <1>5 DEF enterRouter, Turns, Go
  <2>3. job[t] \in Seq(Errand) /\ Len(job[t]) <= Len(Room) BY <2>1, <2>2 DEF Work, Queued
  <2>4. told \o job[t] \in Seq(Errand) /\ Len(told \o job[t]) <= Len(Room) + 1
    BY <2>3, EnterErrands
  <2>. QED BY <1>0, <2>1, <2>2, <2>4, TurnKeepsWork
<1>6. ASSUME NEW to \in {"flag", "store", "idle"}, NEW from \in {"idle", "flag", "store"},
             Go("serial", from, to), UNCHANGED <<job, router>>
      PROVE  Work'
  <2>1. job["serial"] = <<>> BY <1>6, Serial DEF Work, Resting, Go
  <2>2. Turns("serial", to, <<>>) BY <1>0, <1>6, <2>1 DEF Turns, Go
  <2>3. router # "serial" BY <1>6, Serial, RadioAssumption DEF Held, Threads, Go
  <2>. QED BY <1>0, <1>6, <2>2, <2>3, Serial, TurnKeepsWork
<1>7. receiveAnswer => Work' BY <1>6 DEF receiveAnswer
<1>8. ASSUME receiveReport PROVE Work'
  <2>1. PICK f \in modem \cup Reports :
          /\ UNCHANGED router
          /\ \/ UNCHANGED <<pc, job>>
             \/ /\ Go("serial", "idle", IF f \in FromSensors THEN "lock"
                                          ELSE IF Handled(f) = <<>> THEN "idle" ELSE "next")
                /\ job' = [job EXCEPT !["serial"] = Handled(f)]
                /\ f \notin modem
    BY <1>8 DEF receiveReport
  <2>2. CASE UNCHANGED <<pc, job>> BY <2>1, <2>2, StillKeepsWork
  <2>3. CASE ~UNCHANGED <<pc, job>>
    <3> DEFINE p == IF f \in FromSensors THEN "lock"
                    ELSE IF Handled(f) = <<>> THEN "idle" ELSE "next"
    <3>0. Turns("serial", p, Handled(f)) BY <2>1, <2>3 DEF Turns, Go
    <3>1. pc["serial"] = "idle" BY <2>1, <2>3 DEF Go
    <3>2. router # "serial" BY <3>1, Serial, RadioAssumption DEF Held, Threads
    <3>3. CASE f \in FromSensors
      <4>1. p = "lock" BY <3>3
      <4>2. Handled(f) \in Seq(Errand) /\ Len(Handled(f)) <= Len(Room)
        BY <3>3, SensorErrands
      <4>. QED BY <1>0, <2>1, <3>0, <3>2, <4>1, <4>2, Serial, TurnKeepsWork
    <3>4. CASE f \notin FromSensors /\ Handled(f) = <<>>
      <4>1. p = "idle" BY <3>4
      <4>. QED BY <1>0, <2>1, <3>0, <3>2, <3>4, <4>1, Serial, TurnKeepsWork
    <3>5. CASE f \notin FromSensors /\ Handled(f) # <<>>
      <4>1. p = "next" BY <3>5
      <4>. QED BY <1>0, <2>1, <3>0, <3>2, <4>1, Serial, TurnKeepsWork
    <3>. QED BY <3>3, <3>4, <3>5
  <2>. QED BY <2>2, <2>3
<1>9. raiseFlag => Work' BY <1>6 DEF raiseFlag
<1>10. storeMessage => Work' BY <1>6 DEF storeMessage
<1>11. ASSUME NEW a \in modem, loseAnswer(a) PROVE Work'
  BY <1>11, StillKeepsWork DEF loseAnswer
<1>12. CASE UNCHANGED vars BY <1>12, StillKeepsWork DEF vars
<1>13. "serial" \in Threads BY Serial
<1>. QED BY <1>1, <1>2, <1>3, <1>4, <1>5, <1>7, <1>8, <1>9, <1>10, <1>11, <1>12, <1>13
         DEF Next, SerialNext

\* At start-up only the main thread has anything to send.
LEMMA WorkInit == Init => Work
<1>. SUFFICES ASSUME Init PROVE Work OBVIOUS
<1>1. \A t \in Threads : pc[t] \in {"idle", "next"} /\ (pc[t] = "idle" => job[t] = <<>>)
  BY DEF Init
<1>2. router = None BY DEF Init
<1>. QED BY <1>1, <1>2 DEF Work, Resting, Queued, Errands

\* What holds when a step of the holder is taken.
LEMMA NearerStep ==
  ASSUME Inv, Held, Work, [Next]_vars, NEW t \in Threads, router = t, router' = t
  PROVE  UNCHANGED <<pc[t], job[t]>> \/ StepsLeft(pc'[t], job'[t]) < StepsLeft(pc[t], job[t])
<1>0. t # None /\ pc[t] \notin {"idle", "lock", "flag", "store"}
  BY RadioAssumption DEF Held, Threads
<1>1. job[t] \in Seq(Errand) BY <1>0 DEF Work, Errands
<1>2. ASSUME NEW u \in Threads \ {t}, NEW from, NEW to, Go(u, from, to),
             NEW j, job' = [job EXCEPT ![u] = j] \/ UNCHANGED job
      PROVE  UNCHANGED <<pc[t], job[t]>>
  BY <1>2 DEF Inv, TypeOK, Go
<1>3. ASSUME NEW w \in Workers, tellRoom(w) PROVE FALSE
  BY <1>0, <1>3 DEF tellRoom
<1>4. ASSUME NEW u \in Threads, Request(u)
      PROVE  UNCHANGED <<pc[t], job[t]>> \/ Nearer(t)
  <2>1. CASE u = t BY <1>0, <1>1, <1>4, <2>1, ErrandNearer DEF finish
  <2>2. CASE u # t BY <1>4, <2>2, RequestFrame
  <2>. QED BY <2>1, <2>2
<1>5. ASSUME NEW c \in Callers, writeTime(c) \/ lockServer(c) PROVE UNCHANGED <<pc[t], job[t]>>
  <2>1. c \in Threads BY DEF Threads
  <2>2. pc[c] = "idle" BY <1>5 DEF writeTime, lockServer, Go
  <2>. QED BY <1>0, <1>2, <1>5, <2>1, <2>2 DEF writeTime, lockServer
<1>6. ASSUME NEW c \in Callers \cup {"serial"}, enterRouter(c) PROVE FALSE
  BY <1>0, <1>6 DEF enterRouter
<1>7. ASSUME receiveAnswer \/ raiseFlag \/ storeMessage PROVE UNCHANGED <<pc[t], job[t]>>
  <2>1. /\ UNCHANGED job /\ pc["serial"] \in {"idle", "flag", "store"}
        /\ \E from, to : Go("serial", from, to)
    BY <1>7 DEF receiveAnswer, raiseFlag, storeMessage, Go
  <2>. QED BY <1>0, <1>2, <2>1, Serial
<1>8. ASSUME receiveReport PROVE UNCHANGED <<pc[t], job[t]>>
  <2>1. /\ pc["serial"] = "idle"
        /\ \/ UNCHANGED <<pc, job>>
           \/ /\ \E from, to : Go("serial", from, to)
              /\ \E j : job' = [job EXCEPT !["serial"] = j]
    BY <1>8 DEF receiveReport
  <2>. QED BY <1>0, <1>2, <2>1, Serial
<1>9. ASSUME NEW a \in modem, loseAnswer(a) PROVE UNCHANGED <<pc[t], job[t]>>
  BY <1>9 DEF loseAnswer
<1>10. CASE UNCHANGED vars BY <1>10 DEF vars
<1>11. "serial" \in Threads BY Serial
<1>. QED BY <1>3, <1>4, <1>5, <1>6, <1>7, <1>8, <1>9, <1>10, <1>11
         DEF Next, SerialNext, Nearer

\* The three together are inductive.
LEMMA WorkHolds == Spec => [](Inv /\ Held /\ Work)
<1>1. Init => Held BY DEF Init, Held
<1>. QED BY <1>1, InvInit, WorkInit, InvNext, HeldStep, WorkStep, PTL DEF Spec

\* Whoever has the router has a list that only becomes shorter: nothing it sends
\* leads to another send, and no step of another thread puts it back
\* (CommRouter.cpp:69-94, TemperatureSensors.cpp:119, DMComm.cpp:133-146).
THEOREM RouterComesBack == Spec => ReleaseIsNearer
<1>1. Inv /\ Held /\ Work /\ [Next]_vars =>
        [\A t \in Threads :
           router = t /\ router' = t =>
             \/ UNCHANGED <<pc[t], job[t]>>
             \/ StepsLeft(pc'[t], job'[t]) < StepsLeft(pc[t], job[t])]_vars
  BY NearerStep
<1>. QED BY <1>1, WorkHolds, PTL DEF Spec, ReleaseIsNearer

\* And it is never further from the end than a message for each sensor of the
\* room and one for the clients: with RouterComesBack, the router is given back
\* after so many steps of its holder, whatever the radio does.
THEOREM ReleaseIsBounded ==
  Spec => [](router # None => StepsLeft(pc[router], job[router]) \in 1..(8 * (Len(Room) + 2)))
<1>1. Inv /\ Held /\ Work =>
        (router # None => StepsLeft(pc[router], job[router]) \in 1..(8 * (Len(Room) + 2)))
  <2>. SUFFICES ASSUME Inv, Held, Work, router # None
       PROVE  StepsLeft(pc[router], job[router]) \in 1..(8 * (Len(Room) + 2))
    OBVIOUS
  <2>1. router \in Threads BY DEF Inv, TypeOK
  <2>2. pc[router] \in OnAny \cup {"next"}
    BY <2>1 DEF Inv, TypeOK, Held, OnAny, OnSync
  <2>3. Ahead(pc[router]) \in 1..8 BY <2>2, AheadRange, AheadOfSends
  <2>4. job[router] \in Seq(Errand) /\ Len(job[router]) <= Len(Room) + 1
    BY DEF Work, Errands
  <2>5. Len(job[router]) \in Nat /\ Len(Room) \in Nat
    BY <2>4, RoomLength, LenProperties
  <2>. QED BY <2>3, <2>4, <2>5, SMTT(60) DEF StepsLeft
<1>. QED BY <1>1, WorkHolds, PTL

=============================================================================
