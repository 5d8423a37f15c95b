-------------------------- MODULE FrameLinksProofs --------------------------
(***************************************************************************)
(* FrameLinks, for every set of frames, every size of a byte and every way *)
(* of cutting the stream into reads.                                       *)
(*                                                                         *)
(* What is delivered says nothing of the bytes that are still under way,   *)
(* so the properties are not inductive.  Inv adds where in the stream each *)
(* frame lies (Marked), that the buffer and the wire together hold all the *)
(* bytes of the frames not delivered yet (Carried), and what a loop leaves *)
(* when it ends (Emptied).  The lemmas ServerTakes, PhoneTakes, ModemTakes *)
(* are about the three parsers: given a buffer that begins as a frame does *)
(* each takes exactly this frame off it, or waits for more, whatever bytes *)
(* the payload holds and whatever follows.                                 *)
(***************************************************************************)
EXTENDS FrameLinks, SequenceTheorems, TLAPS

-----------------------------------------------------------------------------
(* Sequences.                                                              *)

\* What is left of a sequence, and what was taken off it.
LEMMA DropProperties ==
  ASSUME NEW S, NEW s \in Seq(S), NEW n \in 0..Len(s)
  PROVE  /\ Drop(s, n) \in Seq(S) /\ Len(Drop(s, n)) = Len(s) - n
         /\ \A i \in 1..(Len(s) - n) : Drop(s, n)[i] = s[n + i]
         /\ Drop(s, n) = <<>> <=> n = Len(s)
<1>1. Len(s) \in Nat /\ \A i \in 1..Len(s) : s[i] \in S BY ElementOfSeq, LenProperties
<1>2. \A i \in (n + 1)..Len(s) : s[i] \in S BY <1>1
<1>3. /\ Drop(s, n) \in Seq(S)
      /\ Len(Drop(s, n)) = IF n + 1 <= Len(s) THEN Len(s) - (n + 1) + 1 ELSE 0
      /\ \A i \in 1..(Len(s) - (n + 1) + 1) : Drop(s, n)[i] = s[n + 1 + i - 1]
  BY <1>1, <1>2, SubSeqProperties, SMTT(60) DEF Drop
<1>4. Len(Drop(s, n)) = Len(s) - n BY <1>1, <1>3
<1>5. Drop(s, n) = <<>> <=> Len(Drop(s, n)) = 0 BY <1>3, EmptySeq
<1>. QED BY <1>1, <1>3, <1>4, <1>5

\* A read moves bytes from the one to the other and changes none.
LEMMA ReadProperties ==
  ASSUME NEW S, NEW s \in Seq(S), NEW t \in Seq(S), NEW n \in 1..Len(t)
  PROVE  /\ SubSeq(t, 1, n) \in Seq(S) /\ Len(SubSeq(t, 1, n)) = n
         /\ s \o SubSeq(t, 1, n) \in Seq(S) /\ Len(s \o SubSeq(t, 1, n)) = Len(s) + n
         /\ (s \o SubSeq(t, 1, n)) \o Drop(t, n) = s \o t
<1>1. Len(t) \in Nat /\ \A i \in 1..Len(t) : t[i] \in S BY ElementOfSeq, LenProperties
<1>2. /\ SubSeq(t, 1, n) \in Seq(S) /\ Len(SubSeq(t, 1, n)) = n
      /\ \A i \in 1..n : SubSeq(t, 1, n)[i] = t[i]
  BY <1>1, SubSeqProperties
<1>3. /\ Drop(t, n) \in Seq(S) /\ Len(Drop(t, n)) = Len(t) - n
      /\ \A i \in 1..(Len(t) - n) : Drop(t, n)[i] = t[n + i]
  BY <1>1, DropProperties
<1>4. SubSeq(t, 1, n) \o Drop(t, n) = t
  <2>1. /\ SubSeq(t, 1, n) \o Drop(t, n) \in Seq(S)
        /\ Len(SubSeq(t, 1, n) \o Drop(t, n)) = Len(t)
        /\ \A i \in 1..Len(t) : (SubSeq(t, 1, n) \o Drop(t, n))[i]
             = IF i <= n THEN SubSeq(t, 1, n)[i] ELSE Drop(t, n)[i - n]
    BY <1>1, <1>2, <1>3, ConcatProperties
  <2>2. ASSUME NEW i \in 1..Len(t) PROVE (SubSeq(t, 1, n) \o Drop(t, n))[i] = t[i]
    <3>1. CASE i <= n BY <1>1, <1>2, <2>1, <3>1
    <3>2. CASE ~(i <= n)
      <4>1. i - n \in 1..(Len(t) - n) /\ n + (i - n) = i BY <1>1, <3>2
      <4>. QED BY <1>3, <2>1, <3>2, <4>1
    <3>. QED BY <3>1, <3>2
  <2>. QED BY <2>1, <2>2, SeqEqual
<1>5. (s \o SubSeq(t, 1, n)) \o Drop(t, n) = s \o (SubSeq(t, 1, n) \o Drop(t, n))
  BY <1>2, <1>3, ConcatAssociative, SMTT(60)
<1>. QED BY <1>2, <1>4, <1>5, ConcatProperties

\* A sequence that follows another keeps its elements behind it.
LEMMA JoinProperties ==
  ASSUME NEW S, NEW s \in Seq(S), NEW t \in Seq(S)
  PROVE  /\ s \o t \in Seq(S) /\ Len(s \o t) = Len(s) + Len(t)
         /\ \A i \in 1..Len(s) : (s \o t)[i] = s[i]
         /\ \A i \in 1..Len(t) : (s \o t)[Len(s) + i] = t[i]
<1>1. /\ s \o t \in Seq(S) /\ Len(s \o t) = Len(s) + Len(t)
      /\ \A i \in 1..(Len(s) + Len(t)) :
           (s \o t)[i] = IF i <= Len(s) THEN s[i] ELSE t[i - Len(s)]
  BY ConcatProperties
<1>2. Len(s) \in Nat /\ Len(t) \in Nat BY LenProperties
<1>3. \A i \in 1..Len(s) : i \in 1..(Len(s) + Len(t)) /\ i <= Len(s) BY <1>2
<1>4. \A i \in 1..Len(t) : /\ Len(s) + i \in 1..(Len(s) + Len(t))
                           /\ ~(Len(s) + i <= Len(s)) /\ (Len(s) + i) - Len(s) = i
  BY <1>2
<1>. QED BY <1>1, <1>3, <1>4

-----------------------------------------------------------------------------
(* The bytes of a frame.                                                   *)

\* A number is what its quotient and its remainder say.
LEMMA Division ==
  ASSUME NEW n \in Nat, NEW d \in Nat \ {0}
  PROVE  /\ n \div d \in Nat /\ n % d \in 0..(d - 1)
         /\ n = (n \div d) * d + (n % d)
         /\ n < d * d => n \div d < d
<1>1. n \div d \in Nat /\ n % d \in 0..(d - 1)
  OBVIOUS
<1>2. n = (n \div d) * d + (n % d)
  BY Z3
<1>3. ASSUME NEW q \in Nat, NEW r \in Nat, n = q * d + r, q >= d PROVE ~(n < d * d)
  <2>1. PICK c \in Nat : q = d + c
    <3>1. q - d \in Nat /\ q = d + (q - d) BY <1>3
    <3>. QED BY <3>1
  <2>2. q * d = d * d + c * d BY <2>1
  <2>3. c * d \in Nat /\ d * d \in Nat OBVIOUS
  <2>. QED BY <1>3, <2>2, <2>3
<1>. QED BY <1>1, <1>2, <1>3

\* A length that fits two bytes can be read back from them.
LEMMA LengthIsRead ==
  ASSUME NEW n \in 0..(BASE * BASE - 1)
  PROVE  /\ n \div BASE \in Byte /\ n % BASE \in Byte
         /\ (n \div BASE) * BASE + (n % BASE) = n
<1>1. BASE \in Nat \ {0} /\ BASE * BASE \in Nat BY FrameAssumption
<1>2. n \in Nat /\ n < BASE * BASE BY <1>1
<1>3. /\ n \div BASE \in Nat /\ n % BASE \in 0..(BASE - 1) /\ n \div BASE < BASE
      /\ n = (n \div BASE) * BASE + (n % BASE)
  BY <1>1, <1>2, Division
<1>4. n \div BASE \in Byte /\ n % BASE \in Byte BY <1>1, <1>3 DEF Byte
<1>. QED BY <1>3, <1>4

\* What a frame is, as the assumptions on the constants have it.
LEMMA FrameFacts ==
  /\ BASE \in Nat \ {0, 1} /\ START \in Byte /\ HCM \in Seq(Byte) /\ Len(HCM) = 3
  /\ \A f \in Frames : /\ f \in Seq(Byte) /\ Len(f) \in 1..(BASE * BASE - 1) /\ Len(f) \in Nat
                       /\ Crc(f) \in Byte /\ <<Crc(f)>> \in Seq(Byte)
  /\ \A n \in 0..(BASE * BASE - 1) : Length(n) \in Seq(Byte) /\ Len(Length(n)) = 2
  /\ <<START>> \in Seq(Byte)
<1>1. /\ BASE \in Nat \ {0, 1} /\ START \in Byte /\ HCM \in Seq(Byte) /\ Len(HCM) = 3
      /\ <<START>> \in Seq(Byte)
  BY FrameAssumption DEF Byte
<1>2. ASSUME NEW f \in Frames
      PROVE  /\ f \in Seq(Byte) /\ Len(f) \in 1..(BASE * BASE - 1) /\ Len(f) \in Nat
             /\ Crc(f) \in Byte /\ <<Crc(f)>> \in Seq(Byte)
  <2>1. f \in Seq(Byte) /\ Len(f) \in 1..(BASE * BASE - 1) BY FrameAssumption DEF Byte
  <2>2. Len(f) \in Nat BY <2>1, LenProperties
  <2>3. Crc(f) \in Byte BY CrcAssumption
  <2>. QED BY <2>1, <2>2, <2>3
<1>3. \A n \in 0..(BASE * BASE - 1) : Length(n) \in Seq(Byte) /\ Len(Length(n)) = 2
  BY LengthIsRead DEF Length
<1>. QED BY <1>1, <1>2, <1>3

\* The bytes around a frame on the serial line,
LEMMA SerialFrame ==
  ASSUME NEW f \in Frames, link = "fromModem"
  PROVE  /\ Wrapped(f) \in Seq(Byte) /\ Len(Wrapped(f)) = Len(f) + 4
         /\ Wrapped(f)[1] = START /\ Wrapped(f)[4 + Len(f)] = Crc(f)
         /\ Wrapped(f)[2] = Len(f) \div BASE /\ Wrapped(f)[3] = Len(f) % BASE
         /\ \A i \in 1..Len(f) : Wrapped(f)[3 + i] = f[i]
<1>. DEFINE l == Length(Len(f))
<1>1. /\ f \in Seq(Byte) /\ Len(f) \in Nat /\ Len(f) \in 0..(BASE * BASE - 1)
      /\ <<Crc(f)>> \in Seq(Byte) /\ <<START>> \in Seq(Byte)
  BY FrameFacts
<1>2. l \in Seq(Byte) /\ Len(l) = 2 /\ l[1] = Len(f) \div BASE /\ l[2] = Len(f) % BASE
  BY <1>1, FrameFacts DEF Length
<1>3. Wrapped(f) = ((<<START>> \o l) \o f) \o <<Crc(f)>> BY DEF Wrapped
<1>. HIDE DEF l
<1>4. /\ <<START>> \o l \in Seq(Byte) /\ Len(<<START>> \o l) = 3
      /\ (<<START>> \o l)[1] = START
      /\ (<<START>> \o l)[2] = l[1] /\ (<<START>> \o l)[3] = l[2]
  <2>. DEFINE s == <<START>>
  <2>1. s \in Seq(Byte) /\ Len(s) = 1 /\ s[1] = START BY <1>1
  <2>. HIDE DEF s
  <2>2. /\ s \o l \in Seq(Byte) /\ Len(s \o l) = Len(s) + Len(l)
        /\ \A i \in 1..Len(s) : (s \o l)[i] = s[i]
        /\ \A i \in 1..Len(l) : (s \o l)[Len(s) + i] = l[i]
    <3>1. s \in Seq(Byte) /\ l \in Seq(Byte) BY <1>2, <2>1
    <3>. QED BY <3>1, JoinProperties
  <2>3. /\ s \o l \in Seq(Byte) /\ Len(s \o l) = 3 /\ (s \o l)[1] = START
        /\ (s \o l)[1 + 1] = l[1] /\ (s \o l)[1 + 2] = l[2]
    BY <1>2, <2>1, <2>2
  <2>. QED BY <2>3 DEF s
<1>. DEFINE h == <<START>> \o l
<1>. HIDE DEF h
<1>5. /\ h \o f \in Seq(Byte) /\ Len(h \o f) = 3 + Len(f)
      /\ \A i \in 1..3 : (h \o f)[i] = h[i]
      /\ \A i \in 1..Len(f) : (h \o f)[3 + i] = f[i]
  <2>1. h \in Seq(Byte) /\ Len(h) = 3 BY <1>4 DEF h
  <2>2. /\ h \o f \in Seq(Byte) /\ Len(h \o f) = Len(h) + Len(f)
        /\ \A i \in 1..Len(h) : (h \o f)[i] = h[i]
        /\ \A i \in 1..Len(f) : (h \o f)[Len(h) + i] = f[i]
    <3>1. h \in Seq(Byte) /\ f \in Seq(Byte) BY <1>1, <2>1
    <3>. QED BY <3>1, JoinProperties
  <2>. QED BY <2>1, <2>2
<1>. DEFINE g == h \o f
<1>. HIDE DEF g
<1>6. /\ g \o <<Crc(f)>> \in Seq(Byte) /\ Len(g \o <<Crc(f)>>) = 4 + Len(f)
      /\ \A i \in 1..(3 + Len(f)) : (g \o <<Crc(f)>>)[i] = g[i]
      /\ (g \o <<Crc(f)>>)[4 + Len(f)] = Crc(f)
  <2>1. g \in Seq(Byte) /\ Len(g) = 3 + Len(f) BY <1>5 DEF g
  <2>2. Len(<<Crc(f)>>) = 1 /\ <<Crc(f)>>[1] = Crc(f) OBVIOUS
  <2>. QED BY <1>1, <2>1, <2>2, ConcatProperties
<1>7. Wrapped(f) = g \o <<Crc(f)>> BY <1>3 DEF g, h
<1>8. g[1] = START /\ g[2] = l[1] /\ g[3] = l[2] /\ \A i \in 1..Len(f) : g[3 + i] = f[i]
  BY <1>4, <1>5 DEF g, h
<1>. QED BY <1>1, <1>2, <1>6, <1>7, <1>8

\* and over TCP.
LEMMA SocketFrame ==
  ASSUME NEW f \in Frames, link # "fromModem"
  PROVE  /\ Wrapped(f) \in Seq(Byte) /\ Len(Wrapped(f)) = Len(f) + 5
         /\ \A i \in 1..3 : Wrapped(f)[i] = HCM[i]
         /\ Wrapped(f)[4] = (Len(f) - 1) \div BASE /\ Wrapped(f)[5] = (Len(f) - 1) % BASE
         /\ \A i \in 1..Len(f) : Wrapped(f)[5 + i] = f[i]
<1>. DEFINE l == Length(Len(f) - 1)
<1>1. /\ f \in Seq(Byte) /\ Len(f) \in Nat /\ Len(f) - 1 \in 0..(BASE * BASE - 1)
      /\ HCM \in Seq(Byte) /\ Len(HCM) = 3
  <2>1. BASE * BASE \in Nat BY FrameFacts
  <2>. QED BY <2>1, FrameFacts
<1>2. /\ l \in Seq(Byte) /\ Len(l) = 2
      /\ l[1] = (Len(f) - 1) \div BASE /\ l[2] = (Len(f) - 1) % BASE
  BY <1>1, FrameFacts DEF Length
<1>3. Wrapped(f) = (HCM \o l) \o f BY DEF Wrapped
<1>. HIDE DEF l
<1>4. /\ HCM \o l \in Seq(Byte) /\ Len(HCM \o l) = 5
      /\ \A i \in 1..3 : (HCM \o l)[i] = HCM[i]
      /\ (HCM \o l)[4] = l[1] /\ (HCM \o l)[5] = l[2]
  <2>1. /\ HCM \o l \in Seq(Byte) /\ Len(HCM \o l) = Len(HCM) + Len(l)
        /\ \A i \in 1..Len(HCM) : (HCM \o l)[i] = HCM[i]
        /\ \A i \in 1..Len(l) : (HCM \o l)[Len(HCM) + i] = l[i]
    <3>1. HCM \in Seq(Byte) /\ l \in Seq(Byte) BY <1>1, <1>2
    <3>. QED BY <3>1, JoinProperties
  <2>2. (HCM \o l)[3 + 1] = l[1] /\ (HCM \o l)[3 + 2] = l[2] BY <1>1, <1>2, <2>1
  <2>. QED BY <1>1, <1>2, <2>1, <2>2
<1>. DEFINE h == HCM \o l
<1>. HIDE DEF h
<1>5. /\ h \o f \in Seq(Byte) /\ Len(h \o f) = 5 + Len(f)
      /\ \A i \in 1..5 : (h \o f)[i] = h[i]
      /\ \A i \in 1..Len(f) : (h \o f)[5 + i] = f[i]
  <2>1. h \in Seq(Byte) /\ Len(h) = 5 BY <1>4 DEF h
  <2>2. /\ h \o f \in Seq(Byte) /\ Len(h \o f) = Len(h) + Len(f)
        /\ \A i \in 1..Len(h) : (h \o f)[i] = h[i]
        /\ \A i \in 1..Len(f) : (h \o f)[Len(h) + i] = f[i]
    <3>1. h \in Seq(Byte) /\ f \in Seq(Byte) BY <1>1, <2>1
    <3>. QED BY <3>1, JoinProperties
  <2>. QED BY <2>1, <2>2
<1>6. Wrapped(f) = h \o f BY <1>3 DEF h
<1>7. (\A i \in 1..3 : h[i] = HCM[i]) /\ h[4] = l[1] /\ h[5] = l[2] BY <1>4 DEF h
<1>8. /\ Wrapped(f) \in Seq(Byte) /\ Len(Wrapped(f)) = Len(f) + 5
      /\ \A i \in 1..Len(f) : Wrapped(f)[5 + i] = f[i]
  BY <1>1, <1>5, <1>6, SMTT(60)
<1>9. \A i \in 1..5 : Wrapped(f)[i] = h[i] BY <1>5, <1>6
<1>. QED BY <1>2, <1>7, <1>8, <1>9

-----------------------------------------------------------------------------
(* What a turn of a loop makes of a buffer that holds the front of frames   *)
(* that follow each other.                                                  *)

\* The stretch of a sequence that has the elements of f is f.
LEMMA Stretch ==
  ASSUME NEW S, NEW m \in Seq(S), NEW f \in Seq(S), NEW k \in Nat, k + Len(f) <= Len(m),
         \A i \in 1..Len(f) : m[k + i] = f[i]
  PROVE  SubSeq(m, k + 1, k + Len(f)) = f
<1>1. Len(f) \in Nat /\ Len(m) \in Nat /\ \A i \in 1..Len(m) : m[i] \in S
  BY ElementOfSeq, LenProperties
<1>2. \A i \in (k + 1)..(k + Len(f)) : m[i] \in S BY <1>1
<1>3. /\ SubSeq(m, k + 1, k + Len(f)) \in Seq(S)
      /\ Len(SubSeq(m, k + 1, k + Len(f)))
           = IF k + 1 <= k + Len(f) THEN (k + Len(f)) - (k + 1) + 1 ELSE 0
      /\ \A i \in 1..((k + Len(f)) - (k + 1) + 1) :
           SubSeq(m, k + 1, k + Len(f))[i] = m[(k + 1) + i - 1]
  BY <1>1, <1>2, SubSeqProperties
<1>4. Len(SubSeq(m, k + 1, k + Len(f))) = Len(f) BY <1>1, <1>3
<1>5. \A i \in 1..Len(f) : SubSeq(m, k + 1, k + Len(f))[i] = f[i]
  <2>1. ASSUME NEW i \in 1..Len(f) PROVE (k + 1) + i - 1 = k + i OBVIOUS
  <2>2. (k + Len(f)) - (k + 1) + 1 = Len(f) BY <1>1
  <2>. QED BY <1>3, <2>1, <2>2
<1>. QED BY <1>3, <1>4, <1>5, SeqEqual

\* A mark that begins the buffer is the first one.
LEMMA MarkComesFirst ==
  ASSUME NEW S, NEW b \in Seq(S), NEW mark \in Seq(S), Len(mark) <= Len(b),
         \A i \in 1..Len(mark) : b[i] = mark[i]
  PROVE  At(b, mark) # {} /\ First(At(b, mark)) = 1
<1>1. Len(b) \in Nat /\ Len(mark) \in Nat BY LenProperties
<1>2. SubSeq(b, 1, Len(mark)) = mark
  <2>1. 0 + Len(mark) = Len(mark) /\ 0 + 1 = 1 /\ \A i \in 1..Len(mark) : 0 + i = i BY <1>1
  <2>. QED BY <1>1, <2>1, Stretch
<1>3. 1 \in At(b, mark) BY <1>1, <1>2 DEF At
<1>4. \A i \in At(b, mark) : i \in Int /\ 1 <= i BY <1>1 DEF At
<1>5. First(At(b, mark)) \in At(b, mark) /\ \A j \in At(b, mark) : First(At(b, mark)) <= j
  BY <1>3, <1>4 DEF First
<1>. QED BY <1>3, <1>4, <1>5

\* b begins as W does, as far as it goes.
Begins(b, W) == \A i \in 1..Len(W) : i <= Len(b) => b[i] = W[i]

\* The turn that takes f off the front of b when all of it is there.
TurnFor(b, f) ==
  IF Len(b) < Len(Wrapped(f)) THEN Waits(b) ELSE Turn(Drop(b, Len(Wrapped(f))), <<f>>)

\* ClientSocket::processBuffer takes exactly the frame that begins its buffer: the
\* mark is found at the front, whatever marks the payload holds.
LEMMA ServerTakes ==
  ASSUME NEW f \in Frames, NEW b \in Seq(Byte), link = "toServer", Begins(b, Wrapped(f))
  PROVE  ServerTurn(b) = TurnFor(b, f)
<1>. DEFINE W == Wrapped(f)
<1>1. /\ W \in Seq(Byte) /\ Len(W) = Len(f) + 5
      /\ \A i \in 1..3 : W[i] = HCM[i]
      /\ W[4] = (Len(f) - 1) \div BASE /\ W[5] = (Len(f) - 1) % BASE
      /\ \A i \in 1..Len(f) : W[5 + i] = f[i]
  BY SocketFrame
<1>2. /\ f \in Seq(Byte) /\ Len(f) \in Nat \ {0} /\ Len(b) \in Nat
      /\ HCM \in Seq(Byte) /\ Len(HCM) = 3
  BY FrameFacts, LenProperties
<1>3. ((Len(f) - 1) \div BASE) * BASE + ((Len(f) - 1) % BASE) = Len(f) - 1
  <2>1. BASE * BASE \in Nat BY FrameFacts
  <2>2. Len(f) - 1 \in 0..(BASE * BASE - 1) BY <2>1, FrameFacts
  <2>. QED BY <2>2, LengthIsRead
<1>4. \A i \in 1..Len(W) : i <= Len(b) => b[i] = W[i] BY DEF Begins
<1>. HIDE DEF W
<1>5. CASE Len(b) < 6
  <2>1. ServerTurn(b) = Waits(b) BY <1>2, <1>5 DEF ServerTurn
  <2>. QED BY <1>1, <1>2, <1>5, <2>1 DEF TurnFor, W
<1>6. CASE ~(Len(b) < 6)
  <2>1. \A i \in 1..3 : b[i] = HCM[i] BY <1>1, <1>2, <1>4, <1>6, SMTT(60)
  <2>2. At(b, HCM) # {} /\ First(At(b, HCM)) = 1
    <3>1. Len(HCM) <= Len(b) /\ \A i \in 1..Len(HCM) : b[i] = HCM[i] BY <1>2, <1>6, <2>1
    <3>. QED BY <1>2, <3>1, MarkComesFirst
  <2>3. b[0 + 4] * BASE + b[0 + 5] = Len(f) - 1
    <3>1. b[4] = W[4] /\ b[5] = W[5] BY <1>1, <1>2, <1>4, <1>6
    <3>. QED BY <1>1, <1>3, <3>1
  <2>4. ServerTurn(b)
          = IF Len(b) < (Len(f) - 1) + 6 THEN Waits(b)
            ELSE Turn(Drop(b, 0 + 6 + (Len(f) - 1)),
                      <<<<b[6]>> \o SubSeq(b, 0 + 7, 0 + 6 + (Len(f) - 1))>>)
    <3>1. First(At(b, HCM)) - 1 = 0 BY <2>2
    <3>2. ~(Len(b) < Len(HCM) + 3) BY <1>2, <1>6
    <3>. QED BY <2>2, <2>3, <3>1, <3>2 DEF ServerTurn, Needed
  <2>5. CASE Len(b) < Len(f) + 5 BY <1>1, <1>2, <2>4, <2>5 DEF TurnFor, W
  <2>6. CASE ~(Len(b) < Len(f) + 5)
    <3>1. ASSUME NEW i \in 1..Len(f) PROVE b[5 + i] = f[i]
      <4>1. 5 + i \in 1..Len(W) /\ 5 + i <= Len(b) BY <1>1, <1>2, <2>6
      <4>2. b[5 + i] = W[5 + i] BY <1>4, <4>1
      <4>. QED BY <1>1, <4>2
    <3>2. SubSeq(b, 5 + 1, 5 + Len(f)) = f BY <1>2, <2>6, <3>1, Stretch
    <3>3. <<b[6]>> \o SubSeq(b, 7, 5 + Len(f)) = SubSeq(b, 6, 5 + Len(f))
      <4>1. SubSeq(b, 6, 6) \o SubSeq(b, 6 + 1, 5 + Len(f)) = SubSeq(b, 6, 5 + Len(f))
        <5>1. /\ 6 \in 1..(Len(b) + 1) /\ 6 \in (6 - 1)..Len(b) /\ 5 + Len(f) \in 6..Len(b)
              /\ b \in Seq(Byte)
          BY <1>2, <2>6
        <5>. QED BY <5>1, ConcatAdjacentSubSeq
      <4>2. SubSeq(b, 6, 6) = <<b[6]>>
        <5>. DEFINE s == <<b[6]>>
        <5>1. b[6] \in Byte BY <1>2, <1>6, ElementOfSeq
        <5>2. s \in Seq(Byte) /\ Len(s) = 1 /\ s[1] = b[6] BY <5>1
        <5>. HIDE DEF s
        <5>3. SubSeq(b, 5 + 1, 5 + Len(s)) = s
          <6>1. 5 + Len(s) <= Len(b) /\ \A i \in 1..Len(s) : b[5 + i] = s[i]
            BY <1>2, <1>6, <5>2
          <6>. QED BY <5>2, <6>1, Stretch
        <5>. QED BY <5>2, <5>3 DEF s
      <4>. QED BY <4>1, <4>2
    <3>4. ServerTurn(b) = Turn(Drop(b, Len(f) + 5), <<f>>)
      <4>1. 0 + 6 + (Len(f) - 1) = Len(f) + 5 /\ ~(Len(b) < (Len(f) - 1) + 6)
        BY <1>2, <2>6
      <4>2. 0 + 6 + (Len(f) - 1) = 5 + Len(f) /\ 0 + 7 = 7 /\ 5 + 1 = 6 BY <1>2
      <4>3. <<b[6]>> \o SubSeq(b, 0 + 7, 0 + 6 + (Len(f) - 1)) = f BY <3>2, <3>3, <4>2
      <4>. QED BY <2>4, <4>1, <4>3
    <3>. QED BY <1>1, <2>6, <3>4 DEF TurnFor, W
  <2>. QED BY <2>5, <2>6
<1>. QED BY <1>5, <1>6

\* So does AsyncCloudSocket, which looks for no mark.
LEMMA PhoneTakes ==
  ASSUME NEW f \in Frames, NEW b \in Seq(Byte), link = "toPhone", Begins(b, Wrapped(f))
  PROVE  PhoneTurn(b) = TurnFor(b, f)
<1>. DEFINE W == Wrapped(f)
<1>1. /\ W \in Seq(Byte) /\ Len(W) = Len(f) + 5
      /\ W[4] = (Len(f) - 1) \div BASE /\ W[5] = (Len(f) - 1) % BASE
      /\ \A i \in 1..Len(f) : W[5 + i] = f[i]
  BY SocketFrame
<1>2. f \in Seq(Byte) /\ Len(f) \in Nat \ {0} /\ Len(b) \in Nat BY FrameFacts, LenProperties
<1>3. ((Len(f) - 1) \div BASE) * BASE + ((Len(f) - 1) % BASE) = Len(f) - 1
  <2>1. BASE * BASE \in Nat BY FrameFacts
  <2>2. Len(f) - 1 \in 0..(BASE * BASE - 1) BY <2>1, FrameFacts
  <2>. QED BY <2>2, LengthIsRead
<1>4. \A i \in 1..Len(W) : i <= Len(b) => b[i] = W[i] BY DEF Begins
<1>. HIDE DEF W
<1>5. CASE Len(b) < 6
  <2>1. PhoneTurn(b) = Waits(b) BY <1>5 DEF PhoneTurn
  <2>. QED BY <1>1, <1>2, <1>5, <2>1 DEF TurnFor, W
<1>6. CASE ~(Len(b) < 6)
  <2>1. b[4] * BASE + b[5] = Len(f) - 1 BY <1>1, <1>2, <1>3, <1>4, <1>6
  <2>2. PhoneTurn(b)
          = IF Len(b) < (Len(f) - 1) + 6 THEN Waits(b)
            ELSE Turn(Drop(b, (Len(f) - 1) + 6), <<SubSeq(b, 6, (Len(f) - 1) + 6)>>)
    BY <1>6, <2>1 DEF PhoneTurn, Needed
  <2>3. CASE Len(b) < Len(f) + 5 BY <1>1, <1>2, <2>2, <2>3 DEF TurnFor, W
  <2>4. CASE ~(Len(b) < Len(f) + 5)
    <3>1. \A i \in 1..Len(f) : b[5 + i] = f[i] BY <1>1, <1>2, <1>4, <2>4
    <3>2. SubSeq(b, 5 + 1, 5 + Len(f)) = f BY <1>2, <2>4, <3>1, Stretch
    <3>3. /\ (Len(f) - 1) + 6 = Len(f) + 5 /\ (Len(f) - 1) + 6 = 5 + Len(f) /\ 5 + 1 = 6
          /\ ~(Len(b) < (Len(f) - 1) + 6)
      BY <1>2, <2>4
    <3>4. PhoneTurn(b) = Turn(Drop(b, Len(f) + 5), <<f>>) BY <2>2, <3>2, <3>3
    <3>. QED BY <1>1, <2>4, <3>4 DEF TurnFor, W
  <2>. QED BY <2>3, <2>4
<1>. QED BY <1>5, <1>6

\* What lies behind the buffer is not read when the mark begins it.
LEMMA ModemTakes ==
  ASSUME NEW f \in Frames, NEW b \in Seq(Byte), NEW beyond \in Byte, link = "fromModem",
         Begins(b, Wrapped(f))
  PROVE  ModemTurn(b, beyond) = TurnFor(b, f)
<1>. DEFINE W == Wrapped(f)
            z == [i \in 1..(BASE * BASE + 3) |-> beyond]
            m == b \o z
<1>1. /\ W \in Seq(Byte) /\ Len(W) = Len(f) + 4
      /\ W[1] = START /\ W[4 + Len(f)] = Crc(f)
      /\ W[2] = Len(f) \div BASE /\ W[3] = Len(f) % BASE
      /\ \A i \in 1..Len(f) : W[3 + i] = f[i]
  BY SerialFrame
<1>2. /\ f \in Seq(Byte) /\ Len(f) \in Nat \ {0} /\ Len(b) \in Nat
      /\ <<START>> \in Seq(Byte) /\ BASE * BASE + 3 \in Nat
  BY FrameFacts, LenProperties
<1>3. (Len(f) \div BASE) * BASE + (Len(f) % BASE) = Len(f)
  <2>1. Len(f) \in 0..(BASE * BASE - 1) BY FrameFacts
  <2>. QED BY <2>1, LengthIsRead
<1>4. \A i \in 1..Len(W) : i <= Len(b) => b[i] = W[i] BY DEF Begins
<1>5. z \in Seq(Byte) BY <1>2
<1>. HIDE DEF W, z
<1>6. /\ m \in Seq(Byte) /\ Len(m) \in Nat /\ Len(b) <= Len(m)
      /\ \A i \in 1..Len(b) : m[i] = b[i]
  <2>1. /\ m \in Seq(Byte) /\ Len(m) = Len(b) + Len(z)
        /\ \A i \in 1..Len(b) : m[i] = b[i]
    BY <1>5, JoinProperties
  <2>2. Len(z) \in Nat BY <1>5, LenProperties
  <2>. QED BY <1>2, <2>1, <2>2
<1>. HIDE DEF m
<1>7. CASE Len(b) < 3
  <2>1. ModemTurn(b, beyond) = Waits(b) BY <1>7 DEF ModemTurn
  <2>. QED BY <1>1, <1>2, <1>7, <2>1 DEF TurnFor, W
<1>8. CASE ~(Len(b) < 3)
  <2>1. At(b, <<START>>) # {} /\ First(At(b, <<START>>)) = 1
    <3>. DEFINE s == <<START>>
    <3>1. s \in Seq(Byte) /\ Len(s) = 1 /\ s[1] = START BY <1>2
    <3>. HIDE DEF s
    <3>2. Len(s) <= Len(b) /\ \A i \in 1..Len(s) : b[i] = s[i] BY <1>1, <1>2, <1>4, <1>8, <3>1
    <3>3. At(b, s) # {} /\ First(At(b, s)) = 1 BY <3>1, <3>2, MarkComesFirst
    <3>. QED BY <3>3 DEF s
  <2>2. m[0 + 2] * BASE + m[0 + 3] = Len(f) BY <1>1, <1>2, <1>3, <1>4, <1>6, <1>8
  <2>3. ModemTurn(b, beyond)
          = IF Len(b) < Len(f) + 4 THEN Waits(b)
            ELSE IF m[0 + 4 + Len(f)] = Crc(SubSeq(m, 0 + 4, 0 + 3 + Len(f)))
                 THEN Turn(Drop(b, 0 + 4 + Len(f)), <<SubSeq(m, 0 + 4, 0 + 3 + Len(f))>>)
            ELSE Turn(<<>>, <<>>)
    <3>1. First(At(b, <<START>>)) - 1 = 0 BY <2>1
    <3>. QED BY <1>8, <2>1, <2>2, <3>1 DEF ModemTurn, Needed, m, z
  <2>4. CASE Len(b) < Len(f) + 4 BY <1>1, <2>3, <2>4 DEF TurnFor, W
  <2>5. CASE ~(Len(b) < Len(f) + 4)
    <3>1. \A i \in 1..Len(f) : m[3 + i] = f[i] BY <1>1, <1>2, <1>4, <1>6, <2>5, SMTT(60)
    <3>2. SubSeq(m, 3 + 1, 3 + Len(f)) = f BY <1>2, <1>6, <2>5, <3>1, Stretch
    <3>3. m[4 + Len(f)] = Crc(f)
      <4>1. 4 + Len(f) \in 1..Len(W) /\ 4 + Len(f) \in 1..Len(b) BY <1>1, <1>2, <2>5
      <4>2. m[4 + Len(f)] = b[4 + Len(f)] /\ b[4 + Len(f)] = W[4 + Len(f)]
        BY <1>4, <1>6, <4>1
      <4>. QED BY <1>1, <4>2
    <3>4. 0 + 4 + Len(f) = 4 + Len(f) /\ 4 + Len(f) = Len(f) + 4 /\ 0 + 3 + Len(f) = 3 + Len(f)
      BY <1>2
    <3>5. SubSeq(m, 0 + 4, 0 + 3 + Len(f)) = f BY <3>2, <3>4
    <3>6. ModemTurn(b, beyond) = Turn(Drop(b, Len(f) + 4), <<f>>)
      BY <2>3, <2>5, <3>3, <3>4, <3>5
    <3>. QED BY <1>1, <2>5, <3>6 DEF TurnFor, W
  <2>. QED BY <2>4, <2>5
<1>. QED BY <1>7, <1>8

\* And so does the receiver of the link, whichever it is.
LEMMA TurnsTake ==
  ASSUME NEW f \in Frames, link \in Links, mBuffer \in Seq(Byte),
         Begins(mBuffer, Wrapped(f)), NEW t \in Turns(mBuffer)
  PROVE  t = TurnFor(mBuffer, f)
<1>1. link \in {"toServer", "toPhone", "fromModem"} BY FrameAssumption
<1>2. CASE link = "toServer"
  <2>1. t = ServerTurn(mBuffer) BY <1>2 DEF Turns
  <2>. QED BY <1>2, <2>1, ServerTakes
<1>3. CASE link = "toPhone"
  <2>1. t = PhoneTurn(mBuffer) BY <1>3 DEF Turns
  <2>. QED BY <1>3, <2>1, PhoneTakes
<1>4. CASE link = "fromModem"
  <2>1. PICK beyond \in Byte : t = ModemTurn(mBuffer, beyond) BY <1>4 DEF Turns
  <2>. QED BY <1>4, <2>1, ModemTakes
<1>. QED BY <1>1, <1>2, <1>3, <1>4

\* Nothing is made of nothing.
LEMMA TurnsWait ==
  ASSUME link \in Links, mBuffer = <<>>, NEW t \in Turns(mBuffer)
  PROVE  t = Waits(mBuffer)
<1>1. link \in {"toServer", "toPhone", "fromModem"} BY FrameAssumption
<1>2. Len(mBuffer) = 0 /\ Len(HCM) = 3 BY FrameFacts
<1>3. ServerTurn(mBuffer) = Waits(mBuffer) BY <1>2 DEF ServerTurn
<1>4. PhoneTurn(mBuffer) = Waits(mBuffer) BY <1>2 DEF PhoneTurn
<1>5. \A beyond : ModemTurn(mBuffer, beyond) = Waits(mBuffer) BY <1>2 DEF ModemTurn
<1>. QED BY <1>1, <1>3, <1>4, <1>5 DEF Turns


-----------------------------------------------------------------------------
(* The inductive invariant.                                                *)

\* The values each variable ranges over.
Values ==
  /\ link \in Links /\ parsing \in BOOLEAN
  /\ sent \in Seq(Frames) /\ delivered \in Seq(Frames) /\ ends \in Seq(Nat)
  /\ wire \in Seq(Byte) /\ mBuffer \in Seq(Byte)

\* The bytes of each frame on this link.
Coded == [f \in Frames |-> Wrapped(f)]

\* The frames follow each other in the stream without a gap.
Marked ==
  /\ Len(ends) = Len(sent) + 1
  /\ \A k \in 1..Len(sent) : ends[k + 1] = ends[k] + Len(Coded[sent[k]])
  /\ \A j, k \in 1..Len(ends) : j < k => ends[j] < ends[k]

\* Where in the stream the buffer begins: behind the frames delivered.
Taken == ends[Len(delivered) + 1]

\* The frames delivered are the first ones sent, and the buffer and the wire hold
\* all the bytes of the others.
Carried ==
  /\ Len(delivered) <= Len(sent)
  /\ \A k \in 1..Len(delivered) : delivered[k] = sent[k]
  /\ Len(mBuffer) + Len(wire) = Written - Taken
  /\ \A k \in (Len(delivered) + 1)..Len(sent) : \A i \in 1..Len(Coded[sent[k]]) :
       (mBuffer \o wire)[(ends[k] - Taken) + i] = Coded[sent[k]][i]

\* A loop that has ended has left less than the next frame.
Emptied ==
  ~parsing => \/ mBuffer = <<>>
              \/ /\ Len(delivered) < Len(sent)
                 /\ Len(mBuffer) < Len(Coded[sent[Len(delivered) + 1]])

Inv == Values /\ Marked /\ Carried /\ Emptied

-----------------------------------------------------------------------------
(* The first state, and each step.                                         *)

\* No byte comes before the first frame.
Quiet == "fromModem" \in Links => Noise \subseteq {<<>>}

\* At the start nothing was sent, nothing is carried.
LEMMA InvInit ==
  ASSUME Quiet, Init
  PROVE  Inv
<1>. USE DEF Quiet
<1>1. /\ link \in Links /\ wire = <<>> /\ sent = <<>> /\ delivered = <<>>
      /\ mBuffer = <<>> /\ parsing = FALSE /\ ends = <<0>>
  BY DEF Init
<1>2. Values
  <2>1. ends \in Seq(Nat) BY <1>1
  <2>2. sent \in Seq(Frames) /\ delivered \in Seq(Frames) BY <1>1, EmptySeq
  <2>3. wire \in Seq(Byte) /\ mBuffer \in Seq(Byte) BY <1>1, EmptySeq
  <2>. QED BY <1>1, <2>1, <2>2, <2>3 DEF Values
<1>3. Marked BY <1>1 DEF Marked
<1>4. Carried BY <1>1 DEF Carried, Written, Taken
<1>5. Emptied BY <1>1 DEF Emptied
<1>. QED BY <1>2, <1>3, <1>4, <1>5 DEF Inv

\* The bytes of a frame as a function: it does not change while the link does not.
LEMMA CodedProperties ==
  ASSUME NEW f \in Frames
  PROVE  /\ Coded[f] = Wrapped(f)
         /\ Coded[f] \in Seq(Byte) /\ Len(Coded[f]) \in Nat \ {0}
<1>1. Len(f) \in Nat BY FrameFacts
<1>2. Wrapped(f) \in Seq(Byte) /\ Len(Wrapped(f)) \in Nat \ {0} BY <1>1, SerialFrame, SocketFrame
<1>3. Coded[f] = Wrapped(f) BY DEF Coded
<1>. QED BY <1>2, <1>3

\* The bounds that the steps need.
LEMMA Bounds ==
  ASSUME Inv
  PROVE  /\ Len(sent) \in Nat /\ Len(delivered) \in Nat /\ Len(ends) \in Nat
         /\ Len(mBuffer) \in Nat /\ Len(wire) \in Nat
         /\ \A k \in 1..Len(ends) : ends[k] \in Nat
         /\ \A k \in 1..Len(sent) : /\ sent[k] \in Frames
                                    /\ Coded[sent[k]] \in Seq(Byte)
                                    /\ Len(Coded[sent[k]]) \in Nat \ {0}
         /\ Written \in Nat /\ Taken \in Nat /\ Taken <= Written
         /\ mBuffer \o wire \in Seq(Byte)
         /\ Len(mBuffer \o wire) = Written - Taken
<1>1. /\ Len(sent) \in Nat /\ Len(delivered) \in Nat /\ Len(ends) \in Nat
      /\ Len(mBuffer) \in Nat /\ Len(wire) \in Nat
  BY LenProperties DEF Inv, Values
<1>2. \A k \in 1..Len(ends) : ends[k] \in Nat BY ElementOfSeq DEF Inv, Values
<1>3. \A k \in 1..Len(sent) : sent[k] \in Frames BY ElementOfSeq DEF Inv, Values
<1>4. Len(ends) \in 1..Len(ends) /\ Len(delivered) + 1 \in 1..Len(ends)
  BY <1>1 DEF Inv, Marked, Carried
<1>5. Written \in Nat /\ Taken \in Nat BY <1>2, <1>4 DEF Written, Taken
<1>6. mBuffer \o wire \in Seq(Byte) /\ Len(mBuffer \o wire) = Len(mBuffer) + Len(wire)
  BY ConcatProperties DEF Inv, Values
<1>7. Len(mBuffer) + Len(wire) = Written - Taken BY DEF Inv, Carried
<1>8. Taken <= Written BY <1>1, <1>5, <1>7
<1>. QED BY <1>1, <1>2, <1>3, <1>5, <1>6, <1>7, <1>8, CodedProperties

\* What is written and not delivered lies within the stream.
LEMMA WithinStream ==
  ASSUME Inv, NEW k \in (Len(delivered) + 1)..Len(sent)
  PROVE  /\ ends[k] - Taken \in Nat
         /\ (ends[k] - Taken) + Len(Coded[sent[k]]) <= Len(mBuffer \o wire)
<1>1. /\ Len(sent) \in Nat /\ Len(delivered) \in Nat /\ Len(ends) = Len(sent) + 1
      /\ \A j \in 1..Len(ends) : ends[j] \in Nat
      /\ Taken \in Nat /\ Written \in Nat /\ Len(mBuffer \o wire) = Written - Taken
  BY Bounds DEF Inv, Marked
<1>2. k \in 1..Len(ends) /\ k + 1 \in 1..Len(ends) /\ k \in 1..Len(sent) BY <1>1
<1>3. ends[k + 1] = ends[k] + Len(Coded[sent[k]]) BY <1>2 DEF Inv, Marked
<1>4. \A j, m \in 1..Len(ends) : j < m => ends[j] < ends[m] BY DEF Inv, Marked
<1>5. Taken <= ends[k]
  <2>1. Taken = ends[Len(delivered) + 1] BY DEF Taken
  <2>2. CASE k = Len(delivered) + 1 BY <1>1, <1>2, <2>1, <2>2
  <2>3. CASE k # Len(delivered) + 1
    <3>1. Len(delivered) + 1 < k /\ Len(delivered) + 1 \in 1..Len(ends) BY <1>1, <2>3
    <3>2. ends[Len(delivered) + 1] < ends[k] BY <1>2, <1>4, <3>1
    <3>. QED BY <1>1, <1>2, <2>1, <3>2
  <2>. QED BY <2>2, <2>3
<1>6. ends[k + 1] <= Written
  <2>1. Written = ends[Len(ends)] BY DEF Written
  <2>2. CASE k + 1 = Len(ends) BY <1>1, <1>2, <2>1, <2>2
  <2>3. CASE k + 1 # Len(ends)
    <3>1. k + 1 < Len(ends) /\ Len(ends) \in 1..Len(ends) BY <1>1, <1>2, <2>3
    <3>2. ends[k + 1] < ends[Len(ends)] BY <1>2, <1>4, <3>1
    <3>. QED BY <1>1, <1>2, <2>1, <3>2, SMTT(60)
  <2>. QED BY <2>2, <2>3
<1>7. ends[k] \in Nat /\ ends[k + 1] \in Nat BY <1>1, <1>2
<1>8. Len(Coded[sent[k]]) \in Nat /\ Taken \in Nat /\ Written \in Nat BY <1>2, Bounds
<1>9. (ends[k] - Taken) + Len(Coded[sent[k]]) <= Written - Taken
  BY <1>3, <1>6, <1>7, <1>8, SMTT(60)
<1>. QED BY <1>1, <1>5, <1>7, <1>9, SMTT(60)

\* A frame that is sent goes behind all others, on the wire and in the stream.
LEMMA SendKeepsInv ==
  ASSUME Inv, NEW f \in Frames, sendFrame(f)
  PROVE  Inv'
<1>. DEFINE W == Coded[f]
<1>1. /\ sent' = Append(sent, f) /\ wire' = wire \o W
      /\ ends' = Append(ends, Written + Len(W))
      /\ link' = link /\ delivered' = delivered /\ mBuffer' = mBuffer /\ parsing' = parsing
  BY CodedProperties DEF sendFrame
<1>2. W \in Seq(Byte) /\ Len(W) \in Nat \ {0} BY CodedProperties
<1>3. Coded' = Coded BY <1>1 DEF Coded, Wrapped
<1>. HIDE DEF W
<1>4. /\ Len(sent) \in Nat /\ Len(delivered) \in Nat /\ Len(ends) \in Nat
      /\ Len(mBuffer) \in Nat /\ Len(wire) \in Nat
      /\ \A k \in 1..Len(ends) : ends[k] \in Nat
      /\ Written \in Nat /\ Taken \in Nat
      /\ Len(ends) = Len(sent) + 1 /\ Len(delivered) <= Len(sent)
  BY Bounds DEF Inv, Marked, Carried
<1>5. /\ Len(sent') = Len(sent) + 1 /\ sent'[Len(sent) + 1] = f
      /\ \A k \in 1..Len(sent) : sent'[k] = sent[k]
      /\ sent' \in Seq(Frames)
  BY <1>1, AppendProperties DEF Inv, Values
<1>6. /\ Len(ends') = Len(ends) + 1 /\ ends'[Len(ends) + 1] = Written + Len(W)
      /\ \A k \in 1..Len(ends) : ends'[k] = ends[k]
      /\ ends' \in Seq(Nat)
  <2>1. Written + Len(W) \in Nat /\ ends \in Seq(Nat) BY <1>2, <1>4 DEF Inv, Values
  <2>. QED BY <1>1, <2>1, AppendProperties
<1>7. wire' \in Seq(Byte) /\ Len(wire') = Len(wire) + Len(W)
  BY <1>1, <1>2, ConcatProperties DEF Inv, Values
<1>8. Values' BY <1>1, <1>5, <1>6, <1>7 DEF Inv, Values
<1>9. Marked'
  <2>1. Len(ends') = Len(sent') + 1 BY <1>4, <1>5, <1>6
  <2>2. ASSUME NEW k \in 1..Len(sent')
        PROVE  ends'[k + 1] = ends'[k] + Len(Coded'[sent'[k]])
    <3>1. CASE k = Len(sent) + 1
      <4>1. Coded'[sent'[k]] = W BY <1>3, <1>5, <3>1 DEF W
      <4>2. ends'[k] = Written BY <1>4, <1>6, <3>1, SMTT(60) DEF Written
      <4>. QED BY <1>4, <1>6, <3>1, <4>1, <4>2
    <3>2. CASE k # Len(sent) + 1
      <4>1. k \in 1..Len(sent) /\ k \in 1..Len(ends) /\ k + 1 \in 1..Len(ends)
        BY <1>4, <1>5, <3>2
      <4>2. Coded'[sent'[k]] = Coded[sent[k]] BY <1>3, <1>5, <4>1
      <4>3. ends[k + 1] = ends[k] + Len(Coded[sent[k]]) BY <4>1 DEF Inv, Marked
      <4>. QED BY <1>6, <4>1, <4>2, <4>3
    <3>. QED BY <3>1, <3>2
  <2>3. ASSUME NEW j \in 1..Len(ends'), NEW k \in 1..Len(ends'), j < k
        PROVE  ends'[j] < ends'[k]
    <3>1. j \in 1..Len(ends) /\ ends'[j] = ends[j] /\ ends[j] \in Nat BY <1>4, <1>6, <2>3, SMTT(60)
    <3>2. \A a, b \in 1..Len(ends) : a < b => ends[a] < ends[b] BY DEF Inv, Marked
    <3>3. CASE k = Len(ends) + 1
      <4>1. ends[j] <= Written
        <5>1. CASE j = Len(ends) BY <1>4, <3>1, <5>1 DEF Written
        <5>2. CASE j # Len(ends)
          <6>1. j < Len(ends) /\ Len(ends) \in 1..Len(ends) BY <1>4, <3>1, <5>2
          <6>2. ends[j] < ends[Len(ends)] BY <3>1, <3>2, <6>1
          <6>. QED BY <1>4, <3>1, <6>2 DEF Written
        <5>. QED BY <5>1, <5>2
      <4>. QED BY <1>2, <1>4, <1>6, <3>1, <3>3, <4>1
    <3>4. CASE k # Len(ends) + 1
      <4>1. k \in 1..Len(ends) BY <1>4, <1>6, <3>4
      <4>. QED BY <1>6, <2>3, <3>1, <3>2, <4>1
    <3>. QED BY <3>3, <3>4
  <2>. QED BY <2>1, <2>2, <2>3 DEF Marked
<1>10. Taken' = Taken /\ Written' = Written + Len(W)
  <2>1. Len(delivered) + 1 \in 1..Len(ends) BY <1>4
  <2>. QED BY <1>1, <1>6, <2>1 DEF Taken, Written
<1>11. Carried'
  <2>1. Len(delivered') <= Len(sent') BY <1>1, <1>4, <1>5
  <2>2. \A k \in 1..Len(delivered') : delivered'[k] = sent'[k]
    <3>1. \A k \in 1..Len(delivered) : k \in 1..Len(sent) /\ delivered[k] = sent[k]
      BY <1>4 DEF Inv, Carried
    <3>. QED BY <1>1, <1>5, <3>1
  <2>3. Len(mBuffer') + Len(wire') = Written' - Taken'
    <3>1. Len(mBuffer) + Len(wire) = Written - Taken BY DEF Inv, Carried
    <3>. QED BY <1>1, <1>2, <1>4, <1>7, <1>10, <3>1, SMTT(60)
  <2>. DEFINE s == mBuffer \o wire
  <2>4. /\ s \in Seq(Byte) /\ Len(s) = Written - Taken BY Bounds
  <2>5. mBuffer' \o wire' = s \o W
    <3>1. mBuffer \in Seq(Byte) /\ wire \in Seq(Byte) BY DEF Inv, Values
    <3>2. (mBuffer \o wire) \o W = mBuffer \o (wire \o W)
      BY <1>2, <3>1, ConcatAssociative
    <3>. QED BY <1>1, <3>2
  <2>6. \A k \in (Len(delivered) + 1)..Len(sent) : \A i \in 1..Len(Coded[sent[k]]) :
          s[(ends[k] - Taken) + i] = Coded[sent[k]][i]
    BY DEF Inv, Carried
  <2>7. \A k \in (Len(delivered) + 1)..Len(sent) :
          ends[k] - Taken \in Nat /\ (ends[k] - Taken) + Len(Coded[sent[k]]) <= Len(s)
    BY WithinStream
  <2>. HIDE DEF s
  <2>8. /\ \A i \in 1..Len(s) : (s \o W)[i] = s[i]
        /\ \A i \in 1..Len(W) : (s \o W)[Len(s) + i] = W[i]
    BY <1>2, <2>4, JoinProperties
  <2>9. ASSUME NEW k \in (Len(delivered') + 1)..Len(sent'),
               NEW i \in 1..Len(Coded'[sent'[k]])
        PROVE  (mBuffer' \o wire')[(ends'[k] - Taken') + i] = Coded'[sent'[k]][i]
    <3>1. CASE k = Len(sent) + 1
      <4>1. Coded'[sent'[k]] = W BY <1>3, <1>5, <3>1 DEF W
      <4>2. ends'[k] - Taken' = Len(s)
        <5>1. k = Len(ends) /\ k \in 1..Len(ends) BY <1>4, <3>1
        <5>2. ends'[k] = Written BY <1>6, <5>1 DEF Written
        <5>. QED BY <1>10, <2>4, <5>2
      <4>3. (s \o W)[Len(s) + i] = W[i] BY <2>8, <4>1
      <4>. QED BY <2>5, <4>1, <4>2, <4>3
    <3>2. CASE k # Len(sent) + 1
      <4>1. /\ k \in (Len(delivered) + 1)..Len(sent) /\ k \in 1..Len(sent)
            /\ k \in 1..Len(ends)
        BY <1>1, <1>4, <1>5, <3>2, SMTT(60)
      <4>2. Coded'[sent'[k]] = Coded[sent[k]] BY <1>3, <1>5, <4>1
      <4>3. ends'[k] - Taken' = ends[k] - Taken BY <1>6, <1>10, <4>1
      <4>4. (ends[k] - Taken) + i \in 1..Len(s)
        <5>1. Len(s) \in Nat /\ Len(Coded[sent[k]]) \in Nat BY <2>4, <4>1, Bounds, LenProperties
        <5>. QED BY <2>7, <4>1, <4>2, <5>1, SMTT(60)
      <4>5. (s \o W)[(ends[k] - Taken) + i] = Coded[sent[k]][i] BY <2>6, <2>8, <4>1, <4>2, <4>4
      <4>. QED BY <2>5, <4>2, <4>3, <4>5
    <3>. QED BY <3>1, <3>2
  <2>. QED BY <2>1, <2>2, <2>3, <2>9 DEF Carried
<1>12. Emptied'
  <2>1. CASE parsing BY <1>1, <2>1 DEF Emptied
  <2>2. CASE mBuffer = <<>> BY <1>1, <2>2 DEF Emptied
  <2>3. CASE Len(delivered) < Len(sent) /\ Len(mBuffer) < Len(Coded[sent[Len(delivered) + 1]])
    <3>1. Len(delivered) + 1 \in 1..Len(sent) BY <1>4, <2>3
    <3>2. Coded'[sent'[Len(delivered) + 1]] = Coded[sent[Len(delivered) + 1]]
      BY <1>3, <1>5, <3>1
    <3>3. Len(delivered') < Len(sent') BY <1>1, <1>4, <1>5, <2>3
    <3>. QED BY <1>1, <2>3, <3>2, <3>3 DEF Emptied
  <2>. QED BY <2>1, <2>2, <2>3 DEF Inv, Emptied
<1>. QED BY <1>8, <1>9, <1>11, <1>12 DEF Inv

\* A read moves the border between the buffer and the wire.
LEMMA ReceiveKeepsInv ==
  ASSUME Inv, NEW n \in 1..Len(wire), receive(n)
  PROVE  Inv'
<1>1. /\ mBuffer' = mBuffer \o SubSeq(wire, 1, n) /\ wire' = Drop(wire, n)
      /\ link' = link /\ sent' = sent /\ delivered' = delivered /\ ends' = ends
      /\ parsing' = TRUE
  BY DEF receive
<1>2. Coded' = Coded BY <1>1 DEF Coded, Wrapped
<1>3. Taken' = Taken /\ Written' = Written BY <1>1 DEF Taken, Written
<1>4. Len(mBuffer) \in Nat /\ Len(wire) \in Nat BY Bounds
<1>5. /\ mBuffer' \in Seq(Byte) /\ Len(mBuffer') = Len(mBuffer) + n
      /\ mBuffer' \o wire' = mBuffer \o wire
  <2>. DEFINE r == SubSeq(wire, 1, n)
  <2>1. mBuffer \in Seq(Byte) /\ wire \in Seq(Byte) BY DEF Inv, Values
  <2>2. /\ mBuffer \o r \in Seq(Byte) /\ Len(mBuffer \o r) = Len(mBuffer) + n
        /\ (mBuffer \o r) \o Drop(wire, n) = mBuffer \o wire
    BY <2>1, ReadProperties, SMTT(60)
  <2>. HIDE DEF r
  <2>. QED BY <1>1, <2>2 DEF r
<1>6. wire' \in Seq(Byte) /\ Len(wire') = Len(wire) - n
  <2>1. wire \in Seq(Byte) /\ n \in 0..Len(wire) BY <1>4 DEF Inv, Values
  <2>. QED BY <1>1, <2>1, DropProperties
<1>7. Values' BY <1>1, <1>5, <1>6 DEF Inv, Values
<1>8. Marked' BY <1>1, <1>2 DEF Inv, Marked
<1>9. Carried'
  <2>1. Len(mBuffer') + Len(wire') = Len(mBuffer) + Len(wire) BY <1>4, <1>5, <1>6
  <2>2. /\ Len(delivered') <= Len(sent')
        /\ \A k \in 1..Len(delivered') : delivered'[k] = sent'[k]
    BY <1>1 DEF Inv, Carried
  <2>3. Len(mBuffer') + Len(wire') = Written' - Taken' BY <1>3, <2>1 DEF Inv, Carried
  <2>4. ASSUME NEW k \in (Len(delivered') + 1)..Len(sent'),
               NEW i \in 1..Len(Coded'[sent'[k]])
        PROVE  (mBuffer' \o wire')[(ends'[k] - Taken') + i] = Coded'[sent'[k]][i]
    <3>1. k \in (Len(delivered) + 1)..Len(sent) /\ i \in 1..Len(Coded[sent[k]])
      BY <1>1, <1>2
    <3>2. (mBuffer \o wire)[(ends[k] - Taken) + i] = Coded[sent[k]][i]
      BY <3>1 DEF Inv, Carried
    <3>. QED BY <1>1, <1>2, <1>3, <1>5, <3>2
  <2>. QED BY <2>2, <2>3, <2>4 DEF Carried
<1>10. Emptied' BY <1>1 DEF Emptied
<1>. QED BY <1>7, <1>8, <1>9, <1>10 DEF Inv

\* The buffer begins as the next frame does.
LEMMA NextFrameFirst ==
  ASSUME Inv, Len(delivered) < Len(sent)
  PROVE  /\ sent[Len(delivered) + 1] \in Frames
         /\ Begins(mBuffer, Wrapped(sent[Len(delivered) + 1]))
<1>. DEFINE k == Len(delivered) + 1
            W == Coded[sent[k]]
            s == mBuffer \o wire
<1>1. /\ Len(sent) \in Nat /\ Len(delivered) \in Nat /\ Len(mBuffer) \in Nat /\ Taken \in Nat
      /\ \A j \in 1..Len(sent) : sent[j] \in Frames
  BY Bounds
<1>2. k \in (Len(delivered) + 1)..Len(sent) /\ k \in 1..Len(sent) BY <1>1
<1>3. sent[k] \in Frames /\ W = Wrapped(sent[k]) BY <1>1, <1>2, CodedProperties
<1>4. \A i \in 1..Len(W) : s[(ends[k] - Taken) + i] = W[i] BY <1>2 DEF Inv, Carried
<1>5. ends[k] - Taken = 0 BY <1>1 DEF Taken
<1>6. \A i \in 1..Len(mBuffer) : s[i] = mBuffer[i]
  <2>1. mBuffer \in Seq(Byte) /\ wire \in Seq(Byte) BY DEF Inv, Values
  <2>. QED BY <2>1, JoinProperties
<1>. HIDE DEF W, s
<1>7. ASSUME NEW i \in 1..Len(W), i <= Len(mBuffer) PROVE mBuffer[i] = W[i]
  <2>1. i \in 1..Len(mBuffer) /\ 0 + i = i BY <1>1, <1>7
  <2>. QED BY <1>4, <1>5, <1>6, <2>1
<1>8. Begins(mBuffer, W) BY <1>7 DEF Begins
<1>. QED BY <1>3, <1>8

\* Behind what is taken off the front the bytes stay as they are.
LEMMA DropJoin ==
  ASSUME NEW S, NEW s \in Seq(S), NEW t \in Seq(S), NEW n \in 0..Len(s)
  PROVE  Drop(s, n) \o t = Drop(s \o t, n)
<1>1. Len(s) \in Nat /\ Len(t) \in Nat BY LenProperties
<1>2. /\ Drop(s, n) \in Seq(S) /\ Len(Drop(s, n)) = Len(s) - n
      /\ \A i \in 1..(Len(s) - n) : Drop(s, n)[i] = s[n + i]
  BY DropProperties
<1>3. /\ Len(s \o t) = Len(s) + Len(t)
      /\ \A i \in 1..(Len(s) + Len(t)) : (s \o t)[i] = IF i <= Len(s) THEN s[i] ELSE t[i - Len(s)]
      /\ s \o t \in Seq(S)
  BY ConcatProperties
<1>. DEFINE r == Drop(s, n)
            q == Drop(s \o t, n)
<1>4. r \in Seq(S) /\ Len(r) = Len(s) - n BY <1>2
<1>. HIDE DEF r
<1>5. /\ r \o t \in Seq(S) /\ Len(r \o t) = Len(r) + Len(t)
      /\ \A i \in 1..(Len(r) + Len(t)) : (r \o t)[i] = IF i <= Len(r) THEN r[i] ELSE t[i - Len(r)]
  BY <1>4, ConcatProperties
<1>6. /\ q \in Seq(S) /\ Len(q) = Len(s \o t) - n
      /\ \A i \in 1..(Len(s \o t) - n) : q[i] = (s \o t)[n + i]
  <2>1. n \in 0..Len(s \o t) BY <1>1, <1>3
  <2>. QED BY <1>3, <2>1, DropProperties, ZenonT(60)
<1>. HIDE DEF q
<1>7. ASSUME NEW i \in 1..(Len(s \o t) - n) PROVE (r \o t)[i] = (s \o t)[n + i]
  <2>1. i \in 1..(Len(r) + Len(t)) /\ n + i \in 1..(Len(s) + Len(t)) BY <1>1, <1>3, <1>4
  <2>2. CASE i <= Len(r)
    <3>1. i \in 1..(Len(s) - n) /\ n + i <= Len(s) BY <1>1, <1>4, <2>2
    <3>2. r[i] = s[n + i] BY <1>2, <3>1 DEF r
    <3>. QED BY <1>3, <1>5, <2>1, <2>2, <3>1, <3>2
  <2>3. CASE ~(i <= Len(r))
    <3>1. ~(n + i <= Len(s)) /\ (n + i) - Len(s) = i - Len(r) BY <1>1, <1>4, <2>3
    <3>. QED BY <1>3, <1>5, <2>1, <2>3, <3>1
  <2>. QED BY <2>2, <2>3
<1>8. Len(r \o t) = Len(q) /\ \A i \in 1..Len(q) : (r \o t)[i] = q[i]
  BY <1>1, <1>3, <1>4, <1>5, <1>6, <1>7, SMTT(60)
<1>9. r \o t = q BY <1>5, <1>6, <1>8, SeqEqual
<1>. QED BY <1>9 DEF r, q

\* Positions in the buffer before and after w bytes were taken off its front.
LEMMA Shift ==
  ASSUME NEW e \in Nat, NEW t \in Nat, NEW w \in Nat, NEW c \in Nat, NEW l \in Nat,
         NEW i \in Nat, t + w <= e, (e - t) + c <= l, 1 <= i, i <= c
  PROVE  /\ (e - (t + w)) + i \in 1..(l - w)
         /\ w + ((e - (t + w)) + i) = (e - t) + i
OBVIOUS

\* A turn that leaves the buffer as it was ends the loop;
LEMMA WaitKeepsInv ==
  ASSUME Inv, UNCHANGED <<link, sent, delivered, wire, mBuffer, ends>>, parsing' = FALSE,
         \/ mBuffer = <<>>
         \/ /\ Len(delivered) < Len(sent)
            /\ Len(mBuffer) < Len(Wrapped(sent[Len(delivered) + 1]))
  PROVE  Inv'
<1>1. Coded' = Coded BY DEF Coded, Wrapped
<1>2. Taken' = Taken /\ Written' = Written BY DEF Taken, Written
<1>3. Values' /\ Marked' /\ Carried'
  <2>1. Values' BY <1>1, <1>2 DEF Inv, Values
  <2>2. Marked' BY <1>1, <1>2 DEF Inv, Marked
  <2>3. Carried' BY <1>1, <1>2, ZenonT(60) DEF Inv, Carried
  <2>. QED BY <2>1, <2>2, <2>3
<1>4. Emptied'
  <2>1. CASE mBuffer = <<>> BY <2>1 DEF Emptied
  <2>2. CASE mBuffer # <<>>
    <3>1. Len(delivered) + 1 \in 1..Len(sent) BY <2>2, Bounds
    <3>2. Len(mBuffer) < Len(Coded[sent[Len(delivered) + 1]])
      BY <2>2, <3>1, Bounds, CodedProperties
    <3>. QED BY <1>1, <2>2, <3>2 DEF Emptied
  <2>. QED BY <2>1, <2>2
<1>. QED BY <1>3, <1>4 DEF Inv

\* one that takes the next frame may be followed by another.
LEMMA TakeKeepsInv ==
  ASSUME Inv, Len(delivered) < Len(sent),
         Len(Wrapped(sent[Len(delivered) + 1])) <= Len(mBuffer),
         UNCHANGED <<link, sent, wire, ends>>,
         mBuffer' = Drop(mBuffer, Len(Wrapped(sent[Len(delivered) + 1]))),
         delivered' = Append(delivered, sent[Len(delivered) + 1]),
         parsing' = (mBuffer' # <<>>)
  PROVE  Inv'
<1>. DEFINE d == Len(delivered) + 1
            W == Coded[sent[d]]
            s == mBuffer \o wire
<1>1. /\ Len(sent) \in Nat /\ Len(delivered) \in Nat /\ Len(mBuffer) \in Nat
      /\ Len(wire) \in Nat /\ Taken \in Nat /\ Written \in Nat
      /\ \A k \in 1..Len(ends) : ends[k] \in Nat
      /\ \A k \in 1..Len(sent) : sent[k] \in Frames
      /\ Len(ends) = Len(sent) + 1
  BY Bounds DEF Inv, Marked
<1>2. d \in 1..Len(sent) /\ sent[d] \in Frames BY <1>1
<1>3. W = Wrapped(sent[d]) /\ Len(W) \in Nat \ {0} BY <1>2, CodedProperties
<1>4. /\ mBuffer \in Seq(Byte) /\ wire \in Seq(Byte) /\ Len(W) \in 0..Len(mBuffer)
      /\ mBuffer' = Drop(mBuffer, Len(W))
  BY <1>1, <1>3 DEF Inv, Values
<1>5. Coded' = Coded BY DEF Coded, Wrapped
<1>6. /\ delivered' \in Seq(Frames) /\ Len(delivered') = d
      /\ \A k \in 1..Len(delivered) : delivered'[k] = delivered[k]
      /\ delivered'[d] = sent[d]
  BY <1>2, AppendProperties DEF Inv, Values
<1>7. Taken' = Taken + Len(W) /\ Written' = Written
  <2>1. Taken' = ends[d + 1] BY <1>6 DEF Taken
  <2>2. ends[d + 1] = ends[d] + Len(W) BY <1>2 DEF Inv, Marked
  <2>. QED BY <2>1, <2>2 DEF Taken, Written
<1>8. mBuffer' \in Seq(Byte) /\ Len(mBuffer') = Len(mBuffer) - Len(W)
  <2>. DEFINE n == Len(W)
  <2>1. n \in 0..Len(mBuffer) /\ mBuffer \in Seq(Byte) BY <1>4
  <2>. HIDE DEF n
  <2>2. Drop(mBuffer, n) \in Seq(Byte) /\ Len(Drop(mBuffer, n)) = Len(mBuffer) - n
    BY <2>1, DropProperties
  <2>. QED BY <1>4, <2>2 DEF n
<1>9. Values'
  <2>1. parsing' \in BOOLEAN OBVIOUS
  <2>. QED BY <1>6, <1>8, <2>1 DEF Inv, Values
<1>10. Marked' BY <1>5 DEF Inv, Marked
<1>11. Carried'
  <2>1. Len(delivered') <= Len(sent') BY <1>1, <1>2, <1>6
  <2>2. ASSUME NEW k \in 1..Len(delivered') PROVE delivered'[k] = sent'[k]
    <3>1. CASE k = d BY <1>6, <3>1
    <3>2. CASE k # d
      <4>1. k \in 1..Len(delivered) BY <1>1, <1>6, <3>2
      <4>. QED BY <1>6, <4>1 DEF Inv, Carried
    <3>. QED BY <3>1, <3>2
  <2>3. Len(mBuffer') + Len(wire') = Written' - Taken'
    <3>1. Len(mBuffer) + Len(wire) = Written - Taken BY DEF Inv, Carried
    <3>. QED BY <1>1, <1>3, <1>7, <1>8, <3>1
  <2>4. \A i \in 1..(Len(s) - Len(W)) : (mBuffer' \o wire')[i] = s[Len(W) + i]
    <3>. DEFINE n == Len(W)
    <3>1. n \in 0..Len(mBuffer) /\ mBuffer \in Seq(Byte) /\ wire \in Seq(Byte) BY <1>4
    <3>2. s \in Seq(Byte) /\ n \in 0..Len(s)
      <4>1. s \in Seq(Byte) /\ Len(s) = Len(mBuffer) + Len(wire) BY <3>1, ConcatProperties
      <4>. QED BY <1>1, <3>1, <4>1
    <3>. HIDE DEF n
    <3>3. mBuffer' \o wire' = Drop(s, n) BY <1>4, <3>1, DropJoin, ZenonT(60) DEF n
    <3>. HIDE DEF s
    <3>4. \A i \in 1..(Len(s) - n) : Drop(s, n)[i] = s[n + i] BY <3>2, DropProperties
    <3>. QED BY <3>3, <3>4 DEF n
  <2>5. ASSUME NEW k \in (Len(delivered') + 1)..Len(sent'),
               NEW i \in 1..Len(Coded'[sent'[k]])
        PROVE  (mBuffer' \o wire')[(ends'[k] - Taken') + i] = Coded'[sent'[k]][i]
    <3>1. /\ k \in (Len(delivered) + 1)..Len(sent) /\ i \in 1..Len(Coded[sent[k]])
          /\ k \in 1..Len(sent) /\ k \in 1..Len(ends) /\ d + 1 \in 1..Len(ends)
          /\ d + 1 <= k
      BY <1>1, <1>5, <1>6, SMTT(60)
    <3>2. s[(ends[k] - Taken) + i] = Coded[sent[k]][i] BY <3>1 DEF Inv, Carried
    <3>3. /\ ends[k] - Taken \in Nat
          /\ (ends[k] - Taken) + Len(Coded[sent[k]]) <= Len(s)
      BY <3>1, WithinStream
    <3>4. Taken' <= ends[k]
      <4>1. Taken' = ends[d + 1] BY <1>6 DEF Taken
      <4>2. CASE k = d + 1 BY <1>1, <3>1, <4>1, <4>2, SMTT(60)
      <4>3. CASE k # d + 1
        <5>1. d + 1 < k BY <1>1, <3>1, <4>3
        <5>2. ends[d + 1] < ends[k] BY <3>1, <5>1 DEF Inv, Marked
        <5>3. ends[d + 1] \in Nat /\ ends[k] \in Nat BY <1>1, <3>1
        <5>. QED BY <4>1, <5>2, <5>3
      <4>. QED BY <4>2, <4>3
    <3>. DEFINE j == (ends[k] - Taken') + i
    <3>5. /\ Len(Coded[sent[k]]) \in Nat /\ ends[k] \in Nat
          /\ Len(s) \in Nat
      <4>1. s \in Seq(Byte) BY Bounds
      <4>. QED BY <1>1, <3>1, <4>1, Bounds, LenProperties
    <3>6. j \in 1..(Len(s) - Len(W)) /\ Len(W) + j = (ends[k] - Taken) + i
      <4>1. /\ Taken \in Nat /\ Len(W) \in Nat /\ i \in Nat /\ 1 <= i
            /\ i <= Len(Coded[sent[k]])
        BY <1>1, <1>3, <3>1, <3>5
      <4>. DEFINE e == ends[k]
                  c == Len(Coded[sent[k]])
      <4>2. Taken' = Taken + Len(W) /\ e \in Nat /\ c \in Nat /\ Len(s) \in Nat
            /\ (e - Taken) + c <= Len(s) /\ Taken' <= e /\ i <= c
        BY <1>7, <3>3, <3>4, <3>5, <4>1
      <4>. DEFINE l == Len(s)
                  w == Len(W)
      <4>3. /\ Taken + w <= e /\ (e - Taken) + c <= l /\ 1 <= i /\ i <= c
            /\ Taken \in Nat /\ w \in Nat /\ i \in Nat /\ e \in Nat /\ c \in Nat /\ l \in Nat
        BY <4>1, <4>2
      <4>. HIDE DEF l, w, e, c
      <4>4. /\ (e - (Taken + w)) + i \in 1..(l - w)
            /\ w + ((e - (Taken + w)) + i) = (e - Taken) + i
        BY <4>3, Shift
      <4>5. Taken' = Taken + w BY <4>2 DEF w
      <4>. QED BY <4>4, <4>5 DEF e, l, w
    <3>. HIDE DEF j
    <3>7. (mBuffer' \o wire')[j] = s[(ends[k] - Taken) + i] BY <2>4, <3>6
    <3>. QED BY <1>5, <3>2, <3>7 DEF j
  <2>. QED BY <2>1, <2>2, <2>3, <2>5 DEF Carried
<1>12. Emptied' BY DEF Emptied
<1>. QED BY <1>9, <1>10, <1>11, <1>12 DEF Inv

\* What a turn does is one of the two.
LEMMA ProcessSteps ==
  ASSUME Inv, processBuffer
  PROVE  \/ /\ UNCHANGED <<link, sent, delivered, wire, mBuffer, ends>> /\ parsing' = FALSE
            /\ \/ mBuffer = <<>>
               \/ /\ Len(delivered) < Len(sent)
                  /\ Len(mBuffer) < Len(Wrapped(sent[Len(delivered) + 1]))
         \/ /\ Len(delivered) < Len(sent)
            /\ Len(Wrapped(sent[Len(delivered) + 1])) <= Len(mBuffer)
            /\ UNCHANGED <<link, sent, wire, ends>>
            /\ mBuffer' = Drop(mBuffer, Len(Wrapped(sent[Len(delivered) + 1])))
            /\ delivered' = Append(delivered, sent[Len(delivered) + 1])
            /\ parsing' = (mBuffer' # <<>>)
<1>1. PICK t \in Turns(mBuffer) :
        /\ mBuffer' = t.buffer /\ delivered' = delivered \o t.frames /\ parsing' = t.again
  BY DEF processBuffer, Again
<1>2. UNCHANGED <<link, sent, wire, ends>> BY DEF processBuffer
<1>3. /\ link \in Links /\ mBuffer \in Seq(Byte) /\ delivered \in Seq(Frames)
      /\ Len(sent) \in Nat /\ Len(delivered) \in Nat /\ Len(mBuffer) \in Nat
      /\ Len(delivered) <= Len(sent)
  BY Bounds DEF Inv, Values, Carried
<1>4. ASSUME t = Waits(mBuffer)
      PROVE  UNCHANGED <<link, sent, delivered, wire, mBuffer, ends>> /\ parsing' = FALSE
  <2>1. t.buffer = mBuffer /\ t.frames = <<>> /\ t.again = FALSE BY <1>4 DEF Waits, Turn
  <2>2. delivered \o <<>> = delivered BY <1>3, ConcatEmptySeq
  <2>. QED BY <1>1, <1>2, <2>1, <2>2
<1>5. CASE Len(delivered) < Len(sent)
  <2>. DEFINE f == sent[Len(delivered) + 1]
  <2>1. f \in Frames /\ Begins(mBuffer, Wrapped(f)) BY <1>5, NextFrameFirst
  <2>. HIDE DEF f
  <2>2. t = TurnFor(mBuffer, f) BY <1>3, <2>1, TurnsTake
  <2>3. CASE Len(mBuffer) < Len(Wrapped(f))
    <3>1. t = Waits(mBuffer) BY <2>2, <2>3 DEF TurnFor
    <3>. QED BY <1>4, <1>5, <2>3, <3>1 DEF f
  <2>4. CASE ~(Len(mBuffer) < Len(Wrapped(f)))
    <3>1. t = Turn(Drop(mBuffer, Len(Wrapped(f))), <<f>>) BY <2>2, <2>4 DEF TurnFor
    <3>2. /\ t.buffer = Drop(mBuffer, Len(Wrapped(f))) /\ t.frames = <<f>>
          /\ t.again = (Drop(mBuffer, Len(Wrapped(f))) # <<>>)
      <4>1. <<f>> # <<>> OBVIOUS
      <4>. QED BY <3>1, <4>1 DEF Turn
    <3>3. delivered \o <<f>> = Append(delivered, f) BY <1>3, <2>1, AppendIsConcat
    <3>4. Len(Wrapped(f)) <= Len(mBuffer)
      <4>1. Len(Wrapped(f)) \in Nat BY <2>1, CodedProperties
      <4>. QED BY <1>3, <2>4, <4>1
    <3>. QED BY <1>1, <1>2, <1>5, <3>2, <3>3, <3>4 DEF f
  <2>. QED BY <2>3, <2>4
<1>6. CASE ~(Len(delivered) < Len(sent))
  <2>1. mBuffer = <<>>
    <3>1. Len(delivered) = Len(sent) BY <1>3, <1>6
    <3>2. Taken = Written BY <3>1 DEF Taken, Written, Inv, Marked
    <3>3. Len(mBuffer) + Len(wire) = Written - Taken BY DEF Inv, Carried
    <3>4. Len(mBuffer) = 0 BY <3>2, <3>3, Bounds
    <3>. QED BY <1>3, <3>4, EmptySeq
  <2>2. t = Waits(mBuffer) BY <1>3, <2>1, TurnsWait
  <2>. QED BY <1>4, <2>1, <2>2
<1>. QED BY <1>5, <1>6

\* A new socket begins where the program began.
LEMMA ReconnectKeepsInv ==
  ASSUME Inv, reconnect
  PROVE  Inv'
<1>1. /\ sent' = <<>> /\ delivered' = <<>> /\ wire' = <<>> /\ mBuffer' = <<>>
      /\ parsing' = FALSE /\ ends' = <<0>> /\ link' = link
  BY DEF reconnect
<1>2. Values'
  <2>1. ends' \in Seq(Nat) BY <1>1
  <2>2. sent' \in Seq(Frames) /\ delivered' \in Seq(Frames) BY <1>1, EmptySeq
  <2>3. wire' \in Seq(Byte) /\ mBuffer' \in Seq(Byte) BY <1>1, EmptySeq
  <2>. QED BY <1>1, <2>1, <2>2, <2>3 DEF Inv, Values
<1>3. Marked' BY <1>1 DEF Marked
<1>4. Carried' BY <1>1 DEF Carried, Written, Taken
<1>5. Emptied' BY <1>1 DEF Emptied
<1>. QED BY <1>2, <1>3, <1>4, <1>5 DEF Inv

\* Every step preserves the invariant.
LEMMA InvStep == Inv /\ [Next]_vars => Inv'
<1>. SUFFICES ASSUME Inv, [Next]_vars PROVE Inv' OBVIOUS
<1>1. ASSUME NEW f \in Frames, sendFrame(f) PROVE Inv' BY <1>1, SendKeepsInv
<1>2. ASSUME NEW n \in 1..Len(wire), receive(n) PROVE Inv' BY <1>2, ReceiveKeepsInv
<1>3. CASE processBuffer BY <1>3, ProcessSteps, WaitKeepsInv, TakeKeepsInv
<1>4. CASE reconnect BY <1>4, ReconnectKeepsInv
<1>5. CASE UNCHANGED vars
  <2>1. Coded' = Coded BY <1>5 DEF vars, Coded, Wrapped
  <2>2. Taken' = Taken /\ Written' = Written BY <1>5 DEF vars, Taken, Written
  <2>3. Values' BY <1>5, <2>1, <2>2 DEF vars, Inv, Values
  <2>4. Marked' BY <1>5, <2>1, <2>2 DEF vars, Inv, Marked
  <2>5. Carried' BY <1>5, <2>1, <2>2, ZenonT(60) DEF vars, Inv, Carried
  <2>6. Emptied' BY <1>5, <2>1, <2>2 DEF vars, Inv, Emptied
  <2>. QED BY <2>3, <2>4, <2>5, <2>6 DEF Inv
<1>. QED BY <1>1, <1>2, <1>3, <1>4, <1>5 DEF Next

\* The invariant holds throughout.
LEMMA Invariant == ASSUME Quiet PROVE Spec => []Inv
<1>1. Init => Inv BY InvInit
<1>. QED BY <1>1, InvStep, PTL DEF Spec

-----------------------------------------------------------------------------
(* What follows from it.                                                   *)

\* The buffer of a receiver of which the loop has ended holds less than one of
\* the frames.
THEOREM FramesTypeOK == ASSUME Quiet PROVE Spec => []TypeOK
<1>1. Inv => TypeOK
  <2>. SUFFICES ASSUME Inv PROVE TypeOK OBVIOUS
  <2>1. ASSUME ~parsing PROVE mBuffer = <<>> \/ \E f \in Frames : Len(mBuffer) < Len(Wrapped(f))
    <3>1. CASE mBuffer = <<>> BY <3>1
    <3>2. CASE mBuffer # <<>>
      <4>. DEFINE f == sent[Len(delivered) + 1]
      <4>1. Len(delivered) < Len(sent) /\ Len(mBuffer) < Len(Coded[f])
        BY <2>1, <3>2 DEF Inv, Emptied
      <4>2. Len(delivered) + 1 \in 1..Len(sent) BY <4>1, Bounds
      <4>3. f \in Frames BY <4>2, Bounds
      <4>. QED BY <4>1, <4>3, CodedProperties
    <3>. QED BY <3>1, <3>2
  <2>. QED BY <2>1 DEF Inv, Values, TypeOK
<1>. QED BY <1>1, Invariant, PTL

\* The listener is given what was sent: the frames, unchanged, once, in order.
THEOREM FramesInOrder == ASSUME Quiet PROVE Spec => []InOrder
<1>1. Inv => InOrder
  <2>. SUFFICES ASSUME Inv PROVE InOrder OBVIOUS
  <2>1. /\ delivered \in Seq(Frames) /\ sent \in Seq(Frames)
        /\ Len(sent) \in Nat /\ Len(delivered) \in Nat /\ Len(delivered) <= Len(sent)
        /\ \A k \in 1..Len(delivered) : delivered[k] = sent[k]
    BY Bounds DEF Inv, Values, Carried
  <2>2. SubSeq(sent, 0 + 1, 0 + Len(delivered)) = delivered
    <3>1. /\ 0 + Len(delivered) <= Len(sent)
          /\ \A i \in 1..Len(delivered) : sent[0 + i] = delivered[i]
      BY <2>1
    <3>. QED BY <2>1, <3>1, Stretch
  <2>3. SubSeq(delivered, 0 + 1, 0 + Len(delivered)) = delivered
    <3>1. /\ 0 + Len(delivered) <= Len(delivered)
          /\ \A i \in 1..Len(delivered) : delivered[0 + i] = delivered[i]
      BY <2>1
    <3>. QED BY <2>1, <3>1, Stretch
  <2>4. 0 + Len(delivered) = Len(delivered) BY <2>1
  <2>. QED BY <2>1, <2>2, <2>3, <2>4 DEF InOrder, IsPrefix
<1>. QED BY <1>1, Invariant, PTL

\* No frame that has been read in full stays in the buffer of a loop that ended.
THEOREM NoFrameWaits == ASSUME Quiet PROVE Spec => []NothingWaits
<1>1. Inv => NothingWaits
  <2>. SUFFICES ASSUME Inv, ~parsing, NEW k \in Complete, ~(k <= Len(delivered)) PROVE FALSE
    BY DEF NothingWaits
  <2>. DEFINE d == Len(delivered) + 1
  <2>1. /\ Len(sent) \in Nat /\ Len(delivered) \in Nat /\ Len(mBuffer) \in Nat
        /\ Len(wire) \in Nat /\ Taken \in Nat /\ Written \in Nat
        /\ Len(ends) = Len(sent) + 1 /\ \A j \in 1..Len(ends) : ends[j] \in Nat
        /\ \A j \in 1..Len(sent) : sent[j] \in Frames
    BY Bounds DEF Inv, Marked
  <2>2. k \in 1..Len(sent) /\ ends[k + 1] <= Written - Len(wire) BY DEF Complete
  <2>3. /\ d \in 1..Len(sent) /\ d + 1 \in 1..Len(ends) /\ k + 1 \in 1..Len(ends)
        /\ d + 1 <= k + 1
    BY <2>1, <2>2
  <2>4. Len(mBuffer) + Len(wire) = Written - Taken BY DEF Inv, Carried
  <2>5. ends[k + 1] <= Taken + Len(mBuffer)
    <3>1. ends[k + 1] \in Nat BY <2>1, <2>3
    <3>. QED BY <2>1, <2>2, <2>4, <3>1
  <2>6. ends[d + 1] = Taken + Len(Coded[sent[d]]) BY <2>3 DEF Inv, Marked, Taken
  <2>7. ends[d + 1] <= ends[k + 1]
    <3>1. ends[d + 1] \in Nat /\ ends[k + 1] \in Nat BY <2>1, <2>3
    <3>2. CASE k + 1 = d + 1 BY <3>1, <3>2
    <3>3. CASE k + 1 # d + 1
      <4>1. d + 1 < k + 1 BY <2>1, <2>3, <3>3
      <4>2. ends[d + 1] < ends[k + 1] BY <2>3, <4>1 DEF Inv, Marked
      <4>. QED BY <3>1, <4>2
    <3>. QED BY <3>2, <3>3
  <2>8. Len(Coded[sent[d]]) \in Nat \ {0} BY <2>1, <2>3, CodedProperties
  <2>9. ends[d + 1] \in Nat /\ ends[k + 1] \in Nat BY <2>1, <2>3
  <2>10. Len(Coded[sent[d]]) <= Len(mBuffer) BY <2>1, <2>5, <2>6, <2>7, <2>8, <2>9, SMTT(60)
  <2>11. mBuffer = <<>> \/ Len(mBuffer) < Len(Coded[sent[d]]) BY DEF Inv, Emptied
  <2>12. CASE mBuffer = <<>>
    <3>1. Len(mBuffer) = 0 BY <2>12
    <3>. QED BY <2>8, <2>10, <3>1
  <2>13. CASE Len(mBuffer) < Len(Coded[sent[d]]) BY <2>1, <2>8, <2>10, <2>13
  <2>. QED BY <2>11, <2>12, <2>13
<1>. QED BY <1>1, Invariant, PTL

\* A stream of bytes with a receiver's loop at its end is a queue of frames.
THEOREM LinksAreChannels == ASSUME Quiet PROVE Spec => ImplementsChannel
<1>1. Init => Channel!Init BY DEF Init, Channel!Init
<1>2. Inv /\ [Next]_vars => [Channel!Next]_<<sent, delivered>>
  <2>. SUFFICES ASSUME Inv, [Next]_vars, ~UNCHANGED <<sent, delivered>> PROVE Channel!Next
    OBVIOUS
  <2>1. ASSUME NEW f \in Frames, sendFrame(f) PROVE Channel!Next
    BY <2>1 DEF sendFrame, Channel!Next, Channel!send
  <2>2. ASSUME NEW n \in 1..Len(wire), receive(n) PROVE Channel!Next BY <2>2 DEF receive
  <2>3. CASE processBuffer
    <3>1. /\ Len(delivered) < Len(sent) /\ sent' = sent
          /\ delivered' = Append(delivered, sent[Len(delivered) + 1])
      BY <2>3, ProcessSteps
    <3>. QED BY <3>1 DEF Channel!Next, Channel!deliver
  <2>4. CASE reconnect BY <2>4 DEF reconnect, Channel!Next, Channel!renew
  <2>5. CASE UNCHANGED vars BY <2>5 DEF vars
  <2>. QED BY <2>1, <2>2, <2>3, <2>4, <2>5 DEF Next
<1>. QED BY <1>1, <1>2, Invariant, PTL DEF Spec, ImplementsChannel, Channel!Spec

-----------------------------------------------------------------------------
(* What follows from FrameChannel alone.                                   *)

\* The types the channel keeps, and what it has delivered.
Queue ==
  /\ sent \in Seq(Frames) /\ delivered \in Seq(Frames)
  /\ Len(delivered) <= Len(sent)
  /\ \A i \in 1..Len(delivered) : delivered[i] = sent[i]

\* Each step of the channel keeps to the queue.
LEMMA QueueStep == Queue /\ [Channel!Next]_<<sent, delivered>> => Queue'
<1>. SUFFICES ASSUME Queue, [Channel!Next]_<<sent, delivered>> PROVE Queue' OBVIOUS
<1>. USE DEF Queue
<1>1. ASSUME NEW f \in Frames, Channel!send(f) PROVE Queue'
  BY <1>1 DEF Channel!send
<1>2. CASE Channel!deliver
  <2>1. /\ Len(delivered) < Len(sent) /\ sent' = sent
        /\ delivered' = Append(delivered, sent[Len(delivered) + 1])
    BY <1>2 DEF Channel!deliver
  <2>2. sent[Len(delivered) + 1] \in Frames BY <2>1
  <2>. QED BY <2>1, <2>2
<1>3. CASE Channel!renew BY <1>3 DEF Channel!renew
<1>4. CASE UNCHANGED <<sent, delivered>> BY <1>4
<1>. QED BY <1>1, <1>2, <1>3, <1>4 DEF Channel!Next

\* A connection that is a channel, as LinksAreChannels shows the links to be,
\* never delivers what was not sent, and neither skips nor repeats a frame.
THEOREM ChannelIsQueue == Channel!Spec => []Queue
<1>1. Channel!Init => Queue BY DEF Channel!Init, Queue
<1>. QED BY <1>1, QueueStep, PTL DEF Channel!Spec

=============================================================================
