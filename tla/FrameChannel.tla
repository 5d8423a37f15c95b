---------------------------- MODULE FrameChannel ----------------------------
(***************************************************************************)
(* What a connection promises to those who send and receive frames on it:  *)
(* a queue.  Frames are delivered whole, one by one, in the order in which *)
(* they were sent; a new connection begins with nothing on its way.        *)
(***************************************************************************)
EXTENDS Naturals, Sequences

CONSTANTS Frames, MaxFrames

VARIABLES sent, delivered

Init == sent = <<>> /\ delivered = <<>>

send(f) ==
  /\ Len(sent) < MaxFrames /\ sent' = Append(sent, f)
  /\ UNCHANGED delivered

deliver ==
  /\ Len(delivered) < Len(sent)
  /\ delivered' = Append(delivered, sent[Len(delivered) + 1])
  /\ UNCHANGED sent

renew == sent' = <<>> /\ delivered' = <<>>

Next == (\E f \in Frames : send(f)) \/ deliver \/ renew

Spec == Init /\ [][Next]_<<sent, delivered>>

=============================================================================
