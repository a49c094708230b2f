----------------------------- MODULE FrameSource -----------------------------
(***************************************************************************)
(* A decoder as the loops of the tools see it: a queue of frames.  A       *)
(* packet that is sent either adds its frames at the end of the queue or   *)
(* is refused and adds none.  The loop then takes frames out, in order,    *)
(* until no more than delay are left, which only later packets push out.   *)
(* AudioConvert and VideoThumbnail treat the decoder in this way.          *)
(***************************************************************************)
EXTENDS Naturals, Sequences

VARIABLES delay,        \* frames the decoder holds back
          phase,        \* "packets" or "frames": what the loop asks for
          queue,        \* frames accepted and not yet delivered
          delivered     \* frames delivered

fvars == << delay, phase, queue, delivered >>

FInit == delay \in Nat /\ phase = "packets" /\ queue = << >> /\ delivered = << >>

Accept ==
  /\ phase = "packets"
  /\ SubSeq(queue', 1, Len(queue)) = queue
  /\ phase' = "frames"
  /\ UNCHANGED << delay, delivered >>

Deliver ==
  /\ phase = "frames" /\ Len(queue) > delay
  /\ delivered' = Append(delivered, Head(queue))
  /\ queue' = Tail(queue)
  /\ UNCHANGED << delay, phase >>

Exhausted ==
  /\ phase = "frames" /\ Len(queue) <= delay
  /\ phase' = "packets"
  /\ UNCHANGED << delay, queue, delivered >>

FNext == Accept \/ Deliver \/ Exhausted

FSpec == FInit /\ [][FNext]_fvars
=============================================================================
