----------------------------- MODULE AacEncoder -----------------------------
(***************************************************************************)
(* The send/receive interface of libavcodec's encoders (encode.c) in front *)
(* of the AAC encoder (aacenc.c, audio_frame_queue.c), the encoder of the  *)
(* mp4 files every audio tool writes.  An encoder is a record and its      *)
(* operations are operators on it:                                         *)
(*                                                                         *)
(*   frame      buffer_frame: the frame accepted and not yet encoded       *)
(*   pkt        buffer_pkt: the packet encoded and not yet fetched         *)
(*   old mid new  the three regions of planar_samples                      *)
(*   number     frames encoded so far (frame_number)                       *)
(*   remaining  samples the frame queue still owes (remaining_samples)     *)
(*   draining done failed   the end-of-stream flags; a failed encode       *)
(*                                                                         *)
(* A frame is the sequence of its samples.  A packet is the samples that   *)
(* come out of a decoder once it is decoded: the first packet of a stream  *)
(* carries none (priming), and each later one carries the frame before the *)
(* last that was encoded.                                                  *)
(***************************************************************************)
EXTENDS Naturals, Sequences

CONSTANT FrameSize        \* frame_size, and initial_padding, of the encoder

ASSUME FrameSizeAssumption == FrameSize \in Nat \ {0}

Silence == << >>

Samples == Seq(Nat)

Encoder ==
  [frame : Seq(Samples), pkt : Seq(Samples), old : Samples, mid : Samples,
   new : Samples, number : Nat, remaining : Nat,
   draining : BOOLEAN, done : BOOLEAN, failed : BOOLEAN]

NewEncoder ==
  [frame |-> << >>, pkt |-> << >>, old |-> Silence, mid |-> Silence,
   new |-> Silence, number |-> 0, remaining |-> FrameSize,
   draining |-> FALSE, done |-> FALSE, failed |-> FALSE]

Emit(e) ==
  [e EXCEPT !.pkt = << e.old >>, !.old = e.mid,
            !.remaining = IF @ < FrameSize THEN 0 ELSE @ - FrameSize]

\* The encoder looks one frame ahead: the first frame yields no packet.
EncodeFrame(e) ==
  LET f == e.frame[1]
      q == [e EXCEPT !.frame = << >>, !.mid = e.new, !.new = f,
                     !.number = @ + 1, !.remaining = @ + Len(f)]
  IN  IF e.number = 0 THEN q ELSE Emit(q)

EncodeEnd(e) ==
  IF e.remaining = 0 \/ e.number = 0
  THEN [e EXCEPT !.done = TRUE]
  ELSE Emit([e EXCEPT !.mid = e.new, !.new = Silence])

\* encode_receive_packet_internal: one attempt to produce a packet.
Work(e) ==
  IF e.done THEN e
  ELSE IF e.frame # << >> THEN EncodeFrame(e)
  ELSE IF e.draining THEN EncodeEnd(e)
  ELSE e

WorkIfIdle(e) == IF e.pkt = << >> THEN Work(e) ELSE e

\* avcodec_send_frame refuses a frame while one waits, after the end, or
\* when it is longer than the encoder's frames.
AcceptsInput(e) == ~e.draining /\ e.frame = << >>

AcceptsFrame(e, f) == AcceptsInput(e) /\ Len(f) <= FrameSize

SendFrame(e, f) == WorkIfIdle([e EXCEPT !.frame = << f >>])

SendEnd(e) == WorkIfIdle([e EXCEPT !.draining = TRUE])

\* avcodec_receive_packet: a packet is there iff HasPacket(e); e becomes
\* Received(e) whether there was one or not.
HasPacket(e) == WorkIfIdle(e).pkt # << >>

PacketOf(e) == WorkIfIdle(e).pkt[1]

Received(e) == [WorkIfIdle(e) EXCEPT !.pkt = << >>]

\* Fetching a packet may fail where it has to encode one first.
MayFail(e) == e.pkt = << >> /\ HasPacket(e)

Failed(e) == [e EXCEPT !.failed = TRUE]
=============================================================================
