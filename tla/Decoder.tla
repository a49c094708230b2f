------------------------------- MODULE Decoder -------------------------------
(***************************************************************************)
(* The loop every tool feeds its decoder with, down to the states of       *)
(* avcodec_send_packet and avcodec_receive_frame (decode.c): the packet    *)
(* waiting in the bitstream filter, the rest of the packet being decoded,  *)
(* the frame decoded ahead of its request, and the frames a decoder holds  *)
(* back to reorder them.                                                   *)
(*                                                                         *)
(* A packet is the sequence of what the calls of the codec's decode        *)
(* function on it give: a frame, none (consumed, or a frame discarded as   *)
(* padding), or an error.  A frame is named by its packet and its place    *)
(* there.  One thread decodes ("threads" is 1 unless set), and a packet    *)
(* discards fewer than max_samples (INT_MAX) samples.                      *)
(***************************************************************************)
EXTENDS Naturals, Sequences

CONSTANTS
  Packets,        \* the packets a codec that holds nothing back is given
  Delays,         \* frames a codec holds back (AV_CODEC_CAP_DELAY)
  MaxPackets      \* bound: packets sent

Outcome == {"frame", "none", "error"}

ASSUME PacketsAssumption == Packets \subseteq Seq(Outcome) \ {<< >>}
ASSUME MaxPacketsAssumption == MaxPackets \in Nat
ASSUME DelaysAssumption == Delays \subseteq Nat

VARIABLES
  delay,          \* frames this codec holds back
  at,             \* where the loop is
  call,           \* the call that decodes: "send" or "receive"
  sent,           \* packets sent so far
  promised,       \* history: the frames they decode to
  bsf,            \* buffer_pkt of the bitstream filter: at most one packet
  in_pkt,         \* the rest of the packet being decoded
  reorder,        \* frames inside the codec
  buffer_frame,   \* at most one frame decoded by a send
  got             \* frames received

codec == << bsf, in_pkt, reorder, buffer_frame >>
history == << sent, promised >>
dvars == << delay, at, call, history, codec, got >>

\* A codec that holds frames back takes a whole packet in each call.
Input == IF delay = 0 THEN Packets ELSE {p \in Packets : Len(p) = 1}

\* The n-th packet: what each call gives, and the name of the frame it gives.
Numbered(p, n) == [i \in DOMAIN p |-> [is |-> p[i], id |-> << n, i >>]]

\* What a unit adds before the frames of the units after it.
Before(unit, frames) ==
  CASE unit.is = "frame" -> << unit.id >> \o frames
    [] unit.is = "none"  -> frames
    [] unit.is = "error" -> << >>

\* A packet decodes to its frames before the first error; Last[k] are those of
\* its last k units.
FramesOf(p) ==
  LET Last[k \in 0 .. Len(p)] ==
        IF k = 0 THEN << >> ELSE Before(p[Len(p) - k + 1], Last[k - 1])
  IN  Last[Len(p)]

DecoderInit ==
  /\ delay \in Delays
  /\ at = "read" /\ call = "receive" /\ sent = 0 /\ promised = << >>
  /\ bsf = << >> /\ in_pkt = << >> /\ reorder = << >> /\ buffer_frame = << >>
  /\ got = << >>

-------------------------------------------------------------------------------
(* The callers' side: av_read_frame, send, receive until there is no more.   *)

ReadEnds ==
  /\ at = "read"
  /\ at' = "end"
  /\ UNCHANGED << call, history, codec, got >>

\* The filter takes one packet and passes it through; a packet it refuses is
\* skipped by the caller.  A frame is decoded ahead if there is room for it.
SendPacket ==
  /\ at = "read" /\ sent < MaxPackets
  /\ sent' = sent + 1
  /\ \E p \in Input :
       LET input == Numbered(p, sent + 1)
       IN  /\ promised' = promised \o FramesOf(input)
           /\ bsf' = IF bsf = << >> THEN << input >> ELSE bsf
  /\ call' = "send"
  /\ at' = IF bsf # << >> THEN "read"
           ELSE IF buffer_frame = << >> THEN "decode" ELSE "receive"
  /\ UNCHANGED << in_pkt, reorder, buffer_frame, got >>

\* Slip: one frame is received for each packet, "if" instead of "while".
ReceiveOne ==
  /\ at = "receive" /\ buffer_frame # << >>
  /\ got' = Append(got, buffer_frame[1])
  /\ buffer_frame' = << >>
  /\ at' = "read"
  /\ UNCHANGED << call, history, bsf, in_pkt, reorder >>

ReceiveBuffered ==
  /\ at = "receive" /\ buffer_frame # << >>
  /\ got' = Append(got, buffer_frame[1])
  /\ buffer_frame' = << >>
  /\ UNCHANGED << at, call, history, bsf, in_pkt, reorder >>

ReceiveFrame ==
  /\ at = "receive" /\ buffer_frame = << >>
  /\ at' = "decode" /\ call' = "receive"
  /\ UNCHANGED << history, codec, got >>

-------------------------------------------------------------------------------
(* decode_simple_internal, called until it gives a frame or an error.        *)

Data == IF in_pkt = << >> /\ bsf # << >> THEN bsf[1] ELSE in_pkt

Decodes(outcome) ==
  /\ at = "decode" /\ Data # << >> /\ Head(Data).is = outcome
  /\ bsf' = IF in_pkt = << >> THEN << >> ELSE bsf

\* AVERROR(EAGAIN): to a send this is success, to the loop its end.
DecodeNothing ==
  /\ at = "decode" /\ Data = << >>
  /\ at' = IF call = "send" THEN "receive" ELSE "read"
  /\ UNCHANGED << call, history, codec, got >>

\* Slip: the decoder does not consume what gives no frame.
DecodeNoneAgain ==
  /\ Decodes("none")
  /\ in_pkt' = Data
  /\ UNCHANGED << at, call, history, reorder, buffer_frame, got >>

DecodeNone ==
  /\ Decodes("none")
  /\ in_pkt' = Tail(Data)
  /\ UNCHANGED << at, call, history, reorder, buffer_frame, got >>

DecodeFrame ==
  LET frames == Append(reorder, Head(Data).id)
  IN  /\ Decodes("frame")
      /\ in_pkt' = Tail(Data)
      /\ \/ /\ Len(frames) <= delay
            /\ reorder' = frames
            /\ UNCHANGED << at, buffer_frame, got >>
         \/ /\ Len(frames) > delay
            /\ reorder' = Tail(frames)
            /\ at' = "receive"
            /\ IF call = "send"
               THEN buffer_frame' = << Head(frames) >> /\ got' = got
               ELSE got' = Append(got, Head(frames)) /\ buffer_frame' = << >>
      /\ UNCHANGED << call, history >>

\* Slip: the rest of the packet stays behind.
DecodeErrorKeeps ==
  /\ Decodes("error")
  /\ in_pkt' = Tail(Data)
  /\ at' = "read"
  /\ UNCHANGED << call, history, reorder, buffer_frame, got >>

\* The rest of the packet is released with it.  A send returns the error and
\* the packet is skipped; it ends the loop of receives.
DecodeError ==
  /\ Decodes("error")
  /\ in_pkt' = << >>
  /\ at' = "read"
  /\ UNCHANGED << call, history, reorder, buffer_frame, got >>

DecoderNext ==
  /\ UNCHANGED delay
  /\ \/ ReadEnds \/ SendPacket \/ ReceiveBuffered \/ ReceiveFrame
     \/ DecodeNothing \/ DecodeNone \/ DecodeFrame \/ DecodeError

DecoderSpec == DecoderInit /\ [][DecoderNext]_dvars

\* The loop runs on the thread of the tool, which keeps running.
DecoderFairSpec == DecoderSpec /\ WF_dvars(DecoderNext)

-------------------------------------------------------------------------------
(* Properties.                                                               *)

Frame == Nat \X Nat

Packet == Seq([is : Outcome, id : Frame])

\* Every variable has its type; the buffers hold at most one packet or frame,
\* and the codec no more frames than it holds back.
DecoderTypeOK ==
  /\ delay \in Delays
  /\ at \in {"read", "decode", "receive", "end"}
  /\ call \in {"send", "receive"}
  /\ sent \in 0 .. MaxPackets
  /\ promised \in Seq(Frame)
  /\ bsf \in Seq(Packet) /\ Len(bsf) <= 1
  /\ in_pkt \in Packet
  /\ reorder \in Seq(Frame) /\ Len(reorder) <= delay
  /\ buffer_frame \in Seq(Frame) /\ Len(buffer_frame) <= 1
  /\ got \in Seq(Frame)

\* No packet is refused or forgotten on the way through the four buffers of
\* the decoder: when the loop of receives has ended, for want of input or with
\* an error in the middle of a packet, what was received and what the codec
\* holds back are all the frames of the packets sent, in order.  A tool loses
\* no other frames than the ones it never drains (audio_convert.cc:205), and
\* nothing is left over that would make the next avcodec_send_packet answer
\* EAGAIN, which audio_convert.cc:157 takes for a packet to skip.
NothingSkipped == at \in {"read", "end"} => got \o reorder = promised

\* The loop of receives ends after every packet (audio_convert.cc:161).
LoopEnds == at \in {"decode", "receive"} ~> at = "read"

\* The send has yet to see whether the packet begins with a frame.
Sending == at = "decode" /\ call = "send" /\ Data # << >>

Source ==
  INSTANCE FrameSource WITH
    phase <- IF at \in {"read", "end"} \/ Sending THEN "packets" ELSE "frames",
    queue <- buffer_frame \o reorder
               \o (IF Sending THEN << >> ELSE FramesOf(Data)),
    delivered <- got

\* The decoder is the queue of frames that AudioConvert takes it for: a packet
\* adds its frames as a whole or none, and the loop empties the queue down to
\* the frames held back, although a send decodes the first frame and the
\* receives the others, and an error may come from either.
IsFrameSource == Source!FSpec
=============================================================================
