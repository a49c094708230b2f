------------------------------- MODULE SwrUse -------------------------------
(***************************************************************************)
(* swr in the packet loop of audio_convert and audio_cut: the frames of a  *)
(* packet are put in, then whole frames of the encoder are taken out while *)
(* more than one is there.  Beside the loop, any caller: calls in any      *)
(* order and of any sizes.                                                 *)
(***************************************************************************)
EXTENDS Swresample

CONSTANTS
  FrameSize,      \* samples in a frame of the encoder
  PacketSize      \* the most samples a packet decodes to

ASSUME FrameSizeAssumption == FrameSize \in Nat \ {0}
ASSUME PacketSizeAssumption == PacketSize \in Nat

VARIABLES
  use,        \* who calls swr: the "loop" or "any" caller
  packet      \* the loop: samples of the current packet put in so far

uvars == << vars, use, packet >>

UseInit == Init /\ use \in {"loop", "any"} /\ packet = 0

PutFrame ==
  /\ \E n \in Counts : /\ packet + n <= PacketSize
                       /\ packet' = packet + n
                       /\ swr_convert(0, n)

\* Slip: one frame is taken out for each packet.
TakeFrameOnce ==
  /\ count > FrameSize
  /\ swr_convert(FrameSize, 0)
  /\ packet' = 0

\* The loop of receives has ended.
TakeFrame ==
  /\ count > FrameSize
  /\ swr_convert(FrameSize, 0)
  /\ packet' = PacketSize

NextPacket ==
  /\ count <= FrameSize
  /\ packet' = 0
  /\ UNCHANGED vars

Loop == use = "loop" /\ ~failed /\ (PutFrame \/ TakeFrame \/ NextPacket)

AnyCall == use = "any" /\ Next /\ UNCHANGED packet

UseNext == (Loop \/ AnyCall) /\ UNCHANGED use

UseSpec == UseInit /\ [][UseNext]_uvars

-------------------------------------------------------------------------------
(* Properties.                                                               *)

\* The buffer of swr does not grow with the length of the input although it is
\* never empty between packets, so that its index is never reset there
\* (audio_convert.cc:163-169, swresample.c:796-805).
BufferBounded == use = "loop" => Len(buffer) <= 4 * (FrameSize + PacketSize)

\* swr refuses the loop no frame of an input of any length if its limit leaves
\* room for four frames and packets: the limit is checked before the room there
\* is, so twice that, which is all the buffer ever has to hold, is not enough.
NeverRefused ==
  use = "loop" /\ Limit >= 4 * (FrameSize + PacketSize) => ~failed
=============================================================================
