------------------------------- MODULE TwoPass -------------------------------
(***************************************************************************)
(* What AudioVolume::run and AudioGradient::run have in common: the whole  *)
(* input is decoded into swr before the first frame is taken out, tuned    *)
(* and encoded.  The statements of both are those of AudioConvert::run in  *)
(* another order; an AAC input is not turned down.                         *)
(***************************************************************************)
EXTENDS AudioConvert

CONSTANT SwrCapacity    \* samples the buffer of swr can grow to

ASSUME SwrCapacityAssumption == SwrCapacity \in Nat

VARIABLES
  tool,           \* "gradient" or "volume"
  tuned           \* the arguments of tune, for each frame it was given

pvars == << vars, tool, tuned >>

\* swri_realloc_audio refuses a buffer beyond its limit.
BufferFrame ==
  /\ at = "receive_frame" /\ Len(dec) > DecoderDelay
  /\ dec' = Tail(dec)
  /\ nframes' = nframes + Head(dec)
  /\ \/ /\ Len(fifo) + Head(dec) <= SwrCapacity
        /\ fifo' = fifo \o NextSamples
        /\ Goto("receive_frame")
     \/ /\ fifo' = fifo
        /\ Return(-18000)
  /\ UNCHANGED << own, reads, frame, out >>

PacketBuffered ==
  /\ at = "receive_frame" /\ Len(dec) <= DecoderDelay
  /\ Drop("input_packet")
  /\ Goto("read")
  /\ UNCHANGED << reads, conv, out >>

InputBuffered ==
  /\ at = "read"
  /\ Goto("drain")
  /\ UNCHANGED << own, reads, conv, out >>

\* Slip: one frame is taken out, "if" instead of "while".
DrainedEarly ==
  /\ at = "drain"
  /\ Goto("final")
  /\ UNCHANGED << own, reads, conv, out >>

Drained ==
  /\ at = "drain" /\ Len(fifo) <= FrameSize
  /\ Goto("final")
  /\ UNCHANGED << own, reads, conv, out >>

\* The steps that take a frame out of swr, and those that do not.
Takes == DrainFrame \/ (FinalConvert /\ fifo # << >>)

Others ==
  \/ SetupOk \/ SetupFails \/ Reading \/ PacketBuffered \/ Drained
  \/ SendEncodeFrame \/ ReceivePacket \/ PacketsWritten
  \/ (FinalConvert /\ fifo = << >>) \/ FinalSend
  \/ Flush \/ FlushReceive \/ FlushDone \/ FlushReceiveFails
  \/ WriteTrailer \/ Release

InputEnded ==
  at \notin {"setup", "read", "send_packet", "receive_frame"}

TwoPassPromise ==
  INSTANCE Transcode WITH
    accepted <- nframes, sealed <- InputEnded, output <- file.packets,
    status <- Status

\* The file is a transcoding of the decoded samples although none is encoded
\* before the last is decoded: the buffered samples leave swr in the frames of
\* the encoder, in their order and none left over (audio_volume.cc:235-326,
\* audio_gradient.cc:212-300), except that run also returns 0 for a beginning of
\* them when the encoder reported an error in the flush.
TwoPassKeepsPromise == TwoPassPromise!TSpec
=============================================================================
