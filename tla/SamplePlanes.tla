----------------------------- MODULE SamplePlanes -----------------------------
(***************************************************************************)
(* Where the channels of a frame lie in the buffer the audio tools convert *)
(* into.  av_samples_alloc lays the planes out for frames of frame_size    *)
(* samples; swr_convert writes there; avcodec_fill_audio_frame then points *)
(* encode_frame at planes laid out for the samples it has; and the encoder *)
(* copies the frame when it is sent.  A sample is its channel and number.  *)
(***************************************************************************)
EXTENDS Naturals, Sequences

CONSTANTS
  Channels,       \* numbers of channels
  FrameSizes,     \* frame sizes of the encoder
  Unit,           \* planes are multiples of this many samples (32)
  MaxBlocks       \* bound: frames converted

VARIABLES
  at,                         \* the next statement, or "end"
  nb_channels, frame_size,    \* of the encoder
  buffer,                     \* the planes, one after the other
  blocks, taken,              \* frames and samples converted so far
  nb_samples,                 \* in the last of them
  data,                       \* encode_frame: the start of each channel
  sent                        \* the frame the encoder has, by channel

config == << nb_channels, frame_size >>
vars == << at, config, buffer, blocks, taken, nb_samples, data, sent >>

Silence == << 0, 0 >>

FFALIGN(n) == ((n + Unit - 1) \div Unit) * Unit

\* av_samples_get_buffer_size and av_samples_fill_arrays, in samples.
Plane(ch, n) == (ch - 1) * FFALIGN(n)

Init ==
  /\ nb_channels \in Channels /\ frame_size \in FrameSizes
  /\ buffer = [i \in 1 .. nb_channels * FFALIGN(frame_size) |-> Silence]
  /\ at = "swr_convert" /\ blocks = 0 /\ taken = 0 /\ nb_samples = 0
  /\ data = [ch \in 1 .. nb_channels |-> Plane(ch, frame_size)]
  /\ sent = [ch \in 1 .. nb_channels |-> << >>]

\* Writes n samples of each channel into the planes of the allocation.
Write(n) ==
  buffer' =
    [i \in DOMAIN buffer |->
       LET ch == (i - 1) \div FFALIGN(frame_size) + 1
           k == i - Plane(ch, frame_size)
       IN  IF k <= n THEN << ch, taken + k >> ELSE buffer[i]]

\* Whole frames in the loop, and a last one of what is left after it.
swr_convert ==
  /\ at = "swr_convert" /\ blocks < MaxBlocks
  /\ nb_samples' \in 1 .. frame_size
  /\ Write(nb_samples')
  /\ blocks' = blocks + 1
  /\ taken' = taken + nb_samples'
  /\ at' = "avcodec_fill_audio_frame"
  /\ UNCHANGED << config, data, sent >>

avcodec_fill_audio_frame ==
  /\ at = "avcodec_fill_audio_frame"
  /\ data' = [ch \in 1 .. nb_channels |-> Plane(ch, nb_samples)]
  /\ at' = "avcodec_send_frame"
  /\ UNCHANGED << config, buffer, blocks, taken, nb_samples, sent >>

\* The frame owns no buffer, so it is copied (av_frame_ref).
avcodec_send_frame ==
  /\ at = "avcodec_send_frame"
  /\ sent' = [ch \in 1 .. nb_channels |->
                [i \in 1 .. nb_samples |-> buffer[data[ch] + i]]]
  /\ at' = IF nb_samples < frame_size THEN "end" ELSE "swr_convert"
  /\ UNCHANGED << config, buffer, blocks, taken, nb_samples, data >>

Next == swr_convert \/ avcodec_fill_audio_frame \/ avcodec_send_frame

Spec == Init /\ [][Next]_vars

-------------------------------------------------------------------------------
(* Properties.                                                               *)

\* Each channel of the frame sent has its own samples, those converted last.
IsWhole ==
  \A ch \in 1 .. nb_channels : \A i \in DOMAIN sent[ch] :
    sent[ch][i] = << ch, taken - Len(sent[ch]) + i >>

\* samplefmt.h:176-177: the pointers are set to the start point of each
\* channel's data within the buffer, also in the last frame, which is short
\* (audio_convert.cc:207-217).
ChannelsInPlace == at = "end" => IsWhole
=============================================================================
