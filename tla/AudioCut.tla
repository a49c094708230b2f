------------------------------- MODULE AudioCut -------------------------------
(***************************************************************************)
(* One call of audio_cut: AudioCut::run is AudioConvert::run, except that  *)
(* an AAC input is not turned down and that each decoded frame is cut to   *)
(* the part of it inside the window asked for before it is given to swr.   *)
(***************************************************************************)
EXTENDS AudioConvert, Functions

CONSTANTS
  Windows,      \* << start_ms, end_ms >> the caller may ask for
  SampleRate,   \* of the input, in samples per second
  Planar,       \* the decoder's sample format keeps its channels apart
  Channels

ASSUME WindowsAssumption == Windows \subseteq Int \X Int
ASSUME SampleRateAssumption == SampleRate \in Nat \ {0}
ASSUME PlanarAssumption == Planar \in BOOLEAN
ASSUME ChannelsAssumption == Channels \in Nat \ {0}

VARIABLES
  window,                       \* the window asked for, in milliseconds
  start_nframes, end_nframes,   \* and in samples
  handle                        \* the array of plane pointers is allocated

cvars == << vars, window, start_nframes, end_nframes, handle >>

Largest(a, b) == IF a < b THEN b ELSE a
Smallest(a, b) == IF a < b THEN a ELSE b

\* Slip: the conversion to an int cuts instead of rounding.
RoundDown(ms) ==
  LET scaled == SampleRate * ms
  IN  IF scaled >= 0 THEN scaled \div 1000 ELSE -((-scaled) \div 1000)

\* round(sample_rate * ms / 1000), halves away from zero; the result is within
\* an int.
Round(ms) ==
  LET scaled == SampleRate * ms
  IN  IF scaled >= 0 THEN (scaled + 500) \div 1000
      ELSE -((500 - scaled) \div 1000)

CutInit ==
  /\ Init
  /\ window \in Windows
  /\ start_nframes = Round(window[1]) /\ end_nframes = Round(window[2])
  /\ handle = FALSE

\* What is in memory after the last sample of a frame.
Junk == 0

\* Slip: the window is compared with the start of the frame at both ends.
CutAtStart(src_start, src_end) ==
  LET nb_samples == Smallest(end_nframes, src_end) - Largest(start_nframes, src_start)
      nb_offset  == Largest(start_nframes - src_end, 0)
      read       == IF Planar THEN nb_samples ELSE nb_samples * Channels
  IN  IF nb_samples <= 0 THEN << >>
      ELSE [i \in 1 .. read |->
              LET s == src_start + nb_offset + i
              IN  IF s <= src_end THEN s ELSE Junk]

\* cut, and what swr_convert reads through handle: nb_samples of each channel.
\* The samples of the frame are those after src_start up to src_end.
Cut(src_start, src_end) ==
  LET nb_samples == Smallest(end_nframes, src_end) - Largest(start_nframes, src_start)
      nb_offset  == Largest(start_nframes - src_start, 0)
      read       == IF Planar THEN nb_samples ELSE nb_samples * Channels
  IN  IF nb_samples <= 0 THEN << >>
      ELSE [i \in 1 .. read |->
              LET s == src_start + nb_offset + i
              IN  IF s <= src_end THEN s ELSE Junk]

\* last_nframes is nframes before the samples of the frame are added.
CutReceiveFrame ==
  /\ at = "receive_frame" /\ Len(dec) > DecoderDelay
  /\ dec' = Tail(dec)
  /\ nframes' = nframes + Head(dec)
  /\ \/ /\ fifo' = fifo \o Cut(nframes, nframes')
        /\ Goto("receive_frame")
     \/ /\ fifo' = fifo
        /\ Return(-18000)
  /\ UNCHANGED << own, reads, frame, out >>

\* The array is allocated with the frames, and freed last.
CutSetupOk == SetupOk /\ handle' = (stage = Len(Setup))

CutExit == Exit /\ handle' = FALSE

CutShared ==
  \/ SetupFails \/ Reading \/ EndOfInput \/ NoMoreFrames \/ PacketDone
  \/ Encoding \/ Release

CutNext ==
  /\ UNCHANGED << window, start_nframes, end_nframes >>
  /\ \/ CutSetupOk
     \/ CutReceiveFrame /\ UNCHANGED handle
     \/ CutShared /\ UNCHANGED handle
     \/ CutExit

CutSpec == CutInit /\ [][CutNext]_cvars /\ WF_cvars(CutNext)

-------------------------------------------------------------------------------
(* Properties.                                                               *)

\* Every variable has its type, and the array of the destructor is gone at the
\* end of every call (lines 169, 294).
CutTypeOK ==
  /\ TypeOK
  /\ window \in Windows /\ start_nframes \in Int /\ end_nframes \in Int
  /\ handle \in BOOLEAN
  /\ at = "end" => ~handle

\* Samples before the window, and samples of it decoded so far.
Before == Largest(start_nframes, 0)
Inside == Largest(Smallest(end_nframes, nframes) - Before, 0)

\* The packets, with the samples numbered from the start of the window.
FromWindow ==
  [k \in DOMAIN file.packets |->
     [i \in DOMAIN file.packets[k] |-> file.packets[k][i] - Before]]

CutPromise ==
  INSTANCE Transcode WITH
    accepted <- Inside, sealed <- LoopEnded, output <- FromWindow,
    status <- Status

\* For planar input the file is a transcoding of the samples of the window:
\* the pieces cut from consecutive frames (lines 20-38, 186-193) join without a
\* gap or an overlap, wherever the window falls in the frames, and run returns 0
\* only if all of the window that was decoded is in the file or the encoder
\* reported an error in the flush.
CutKeepsPromise == CutPromise!TSpec

Encoded == UNION { Range(file.packets[k]) : k \in DOMAIN file.packets }

\* The file holds no sample that lies more than half a sample's duration outside
\* the window in milliseconds, whatever run returns.  When it returns 0 and the
\* encoder reported no error in the flush, which run would not notice, the file
\* holds every decoded sample that lies half a duration inside: rounding both
\* ends alone (lines 70-71) and cutting frame by frame moves neither end further.
WindowInTime ==
  LET start == 2 * SampleRate * window[1]
      end   == 2 * SampleRate * window[2]
  IN  /\ \A s \in Encoded : 2000 * (s - 1) >= start - 1000 /\ 2000 * s <= end + 1000
      /\ Whole =>
           \A s \in 1 .. nframes :
             2000 * (s - 1) >= start + 1000 /\ 2000 * s <= end - 1000
               => s \in Encoded

\* swresample.h:302: in_count is the "number of input samples available in one
\* channel".  For planar input swr never reads past the samples of a frame,
\* wherever the window ends in it; for interleaved input (Planar = FALSE) the
\* count is over all channels and it does (lines 21-37, 190).
InputInFrame == \A i \in DOMAIN fifo : fifo[i] # Junk
=============================================================================
