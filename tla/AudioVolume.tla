------------------------------ MODULE AudioVolume ------------------------------
(***************************************************************************)
(* One call of audio_volume: a histogram of all decoded samples gives      *)
(* their mean volume, and every frame is then raised or lowered by the     *)
(* difference to the volume asked for.  A mean is represented by the       *)
(* samples it was taken over; how it is computed is not modelled here.     *)
(***************************************************************************)
EXTENDS TwoPass

VARIABLES
  histogram,      \* the samples counted
  to_d            \* the samples whose mean gave to_d

wvars == << pvars, histogram, to_d >>

WInit ==
  /\ Init /\ tool = "volume"
  /\ tuned = << >> /\ histogram = << >> /\ to_d = << >>

\* filter_frame_f comes before the samples are given to swr.
CountFrame ==
  /\ BufferFrame
  /\ histogram' = histogram \o NextSamples
  /\ UNCHANGED << tuned, to_d >>

\* Slip: the volume is computed when the histogram is still empty.
PrintStatsFirst ==
  /\ InputBuffered
  /\ UNCHANGED << tuned, histogram, to_d >>

PrintStats ==
  /\ InputBuffered
  /\ to_d' = histogram
  /\ UNCHANGED << tuned, histogram >>

WTune ==
  /\ tuned' = Append(tuned, to_d)
  /\ UNCHANGED << histogram, to_d >>

\* The histogram is freed last.
WExit ==
  /\ Exit
  /\ histogram' = << >>
  /\ UNCHANGED << tuned, to_d >>

WNext ==
  /\ UNCHANGED tool
  /\ \/ Takes /\ WTune
     \/ CountFrame \/ PrintStats \/ WExit
     \/ Others /\ UNCHANGED << tuned, histogram, to_d >>

WSpec == WInit /\ [][WNext]_wvars

-------------------------------------------------------------------------------
(* Properties.                                                               *)

\* Every variable has its type, and each decoded sample was counted once.
WTypeOK ==
  tool = "volume" =>
    /\ TypeOK
    /\ histogram \in Samples /\ to_d \in Samples
    /\ at # "end" => Len(histogram) = nframes
    /\ tuned \in Seq(Samples)

\* Every sample of the file was tuned by a gain that took all the samples of
\* the file, and no others, into account (lines 236, 250-251, 258, 293).
GainOfWhole ==
  tool = "volume" /\ at \in {"destroy", "end"} /\ ret = 0 =>
    \A k \in DOMAIN tuned :
      /\ tuned[k] = [i \in 1 .. nframes |-> i]
      /\ \A p \in DOMAIN file.packets :
           \A i \in DOMAIN file.packets[p] :
             file.packets[p][i] \in 1 .. Len(tuned[k])
=============================================================================
