------------------------------- MODULE MCTwoPass -------------------------------
(* A call of audio_gradient or of audio_volume on the packets of              *)
(* MCAudioConvert, with a buffer that the longest inputs overrun.             *)
EXTENDS AudioGradient, AudioVolume

MCPackets == { << >>, << 1 >>, << 2 >>, << 5 >>, << 1, 2 >> }

MCInit ==
  \/ GInit /\ histogram = << >> /\ to_d = << >>
  \/ WInit /\ pos = 0

MCNext ==
  \/ tool = "gradient" /\ GNext /\ UNCHANGED << histogram, to_d >>
  \/ tool = "volume" /\ WNext /\ UNCHANGED pos

MCSpec == MCInit /\ [][MCNext]_<< gvars, wvars >>
=============================================================================
