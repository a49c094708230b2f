----------------------------- MODULE MCDecoderSwr -----------------------------
(* The two parts of FFmpeg the tools buffer samples in, one at a time.        *)
(*   decoder: packets of every kind and of at most three calls, for a codec   *)
(*     that gives frames at once; and of one call for codecs that reorder.    *)
(*   swr: the loop of audio_convert on packets of up to two samples and an    *)
(*     encoder frame of one, with the smallest limit that is enough for it;   *)
(*     and any calls with up to three samples in and room for three out,      *)
(*     which meet the limit.                                                  *)
EXTENDS Decoder, SwrUse

VARIABLE part

MCPackets == UNION {[1 .. n -> Outcome] : n \in 1 .. 3}

MCCounts == 0 .. 3

MCInit ==
  /\ part \in {"decoder", "swr"}
  /\ DecoderInit /\ (part = "swr" => delay = 0)
  /\ UseInit /\ (part = "decoder" => use = "loop")

DecoderStep == part = "decoder" /\ DecoderNext /\ UNCHANGED << uvars, part >>
SwrStep == part = "swr" /\ UseNext /\ UNCHANGED << dvars, part >>

\* The fairness is that of DecoderFairSpec.
MCSpec ==
  /\ MCInit /\ [][DecoderStep \/ SwrStep]_<< part, dvars, uvars >>
  /\ WF_dvars(DecoderStep)
=============================================================================
