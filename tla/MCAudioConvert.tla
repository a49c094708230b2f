---------------------------- MODULE MCAudioConvert ----------------------------
(* AudioConvert on small inputs: packets of nothing, of one frame shorter than, *)
(* equal to and much longer than the encoder's frames, and of several frames. *)
EXTENDS AudioConvert

MCPackets == { << >>, << 1 >>, << 2 >>, << 5 >>, << 1, 2 >> }
=============================================================================
