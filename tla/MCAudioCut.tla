------------------------------ MODULE MCAudioCut ------------------------------
(* AudioCut with windows that begin and end inside a frame, before the input, *)
(* after it, and in the wrong order, at a rate of 1.7 samples to the          *)
(* millisecond, which rounds up, down and, at five milliseconds, a half.      *)
EXTENDS AudioCut

MCPackets == { << 1 >>, << 4 >>, << 2, 3 >> }

MCWindows ==
  { << 0, 5 >>, << 1, 2 >>, << 2, 5 >>, << 1, 7 >>, << -1, 2 >>, << 12, 18 >>, << 3, 1 >> }
=============================================================================
