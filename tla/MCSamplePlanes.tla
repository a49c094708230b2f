---------------------------- MODULE MCSamplePlanes ----------------------------
(* SamplePlanes for one to three channels and frames of one to three planes'  *)
(* worth of units.                                                             *)
EXTENDS SamplePlanes

MCChannels == 1 .. 3
MCFrameSizes == {2, 3, 4, 6}
=============================================================================
