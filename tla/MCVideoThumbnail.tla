--------------------------- MODULE MCVideoThumbnail ---------------------------
(* VideoThumbnail on three files: frames in order with two keyframes and a    *)
(* packet of another stream; frames decoded in another order than they are    *)
(* shown, where the seek for 5 passes over the frame shown at 6; and a packet *)
(* without a pts.  A millisecond is two units, so that times fall between     *)
(* milliseconds.                                                              *)
EXTENDS VideoThumbnail

Video(isKey, decoding, time) ==
  [video |-> TRUE, key |-> isKey, dts |-> decoding, pts |-> time]

Audio == [video |-> FALSE, key |-> TRUE, dts |-> 3, pts |-> 3]

NoPts == -99

MCStreams ==
  { << Video(TRUE, 0, 0), Audio, Video(FALSE, 2, 2), Video(TRUE, 4, 4),
       Video(FALSE, 6, 6) >>,
    << Video(TRUE, -2, 0), Video(FALSE, 0, 6), Video(FALSE, 2, 2),
       Video(TRUE, 4, 8) >>,
    << Video(TRUE, 1, 1), Video(FALSE, 3, NoPts), Video(FALSE, 5, 5) >> }

Asked == {-1, 1, 5, 9}

MCRequests == UNION { [1 .. n -> Asked] : n \in 1 .. 2 } \cup {<< 5, 1, 5 >>}
=============================================================================
