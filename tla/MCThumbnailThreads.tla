-------------------------- MODULE MCThumbnailThreads --------------------------
(* ThumbnailThreads for two and three requests in and out of order, some of   *)
(* them between milliseconds, on a file in order and on one whose frames are  *)
(* reordered and whose third packet yields none, each with two keyframes; the *)
(* jpeg of a picture is larger than its packet or fills it.                   *)
EXTENDS ThumbnailThreads

K(d, t) == [key |-> TRUE, yields |-> TRUE, dts |-> d, pts |-> t]
F(d, t) == [key |-> FALSE, yields |-> TRUE, dts |-> d, pts |-> t]
X(d, t) == [key |-> FALSE, yields |-> FALSE, dts |-> d, pts |-> t]

MCStreams ==
  { << K(0, 0), F(1, 1), K(3, 3), F(4, 4), F(5, 5) >>,
    << K(0, 1), F(1, 3), X(2, 2), K(3, 5), F(4, 4) >> }

MCRequests == { << 5, 1 >>, << -1, 9 >>, << 0, 4, 1 >> }

MCPictures == { [pixels |-> 1, jpeg |-> 5], [pixels |-> 2, jpeg |-> 6] }
=============================================================================
