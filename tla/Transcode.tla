------------------------------ MODULE Transcode ------------------------------
(***************************************************************************)
(* What a transcoding tool promises.  Samples 1, 2, 3, ... are accepted    *)
(* from the input; the output is a list of blocks, block k holding the     *)
(* samples that follow block k - 1, each block full except perhaps the     *)
(* last one.  It may be given up ("failed") at any time, and it is         *)
(* returned as complete ("done") in two cases: it holds every accepted     *)
(* sample, or the encoder broke down once the input had ended, and then it *)
(* holds a beginning of them.                                              *)
(***************************************************************************)
EXTENDS Naturals, Sequences

CONSTANT FrameSize

VARIABLES accepted,     \* samples accepted so far
          sealed,       \* no more samples will be accepted
          output,       \* the blocks written
          status        \* "open", "broken", "done" or "failed"

tvars == << accepted, sealed, output, status >>

TInit ==
  /\ accepted = 0
  /\ sealed = FALSE
  /\ output = << >>
  /\ status = "open"

BlockLen(k) ==
  LET left == accepted - (k - 1) * FrameSize
  IN  IF left < FrameSize THEN left ELSE FrameSize

Block(k) == [i \in 1 .. BlockLen(k) |-> (k - 1) * FrameSize + i]

Accept ==
  /\ status = "open" /\ ~sealed
  /\ accepted' \in Nat /\ accepted' > accepted
  /\ UNCHANGED << sealed, output, status >>

Seal ==
  /\ status = "open" /\ ~sealed
  /\ sealed' = TRUE
  /\ UNCHANGED << accepted, output, status >>

\* A short block is the tail of the stream, so it is written once sealed.
Emit ==
  /\ status = "open"
  /\ LET k == Len(output) + 1
     IN  /\ IF sealed THEN (k - 1) * FrameSize < accepted
                      ELSE k * FrameSize <= accepted
         /\ output' = Append(output, Block(k))
  /\ UNCHANGED << accepted, sealed, status >>

Finish ==
  /\ status = "open" /\ sealed
  /\ Len(output) * FrameSize >= accepted
  /\ status' = "done"
  /\ UNCHANGED << accepted, sealed, output >>

\* The encoder gives no more packets.
Break ==
  /\ status = "open" /\ sealed
  /\ status' = "broken"
  /\ UNCHANGED << accepted, sealed, output >>

\* What was written until then is closed, and may be taken for the whole.
FinishBroken ==
  /\ status = "broken"
  /\ status' \in {"done", "failed"}
  /\ UNCHANGED << accepted, sealed, output >>

\* Whatever was being accepted is given up with the rest.
GiveUp ==
  /\ status = "open"
  /\ status' = "failed"
  /\ accepted' \in Nat /\ accepted' >= accepted
  /\ sealed' \in BOOLEAN
  /\ output' = output

TNext == Accept \/ Seal \/ Emit \/ Finish \/ Break \/ FinishBroken \/ GiveUp

TSpec == TInit /\ [][TNext]_tvars
=============================================================================
