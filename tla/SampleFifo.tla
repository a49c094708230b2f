------------------------------ MODULE SampleFifo ------------------------------
(***************************************************************************)
(* swr as the tools see it: a first-in first-out queue of samples.  A call *)
(* of swr_convert puts samples in at the end and takes at most as many out *)
(* at the front as the caller has room for.  A call that fails ends the    *)
(* use of the queue.                                                       *)
(***************************************************************************)
EXTENDS Naturals, Sequences

CONSTANT Counts       \* sample counts a caller passes

VARIABLES given,      \* samples put in so far: 1, 2, 3, ...
          queue,      \* the samples inside
          output,     \* the samples the last call took out
          broken      \* a call failed

qvars == << given, queue, output, broken >>

QInit == given = 0 /\ queue = << >> /\ output = << >> /\ broken = FALSE

Lesser(m, n) == IF m < n THEN m ELSE n

\* swr_convert(s, out, out_count, in, in_count)
Exchange(out_count, in_count) ==
  LET all == queue \o [i \in 1 .. in_count |-> given + i]
      ret == Lesser(out_count, Len(all))
  IN  /\ output' = SubSeq(all, 1, ret)
      /\ queue' = SubSeq(all, ret + 1, Len(all))
      /\ given' = given + in_count
      /\ UNCHANGED broken

Break == broken' = TRUE

QNext ==
  /\ ~broken
  /\ \/ \E out_count, in_count \in Counts : Exchange(out_count, in_count)
     \/ Break

QSpec == QInit /\ [][QNext]_qvars
=============================================================================
