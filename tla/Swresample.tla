------------------------------ MODULE Swresample ------------------------------
(***************************************************************************)
(* swr_convert of a context that changes the sample format only            *)
(* (swresample.c), as the audio tools set it up: samples the caller has no *)
(* room for wait in in_buffer, between in_buffer_index and in_buffer_index *)
(* + in_buffer_count.  The index moves forward as samples are taken out;   *)
(* when the end of the buffer is reached the samples are moved back to its *)
(* start if they and the new ones fit there, or the buffer is made twice   *)
(* as large as needed.                                                     *)
(***************************************************************************)
EXTENDS Naturals, Sequences

CONSTANTS
  Counts,         \* sample counts a caller passes
  Limit,          \* INT_MAX / 2 / bps / ch_count: the largest buffer asked for
  MaxSamples      \* bound: samples put in

ASSUME CountsAssumption == Counts \subseteq Nat
ASSUME LimitAssumption == Limit \in Nat
ASSUME MaxSamplesAssumption == MaxSamples \in Nat

VARIABLES
  buffer,     \* in_buffer; its length is in_buffer.count
  index,      \* in_buffer_index
  count,      \* in_buffer_count
  given,      \* samples put in so far, which are numbered 1, 2, 3, ...
  output,     \* what the last call wrote to the caller's buffer
  failed      \* a call returned an error

vars == << buffer, index, count, given, output, failed >>

Init ==
  /\ buffer = << >> /\ index = 0 /\ count = 0
  /\ given = 0 /\ output = << >> /\ failed = FALSE

FFMIN(m, n) == IF m < n THEN m ELSE n

-------------------------------------------------------------------------------
(* First the caller's room is filled with what is buffered.                  *)

Taken(out_count) == FFMIN(out_count, count)

Left(out_count) == count - Taken(out_count)

Start(out_count) ==
  IF Taken(out_count) > 0 /\ Left(out_count) = 0 THEN 0
  ELSE index + Taken(out_count)

\* Slip: the room is not reduced by what was buffered.
DirectOver(out_count, in_count) == FFMIN(in_count, out_count)

\* The new samples go to what room is left; the others are kept.
Direct(out_count, in_count) == FFMIN(in_count, out_count - Taken(out_count))

Kept(out_count, in_count) == in_count - Direct(out_count, in_count)

\* Slip: the samples are taken to be at the start of the buffer.
SizeFromStart(out_count, in_count) ==
  Left(out_count) + Kept(out_count, in_count)

Size(out_count, in_count) ==
  Start(out_count) + Left(out_count) + Kept(out_count, in_count)

Output(out_count, in_count) ==
  [i \in 1 .. Taken(out_count) + Direct(out_count, in_count) |->
     IF i <= Taken(out_count) THEN buffer[index + i]
     ELSE given + i - Taken(out_count)]

\* The samples kept are written to b after the first used ones; nothing is
\* stored past its end.
Store(b, used, out_count, in_count) ==
  [i \in DOMAIN b |->
     IF i \in used + 1 .. used + Kept(out_count, in_count)
     THEN given + Direct(out_count, in_count) + i - used
     ELSE b[i]]

\* The buffer is looked at only if there is something to keep in it.
Reaches(out_count, in_count) ==
  Kept(out_count, in_count) > 0 /\ Size(out_count, in_count) > Len(buffer)

\* Slip: only an empty buffer is started anew.
MovableEmpty(out_count, in_count) ==
  Left(out_count) = 0 /\ Kept(out_count, in_count) <= Start(out_count)

Movable(out_count, in_count) ==
  Left(out_count) + Kept(out_count, in_count) <= Start(out_count)

Done(out_count, in_count) ==
  /\ given + in_count <= MaxSamples
  /\ given' = given + in_count
  /\ count' = Left(out_count) + Kept(out_count, in_count)
  /\ output' = Output(out_count, in_count)
  /\ UNCHANGED failed

ConvertInPlace(out_count, in_count) ==
  /\ ~Reaches(out_count, in_count)
  /\ Kept(out_count, in_count) > 0 => Size(out_count, in_count) <= Limit
  /\ buffer' = Store(buffer, Start(out_count) + Left(out_count), out_count, in_count)
  /\ index' = Start(out_count)
  /\ Done(out_count, in_count)

ConvertMoving(out_count, in_count) ==
  LET moved == [i \in DOMAIN buffer |->
                  IF i <= Left(out_count) THEN buffer[Start(out_count) + i]
                  ELSE buffer[i]]
  IN  /\ Reaches(out_count, in_count) /\ Movable(out_count, in_count)
      /\ buffer' = Store(moved, Left(out_count), out_count, in_count)
      /\ index' = 0
      /\ Done(out_count, in_count)

\* Slip: as many samples are copied as wait, from the start of the buffer.
GrownCount(size) ==
  [i \in 1 .. 2 * size |-> IF i <= count THEN buffer[i] ELSE 0]

\* swri_realloc_audio asks for twice the size and copies the whole of the old
\* buffer; what is new is zero.
Grown(size) ==
  [i \in 1 .. 2 * size |-> IF i <= Len(buffer) THEN buffer[i] ELSE 0]

ConvertGrowing(out_count, in_count) ==
  LET grown == Grown(Size(out_count, in_count))
  IN  /\ Reaches(out_count, in_count) /\ ~Movable(out_count, in_count)
      /\ Size(out_count, in_count) <= Limit
      /\ buffer' = Store(grown, Start(out_count) + Left(out_count), out_count, in_count)
      /\ index' = Start(out_count)
      /\ Done(out_count, in_count)

\* swri_realloc_audio checks its limit before it looks at the buffer it has.
\* What was taken out by then is in the caller's buffer, uncounted.
ConvertRefused(out_count, in_count) ==
  /\ Kept(out_count, in_count) > 0 /\ Size(out_count, in_count) > Limit
  /\ ~(Reaches(out_count, in_count) /\ Movable(out_count, in_count))
  /\ failed' = TRUE
  /\ count' = Left(out_count)
  /\ index' = Start(out_count)
  /\ UNCHANGED << buffer, given, output >>

swr_convert(out_count, in_count) ==
  \/ ConvertInPlace(out_count, in_count)
  \/ ConvertMoving(out_count, in_count)
  \/ ConvertGrowing(out_count, in_count)
  \/ ConvertRefused(out_count, in_count)

Next ==
  /\ ~failed
  /\ \E out_count, in_count \in Counts : swr_convert(out_count, in_count)

Spec == Init /\ [][Next]_vars

-------------------------------------------------------------------------------
(* Properties.                                                               *)

\* Every variable has its type.
TypeOK ==
  /\ buffer \in Seq(Nat)
  /\ index \in Nat /\ count \in Nat
  /\ given \in 0 .. MaxSamples
  /\ output \in Seq(Nat)
  /\ failed \in BOOLEAN

\* The samples that wait lie within in_buffer, at whatever index the last call
\* left them (swresample.c:793-805): no sequence of calls copies past the end.
InBuffer == index + count <= Len(buffer)

\* The samples that wait are the last ones put in, in their order: neither the
\* move to the start of the buffer nor its growth disturbs them, and what a
\* call wrote out are the samples before those (swresample.c:785-817).
InOrder ==
  /\ \A i \in 1 .. count : buffer[index + i] = given - count + i
  /\ ~failed => \A i \in DOMAIN output :
                  output[i] = given - count - Len(output) + i

Fifo ==
  INSTANCE SampleFifo WITH
    queue <- [i \in 1 .. count |-> buffer[index + i]], broken <- failed

\* swr is the queue of samples the tools take it for, for any sizes passed in
\* any order, also when a call has both room and samples.
IsFifo == Fifo!QSpec
=============================================================================
