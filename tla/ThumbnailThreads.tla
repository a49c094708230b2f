--------------------------- MODULE ThumbnailThreads ---------------------------
(***************************************************************************)
(* to_thumbnail in a build with WITH_OMP: one object and one thread per    *)
(* request, each running VideoThubmnail::run for its own time; the caller  *)
(* joins every thread, deletes the objects and returns 0.                  *)
(*                                                                         *)
(* The file is a sequence of video packets with an index of its keyframes, *)
(* as in VideoThumbnail.  A run opens the file and seeks, decodes to the   *)
(* frame it shows, and writes it (ThumbnailWriter).  A frame is named by   *)
(* the packet it is decoded from, 0 is none; a packet that yields none     *)
(* does so in every run.                                                   *)
(***************************************************************************)
EXTENDS ThumbnailWriter, FiniteSetsExt

CONSTANTS
  Streams,        \* the files: sequences of packets
  Requests,       \* what the caller may ask for: sequences of times
  Ms,             \* units of time in a millisecond
  DecoderDelay    \* frames the decoder holds back

\* yields: sending the packet gives the decoder a frame.
Packet == [key : BOOLEAN, yields : BOOLEAN, dts : Int, pts : Int]

ASSUME StreamsAssumption == Streams \subseteq Seq(Packet)
ASSUME RequestsAssumption == Requests \subseteq (Seq(Int) \ {<< >>})
ASSUME MsAssumption == Ms \in Nat \ {0}
ASSUME DelayAssumption == DecoderDelay \in Nat

VARIABLES
  stream, tms,    \* the file, and the times asked for
  at, idx,        \* the caller's statement, and its loop variable
  object,         \* for each request, its VideoThubmnail
  thread,         \* and where its thread is
  from, picture,  \* the packet its run started at, and what its file shows
  cut_short       \* runs whose reading failed before the end of the file

args == << stream, tms >>
vars == << args, at, idx, object, thread, from, picture, cut_short, wvars >>

Indices == 1 .. Len(tms)
Nothing == 0
Failed == -1

Init ==
  /\ stream \in Streams /\ tms \in Requests
  /\ at = "create" /\ idx = 1
  /\ object = [r \in Indices |-> "none"]
  /\ thread = [r \in Indices |-> "none"]
  /\ from = [r \in Indices |-> Nothing]
  /\ picture = [r \in Indices |-> Nothing]
  /\ cut_short = {}
  /\ WInit(Indices)

-------------------------------------------------------------------------------
(* The caller.                                                               *)

Create ==
  /\ at = "create" /\ idx <= Len(tms)
  /\ object' = [object EXCEPT ![idx] = "live"]
  /\ thread' = [thread EXCEPT ![idx] = "open"]
  /\ idx' = idx + 1
  /\ UNCHANGED << args, at, from, picture, cut_short, wvars >>

\* The constructor of std::thread throws, through a function that catches
\* nothing: the threads already started go on without the caller.
CreateThrows ==
  /\ at = "create" /\ idx <= Len(tms)
  /\ object' = [object EXCEPT ![idx] = "live"]
  /\ at' = "thrown"
  /\ UNCHANGED << args, idx, thread, from, picture, cut_short, wvars >>

AllCreated ==
  /\ at = "create" /\ idx > Len(tms)
  /\ at' = "join" /\ idx' = 1
  /\ UNCHANGED << args, object, thread, from, picture, cut_short, wvars >>

\* Slip: the threads are detached.
JoinNoWait ==
  /\ at = "join" /\ idx <= Len(tms)
  /\ thread' = thread
  /\ idx' = idx + 1
  /\ UNCHANGED << args, at, object, from, picture, cut_short, wvars >>

\* Slip: a thread is joined while the next one has not ended.
JoinAwaitsNext ==
  /\ at = "join" /\ idx <= Len(tms)
  /\ thread[idx] = "ended" /\ idx < Len(tms) => thread[idx + 1] = "joined"
  /\ thread' = [thread EXCEPT ![idx] = "joined"]
  /\ idx' = idx + 1
  /\ UNCHANGED << args, at, object, from, picture, cut_short, wvars >>

Join ==
  /\ at = "join" /\ idx <= Len(tms)
  /\ thread[idx] = "ended"
  /\ thread' = [thread EXCEPT ![idx] = "joined"]
  /\ idx' = idx + 1
  /\ UNCHANGED << args, at, object, from, picture, cut_short, wvars >>

AllJoined ==
  /\ at = "join" /\ idx > Len(tms)
  /\ at' = "delete" /\ idx' = 1
  /\ UNCHANGED << args, object, thread, from, picture, cut_short, wvars >>

Delete ==
  /\ at = "delete" /\ idx <= Len(tms)
  /\ object' = [object EXCEPT ![idx] = "deleted"]
  /\ idx' = idx + 1
  /\ UNCHANGED << args, at, thread, from, picture, cut_short, wvars >>

\* The results of the runs are lost.
CallerReturns ==
  /\ at = "delete" /\ idx > Len(tms)
  /\ at' = "returned"
  /\ UNCHANGED << args, idx, object, thread, from, picture, cut_short, wvars >>

-------------------------------------------------------------------------------
(* The threads.                                                              *)

\* The index is searched by the times of decoding, the requests are times shown.
KeysUntil(t) == { k \in DOMAIN stream : stream[k].key /\ stream[k].dts <= t }

\* AVSEEK_FLAG_BACKWARD: the last keyframe before the time, or the first packet.
SeekTo(t) == IF KeysUntil(t) = {} THEN 1 ELSE Max(KeysUntil(t))

\* minof of the one time of a run: an int, so cut to milliseconds.
minof(t) == IF t >= 0 THEN t - (t % Ms) ELSE -(-t - ((-t) % Ms))

\* Slip: the thread takes the time at the caller's loop variable when it starts.
OpenShared(r) ==
  /\ thread[r] = "open"
  /\ from' = [from EXCEPT ![r] = SeekTo(minof(tms[Min({idx, Len(tms)})]))]
  /\ thread' = [thread EXCEPT ![r] = "decode"]
  /\ UNCHANGED << args, at, idx, object, picture, cut_short, wvars >>

Open(r) ==
  /\ thread[r] = "open"
  /\ from' = [from EXCEPT ![r] = SeekTo(minof(tms[r]))]
  /\ thread' = [thread EXCEPT ![r] = "decode"]
  /\ UNCHANGED << args, at, idx, object, picture, cut_short, wvars >>

\* A return before the picture is written, the filter's among them: it refuses
\* the empty frame of a run that was given none.
RunFails(r) ==
  /\ thread[r] \in {"open", "decode"}
  /\ thread' = [thread EXCEPT ![r] = "ended"]
  /\ picture' = [picture EXCEPT ![r] = Failed]
  /\ UNCHANGED << args, at, idx, object, from, cut_short, wvars >>

Yielding(m, n) == { p \in m .. n : stream[p].yields }

\* The frame a run from packet start is given when it has sent packet p: the one
\* with DecoderDelay frames behind it in the decoder.
Delivers(start, p) ==
  { f \in Yielding(start, p) :
      stream[p].yields /\ Cardinality(Yielding(f + 1, p)) = DecoderDelay }

Delivering(start, last) == { p \in start .. last : Delivers(start, p) # {} }

Due(start, last, t) == { p \in Delivering(start, last) : stream[p].pts >= t }

\* The frame shown for time t by a run that reads from start to last: the first
\* one given once a packet has reached t, or else the last one given.
Shown(start, last, t) ==
  IF Due(start, last, t) # {} THEN Delivers(start, Min(Due(start, last, t)))
  ELSE IF Delivering(start, last) # {} THEN Delivers(start, Max(Delivering(start, last)))
  ELSE {}

\* Reading ends at the end of the file, or before it with an error.  A run that
\* was given no frame writes an empty one.
Decode(r) ==
  /\ thread[r] = "decode"
  /\ \E last \in from[r] - 1 .. Len(stream) :
       LET shown == Shown(from[r], last, tms[r])
       IN  /\ \/ /\ shown = {} /\ Called(r, NoPicture)
                 /\ picture' = [picture EXCEPT ![r] = Nothing]
              \/ \E p \in shown, f \in Pictures :
                   /\ Called(r, f)
                   /\ picture' = [picture EXCEPT ![r] = p]
           /\ cut_short' = IF last < Len(stream) /\ Due(from[r], last, tms[r]) = {}
                           THEN cut_short \cup {r} ELSE cut_short
  /\ thread' = [thread EXCEPT ![r] = "write"]
  /\ UNCHANGED << args, at, idx, object, from >>

\* When write has returned, whatever it returned, no request is left and run
\* ends.
WritePicture(r) ==
  /\ thread[r] = "write"
  /\ Write(r)
  /\ thread' = [thread EXCEPT ![r] = IF stmt'[r] = "end" THEN "ended" ELSE @]
  /\ picture' = [picture EXCEPT ![r] =
                   IF result'[r] \in {0, NotReturned} THEN @ ELSE Failed]
  /\ UNCHANGED << args, at, idx, object, from, cut_short >>

Run(r) == Open(r) \/ Decode(r) \/ WritePicture(r) \/ RunFails(r)

Caller ==
  \/ Create \/ CreateThrows \/ AllCreated
  \/ Join \/ AllJoined \/ Delete \/ CallerReturns

Next == Caller \/ \E r \in Indices : Run(r)

Spec == Init /\ [][Next]_vars

Threads == UNION { DOMAIN t : t \in Requests }

\* The caller and every thread are scheduled.
FairSpec ==
  /\ Spec
  /\ WF_vars(Caller)
  /\ \A r \in Threads : WF_vars(r \in Indices /\ Run(r))

-------------------------------------------------------------------------------
(* Properties.                                                               *)

\* Every variable has its type.
TypeOK ==
  /\ stream \in Streams /\ tms \in Requests
  /\ at \in {"create", "join", "delete", "returned", "thrown"}
  /\ idx \in 1 .. Len(tms) + 1
  /\ object \in [Indices -> {"none", "live", "deleted"}]
  /\ thread \in [Indices -> {"none", "open", "decode", "write", "ended", "joined"}]
  /\ from \in [Indices -> 0 .. Len(stream) + 1]
  /\ picture \in [Indices -> {Nothing, Failed} \cup DOMAIN stream]
  /\ cut_short \subseteq Indices
  /\ WTypeOK

\* No run is in an object that was deleted, whichever thread ends first, also
\* when creating a thread failed (lines 670-684).
RunsInLiveObject ==
  \A r \in Indices : thread[r] \in {"open", "decode", "write"} => object[r] = "live"

\* The pictures are in the order of the times asked for, although each thread
\* seeks to a keyframe of its own and starts there with an empty decoder (lines
\* 507-530 and 675), as long as reading for the later time did not fail early: a
\* later time never shows an earlier frame, and equal times show the same.
PicturesInOrder ==
  \A q, r \in Indices :
    /\ tms[q] <= tms[r] /\ r \notin cut_short
    /\ {picture[q], picture[r]} \subseteq DOMAIN stream
    => picture[q] <= picture[r]

\* The function returns, or throws, in whatever order the threads end, also when
\* their runs or writes fail (lines 673-685).
Returns == <>(at \in {"returned", "thrown"})
=============================================================================
