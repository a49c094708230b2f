---------------------------- MODULE VideoThumbnail ----------------------------
(***************************************************************************)
(* One call of to_thumbnail: VideoThubmnail::run seeks to the keyframe     *)
(* before the earliest requested time, decodes the video from there, and   *)
(* writes one picture for each requested time, from the first frame whose  *)
(* packet reaches it.  Requests no frame has reached get the last one.     *)
(*                                                                         *)
(* Times are counted in units of which a millisecond has Ms.  A frame is   *)
(* an index of decoded, the sequence of the frames delivered by the        *)
(* decoder; Nothing is the content of an AVFrame without a buffer.         *)
(*                                                                         *)
(* The file has an index of its keyframes (mp4, mov, mkv), in the order of *)
(* the times they are decoded at.  A search in the packets themselves, as  *)
(* in a transport stream, may end between keyframes and is left out.       *)
(***************************************************************************)
EXTENDS Integers, Sequences, FiniteSets

CONSTANTS
  Streams,        \* the files: sequences of packets
  Requests,       \* what the caller may ask for: sequences of times
  Ms,             \* units of time in a millisecond
  DecoderDelay    \* frames the decoder holds back until it is flushed

\* dts is the time a packet is decoded at, where the index has it: mov.c:8071
\* moves the time sought by a constant of the file to compare the two.
Packet == [video : BOOLEAN, key : BOOLEAN, dts : Int, pts : Int]

ASSUME StreamsAssumption == Streams \subseteq Seq(Packet)
ASSUME RequestsAssumption == Requests \subseteq (Seq(Int) \ {<< >>})
ASSUME MsAssumption == Ms \in Nat \ {0}
ASSUME DelayAssumption == DecoderDelay \in Nat

VARIABLES
  stream, tms, need_resize,   \* the file, and the arguments
  at, ret,                    \* the statement run is at, its return value
  graph,                      \* the filter graph was made
  pos,                        \* the packet read last, or to be read next
  dec,                        \* packets inside the decoder
  decoded,                    \* for each frame, its packet and the pts then
  ref_frame, resize_frame,    \* the frames the two AVFrames hold
  encode_frame,               \* which of them encode_frame points at
  process, idx,               \* locals of the loop over the requests
  need_write, have_write,     \* requests not served, and how many are
  picture                     \* what each output file shows

args  == << stream, tms, need_resize >>
input == << pos, dec, decoded >>
loop  == << process, idx >>
bufs  == << ref_frame, resize_frame, encode_frame >>
done  == << need_write, have_write, picture >>
vars  == << args, at, ret, graph, input, loop, bufs, done >>

Nothing == 0

\* What an output file may show besides a frame, or Nothing.
Unwritten == -1
Failed == -2

tms_len == Len(tms)

Goto(label) == at' = label /\ ret' = ret

Return(code) == at' = "destroy" /\ ret' = code

Init ==
  /\ stream \in Streams /\ tms \in Requests /\ need_resize \in BOOLEAN
  /\ at = "open" /\ ret = 0 /\ graph = FALSE
  /\ pos = 1 /\ dec = << >> /\ decoded = << >>
  /\ ref_frame = Nothing /\ resize_frame = Nothing /\ encode_frame = "ref"
  /\ process = FALSE /\ idx = 1
  /\ need_write = [r \in 1 .. tms_len |-> TRUE] /\ have_write = 0
  /\ picture = [r \in 1 .. tms_len |-> Unwritten]

\* The result of make_flt is dropped: run goes on without a usable graph.
Open ==
  /\ at = "open"
  /\ graph' \in IF need_resize THEN BOOLEAN ELSE {FALSE}
  /\ Goto("seek")
  /\ UNCHANGED << args, input, loop, bufs, done >>

OpenFails ==
  /\ at = "open"
  /\ \E code \in {-100, -200, -300, -400, -500} : Return(code)
  /\ UNCHANGED << args, graph, input, loop, bufs, done >>

Earliest == CHOOSE t \in {tms[r] : r \in 1 .. tms_len} :
              \A r \in 1 .. tms_len : t <= tms[r]

\* Slip: the first time stands for the earliest one.
FirstOf == tms[1] - (tms[1] % Ms)

\* minof returns an int: the earliest time is cut to milliseconds.
minof == IF Earliest >= 0 THEN Earliest - (Earliest % Ms)
                          ELSE Earliest + ((-Earliest) % Ms)

\* The index is searched by the times of decoding, the requests are times shown.
KeysUntil(t) ==
  { k \in DOMAIN stream : stream[k].video /\ stream[k].key /\ stream[k].dts <= t }

\* AVSEEK_FLAG_BACKWARD: the last keyframe before the time, or the first packet.
SeekTo(t) ==
  IF KeysUntil(t) = {} THEN 1
  ELSE CHOOSE k \in KeysUntil(t) : \A l \in KeysUntil(t) : l <= k

Seek ==
  /\ at = "seek"
  /\ \/ pos' = SeekTo(minof) /\ Goto("read")
     \/ pos' = pos /\ Return(-510)
  /\ UNCHANGED << args, graph, dec, decoded, loop, bufs, done >>

-------------------------------------------------------------------------------
(* The decode loop.                                                          *)

ReadOther ==
  /\ at = "read" /\ have_write < tms_len
  /\ pos <= Len(stream) /\ ~stream[pos].video
  /\ pos' = pos + 1
  /\ Goto("read")
  /\ UNCHANGED << args, graph, dec, decoded, loop, bufs, done >>

\* A packet that cannot be decoded is reported, or yields no frame.
SendPacket ==
  /\ at = "read" /\ have_write < tms_len
  /\ pos <= Len(stream) /\ stream[pos].video
  /\ \/ dec' = Append(dec, pos) /\ Goto("receive")
     \/ dec' = dec /\ Goto("receive")
     \/ dec' = dec /\ Return(-600)
  /\ UNCHANGED << args, graph, pos, decoded, loop, bufs, done >>

\* Slip: requests no frame has reached are forgotten.
ReadEndsEarly ==
  /\ at = "read"
  /\ Goto("finish")
  /\ UNCHANGED << args, graph, input, loop, bufs, done >>

\* av_read_frame fails at the end of the file, and on errors.
ReadEnds ==
  /\ at = "read"
  /\ Goto(IF have_write < tms_len THEN "fallback" ELSE "finish")
  /\ UNCHANGED << args, graph, input, loop, bufs, done >>

ReceiveFrame ==
  /\ at = "receive" /\ Len(dec) > DecoderDelay
  /\ dec' = Tail(dec)
  /\ decoded' = Append(decoded, [packet |-> Head(dec), pts |-> stream[pos].pts])
  /\ ref_frame' = Len(decoded')
  /\ process' = FALSE /\ idx' = 1
  /\ Goto("match")
  /\ UNCHANGED << args, graph, pos, resize_frame, encode_frame, done >>

\* Slip: the next packet is not read.
NoMoreFramesStays ==
  /\ at = "receive" /\ Len(dec) <= DecoderDelay
  /\ Goto("read")
  /\ UNCHANGED << args, graph, input, loop, bufs, done >>

NoMoreFrames ==
  /\ at = "receive" /\ Len(dec) <= DecoderDelay
  /\ pos' = pos + 1
  /\ Goto("read")
  /\ UNCHANGED << args, graph, dec, decoded, loop, bufs, done >>

\* Slip: a request is not taken off the list once served.
ReachedAgain == stream[pos].pts >= tms[idx]

Reached == need_write[idx] /\ stream[pos].pts >= tms[idx]

SkipRequest ==
  /\ at = "match" /\ idx <= tms_len /\ ~Reached
  /\ idx' = idx + 1
  /\ Goto("match")
  /\ UNCHANGED << args, graph, input, process, bufs, done >>

\* av_buffersrc_add_frame takes the reference over, and refuses a frame
\* without a buffer.
Filter ==
  \/ /\ ~need_resize
     /\ encode_frame' = "ref"
     /\ UNCHANGED << ref_frame, resize_frame >>
  \/ /\ need_resize /\ graph /\ ref_frame # Nothing
     /\ encode_frame' = "resize"
     /\ resize_frame' = ref_frame
     /\ ref_frame' = Nothing

ProcessFrame ==
  /\ at = "match" /\ idx <= tms_len /\ Reached /\ ~process
  /\ Filter
  /\ process' = TRUE
  /\ Goto("match")
  /\ UNCHANGED << args, graph, input, idx, done >>

\* Without a graph the filter contexts are null or not configured.
FilterFails ==
  /\ \/ at = "match" /\ idx <= tms_len /\ Reached /\ ~process
     \/ at = "fallback"
  /\ need_resize
  /\ \/ \E code \in {-540, -550} : Return(code)
     \/ ~graph /\ Goto("crashed")
  /\ UNCHANGED << args, graph, input, loop, bufs, done >>

Source == IF encode_frame = "ref" THEN ref_frame ELSE resize_frame

\* write: its result is dropped by both callers.  An empty frame has no
\* dimensions, and the encoder does not open.
Write ==
  /\ \E p \in {Failed, Source} :
       picture' = [picture EXCEPT ![idx] = p]
  /\ need_write' = [need_write EXCEPT ![idx] = FALSE]
  /\ have_write' = have_write + 1

\* Slip: the source frame is released with the filtered one.
WriteMatchReleases ==
  /\ at = "match" /\ idx <= tms_len /\ Reached /\ process
  /\ Write
  /\ resize_frame' = Nothing /\ ref_frame' = Nothing
  /\ idx' = idx + 1
  /\ Goto("match")
  /\ UNCHANGED << args, graph, input, process, encode_frame >>

WriteMatch ==
  /\ at = "match" /\ idx <= tms_len /\ Reached /\ process
  /\ Write
  /\ resize_frame' = Nothing
  /\ idx' = idx + 1
  /\ Goto("match")
  /\ UNCHANGED << args, graph, input, process, ref_frame, encode_frame >>

MatchDone ==
  /\ at = "match" /\ idx > tms_len
  /\ Goto("receive")
  /\ UNCHANGED << args, graph, input, loop, bufs, done >>

-------------------------------------------------------------------------------
(* After the loop.                                                           *)

Fallback ==
  /\ at = "fallback"
  /\ Filter
  /\ idx' = 1
  /\ Goto("try")
  /\ UNCHANGED << args, graph, input, process, done >>

TryWrite ==
  /\ at = "try" /\ idx <= tms_len
  /\ \/ need_write[idx] /\ Write
     \/ ~need_write[idx] /\ UNCHANGED done
  /\ idx' = idx + 1
  /\ Goto("try")
  /\ UNCHANGED << args, graph, input, process, bufs >>

TryDone ==
  /\ at = "try" /\ idx > tms_len
  /\ resize_frame' = Nothing
  /\ Goto("finish")
  /\ UNCHANGED << args, graph, input, loop, ref_frame, encode_frame, done >>

Finish ==
  /\ at = "finish"
  /\ ref_frame' = Nothing
  /\ Return(0)
  /\ UNCHANGED << args, graph, input, loop, resize_frame, encode_frame, done >>

\* ~VideoThubmnail: the decoder goes with its stream.
Destroy ==
  /\ at = "destroy"
  /\ dec' = << >> /\ ref_frame' = Nothing /\ resize_frame' = Nothing
  /\ graph' = FALSE
  /\ Goto("end")
  /\ UNCHANGED << args, pos, decoded, encode_frame, loop, done >>

Next ==
  \/ Open \/ OpenFails \/ Seek \/ ReadOther \/ SendPacket \/ ReadEnds
  \/ ReceiveFrame \/ NoMoreFrames \/ SkipRequest \/ ProcessFrame
  \/ FilterFails \/ WriteMatch \/ MatchDone
  \/ Fallback \/ TryWrite \/ TryDone \/ Finish \/ Destroy

Spec == Init /\ [][Next]_vars

\* run is a sequential function: the thread that called it keeps running.
FairSpec == Spec /\ WF_vars(Next)

-------------------------------------------------------------------------------
(* Properties.                                                               *)

Frames == 0 .. Len(decoded)

Labels == {"open", "seek", "read", "receive", "match", "fallback", "try",
           "finish", "destroy", "end", "crashed"}

\* Every variable has its type.
TypeOK ==
  /\ stream \in Seq(Packet) /\ tms \in Seq(Int) \ {<< >>}
  /\ need_resize \in BOOLEAN
  /\ at \in Labels /\ ret \in Int /\ graph \in BOOLEAN
  /\ pos \in 1 .. Len(stream) + 1
  /\ dec \in Seq(DOMAIN stream)
  /\ decoded \in Seq([packet : DOMAIN stream, pts : Int])
  /\ ref_frame \in Frames /\ resize_frame \in Frames
  /\ encode_frame \in {"ref", "resize"}
  /\ process \in BOOLEAN /\ idx \in 1 .. tms_len + 1
  /\ need_write \in [1 .. tms_len -> BOOLEAN] /\ have_write \in 0 .. tms_len
  /\ picture \in [1 .. tms_len -> Frames \cup {Unwritten, Failed}]

Reaching(r) == { f \in DOMAIN decoded : decoded[f].pts >= tms[r] }

FirstReaching(r) == CHOOSE f \in Reaching(r) : \A g \in Reaching(r) : f <= g

Shows(r) == picture[r] \in DOMAIN decoded

\* A picture shows the first frame delivered once the requested time was
\* reached, whatever was written before and after it (lines 519-568), and the
\* last frame when no frame was (lines 570-603).
FirstFrameReached ==
  \A r \in 1 .. tms_len :
    Shows(r) => picture[r] = IF Reaching(r) = {} THEN Len(decoded)
                                                 ELSE FirstReaching(r)

\* How much later than it is decoded a packet is shown.
Reordering(k) == stream[k].pts - stream[k].dts

\* The seek (lines 507-515) takes times to be shown for times of decoding, so it
\* may land on a keyframe after frames that are due; but only on one that is shown
\* soon enough: a frame it passes over is later than a request by less than the
\* reordering of the keyframe, and so by nothing where that is decoded and shown
\* at the same time.
SeekKeeps ==
  [][at = "seek" /\ at' = "read" =>
       \A k \in 1 .. pos' - 1, r \in 1 .. tms_len :
         stream[k].video => stream[k].pts < tms[r] + Reordering(pos')]_vars

\* The count that ends the decode loop (line 519) agrees with the requests it
\* counts, and run returns 0 only once a write was tried for each of them.
AllServed ==
  /\ have_write = Cardinality({ r \in 1 .. tms_len : ~need_write[r] })
  /\ at = "end" /\ ret = 0 => have_write = tms_len

ServedBySame(q, r) ==
  /\ Reaching(q) # {} /\ Reaching(r) # {}
  /\ FirstReaching(q) = FirstReaching(r)

\* The call returns, or stops in a graph that was not made.
Terminates == <>(at \in {"end", "crashed"})

\* Comment at video_thumbnail.cc:505: "Got Same Picture If Is The same Seek
\* Frame".  Requests that the same frame serves show the same picture, also the
\* ones after the first, for which the filtered frame was released (line 559).
SamePicture ==
  \A a, b \in 1 .. tms_len :
    /\ Shows(a) /\ picture[b] \notin {Unwritten, Failed}
    /\ ServedBySame(a, b)
    => picture[a] = picture[b]
=============================================================================
