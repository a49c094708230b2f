--------------------------- MODULE ThumbnailWriter ---------------------------
(***************************************************************************)
(* VideoThubmnail::write, called for each request by the run that found    *)
(* its frame: a muxer, a file handle, a jpeg encoder and a packet of three *)
(* bytes per pixel are made and released again for every picture.  Calls   *)
(* for different requests may overlap.  An allocation that is not checked  *)
(* succeeds.                                                               *)
(***************************************************************************)
EXTENDS Integers, Sequences

CONSTANT Pictures       \* the frames: their pixels, and bytes they take as a jpeg

ASSUME PicturesAssumption == Pictures \subseteq [pixels : Nat, jpeg : Nat]

VARIABLES
  stmt,       \* for each request, the statement write is at
  frame,      \* the frame it is given
  held,       \* resources: pairs of the request and what it acquired
  packet,     \* bytes of the jpeg in its packet
  pending,    \* bytes in its handle's buffer
  file,       \* bytes in its file, -1 before it is made
  ioerror,    \* requests with an error that write does not notice
  result      \* what write returned for each, 1 before

wvars == << stmt, frame, held, packet, pending, file, ioerror, result >>

NotReturned == 1

\* A frame without a buffer has no dimensions.
NoPicture == [pixels |-> 0, jpeg |-> 0]

WInit(requests) ==
  /\ stmt = [r \in requests |-> "idle"]
  /\ frame = [r \in requests |-> NoPicture]
  /\ held = {} /\ ioerror = {}
  /\ packet = [r \in requests |-> 0] /\ pending = [r \in requests |-> 0]
  /\ file = [r \in requests |-> -1]
  /\ result = [r \in requests |-> NotReturned]

Called(r, f) ==
  /\ stmt' = [stmt EXCEPT ![r] = "alloc"]
  /\ frame' = [frame EXCEPT ![r] = f]
  /\ UNCHANGED << held, packet, pending, file, ioerror, result >>

At(r, label) == stmt[r] = label

Acquire(r, resource) == held' = held \cup {<< r, resource >>}

Goto(r, label) ==
  /\ stmt' = [stmt EXCEPT ![r] = label]
  /\ UNCHANGED << frame, result >>

Return(r, code) ==
  /\ result' = [result EXCEPT ![r] = code]
  /\ stmt' = [stmt EXCEPT ![r] = "end"]
  /\ frame' = frame

AllocContext(r) ==
  /\ At(r, "alloc")
  /\ Acquire(r, "context")
  /\ Goto(r, "open")
  /\ UNCHANGED << packet, pending, file, ioerror >>

OpenFile(r) ==
  /\ At(r, "open")
  /\ Acquire(r, "handle")
  /\ file' = [file EXCEPT ![r] = 0]
  /\ Goto(r, "stream")
  /\ UNCHANGED << packet, pending, ioerror >>

OpenFileFails(r) ==
  /\ At(r, "open")
  /\ Return(r, -10100)
  /\ UNCHANGED << held, packet, pending, file, ioerror >>

\* The stream and its encoder belong to the context.
NewStream(r) ==
  /\ At(r, "stream")
  /\ \/ Goto(r, "codec")
     \/ Return(r, -10200)
  /\ UNCHANGED << held, packet, pending, file, ioerror >>

\* The encoder does not open for a frame without dimensions.
OpenEncoder(r) ==
  /\ At(r, "codec")
  /\ \/ frame[r].pixels > 0 /\ Goto(r, "header")
     \/ \E code \in {-10300, -10400} : Return(r, code)
  /\ UNCHANGED << held, packet, pending, file, ioerror >>

WriteHeader(r) ==
  /\ At(r, "header")
  /\ \/ Goto(r, "packet")
     \/ Return(r, -10410)
  /\ UNCHANGED << held, packet, pending, file, ioerror >>

NewPacket(r) ==
  /\ At(r, "packet")
  /\ Acquire(r, "packet")
  /\ Goto(r, "encode")
  /\ UNCHANGED << packet, pending, file, ioerror >>

Fits(r) == frame[r].jpeg <= 3 * frame[r].pixels

\* Slip: the result is not looked at, and the packet goes on as it was made.
EncodeUnchecked(r) ==
  /\ At(r, "encode")
  /\ packet' = [packet EXCEPT ![r] = IF Fits(r) THEN frame[r].jpeg ELSE 3 * frame[r].pixels]
  /\ Goto(r, "frame")
  /\ UNCHANGED << held, pending, file, ioerror >>

\* The jpeg is copied into the packet given, which keeps its buffer.
Encode(r) ==
  /\ At(r, "encode") /\ Fits(r)
  /\ packet' = [packet EXCEPT ![r] = frame[r].jpeg]
  /\ Goto(r, "frame")
  /\ UNCHANGED << held, pending, file, ioerror >>

\* avcodec_encode_video2 frees the packet when it fails, as it does when the
\* jpeg is larger than the packet given.
EncodeFails(r) ==
  /\ At(r, "encode")
  /\ held' = held \ {<< r, "packet" >>}
  /\ Return(r, -10500)
  /\ UNCHANGED << packet, pending, file, ioerror >>

WriteFrame(r) ==
  /\ At(r, "frame")
  /\ \/ pending' = [pending EXCEPT ![r] = @ + packet[r]] /\ ioerror' = ioerror
     \/ pending' = pending /\ ioerror' = ioerror \cup {r}
  /\ Goto(r, "trailer")
  /\ UNCHANGED << held, packet, file >>

\* Writes out what the handle holds, or fails unnoticed on the way.
WriteTrailer(r) ==
  /\ At(r, "trailer")
  /\ \/ file' = [file EXCEPT ![r] = @ + pending[r]] /\ ioerror' = ioerror
     \/ file' = file /\ ioerror' = ioerror \cup {r}
  /\ pending' = [pending EXCEPT ![r] = 0]
  /\ Goto(r, "close")
  /\ UNCHANGED << held, packet >>

Resources(r) == {<< r, "packet" >>, << r, "handle" >>, << r, "context" >>}

Close(r) ==
  /\ At(r, "close")
  /\ held' = held \ Resources(r)
  /\ packet' = [packet EXCEPT ![r] = 0]
  /\ Return(r, 0)
  /\ UNCHANGED << pending, file, ioerror >>

Write(r) ==
  \/ AllocContext(r) \/ OpenFile(r) \/ OpenFileFails(r) \/ NewStream(r)
  \/ OpenEncoder(r) \/ WriteHeader(r) \/ NewPacket(r) \/ Encode(r)
  \/ EncodeFails(r) \/ WriteFrame(r) \/ WriteTrailer(r) \/ Close(r)

-------------------------------------------------------------------------------
(* Properties.                                                               *)

Calls == DOMAIN stmt

Statements ==
  {"idle", "alloc", "open", "stream", "codec", "header", "packet", "encode",
   "frame", "trailer", "close", "end"}

WTypeOK ==
  /\ stmt \in [Calls -> Statements]
  /\ frame \in [Calls -> Pictures \cup {NoPicture}]
  /\ held \subseteq UNION { Resources(r) : r \in Calls }
  /\ packet \in [Calls -> Nat] /\ pending \in [Calls -> Nat]
  /\ file \in [Calls -> Nat \cup {-1}] /\ ioerror \subseteq Calls
  /\ result \in [Calls -> Int]

\* A picture that was written leaves nothing open behind it, and one that was
\* not leaves its handle and context but never its packet, whatever the writes
\* of the other requests do (lines 146-194).
OnlyFailuresHold ==
  \A r \in Calls :
    At(r, "end") =>
      held \cap Resources(r) =
        IF result[r] = 0 THEN {}
        ELSE IF result[r] = -10100 THEN {<< r, "context" >>}
        ELSE {<< r, "handle" >>, << r, "context" >>}

\* A file that write reports as written holds a whole jpeg, never the unused
\* end of the packet nor a part of it, unless the disk failed (lines 178-190).
WholeJpeg ==
  \A r \in Calls :
    result[r] = 0 /\ r \notin ioerror =>
      file[r] = frame[r].jpeg /\ file[r] <= 3 * frame[r].pixels

\* avformat.h:1260: "The caller must take care of closing / freeing the IO
\* context."  When write has returned, the file it opened is closed.
FileClosed == \A r \in Calls : At(r, "end") => << r, "handle" >> \notin held
=============================================================================
