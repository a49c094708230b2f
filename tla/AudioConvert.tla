----------------------------- MODULE AudioConvert -----------------------------
(***************************************************************************)
(* One call of audio_convert: AudioConvert::run decodes the audio stream   *)
(* of the input packet by packet, pushes the samples through swr's FIFO,   *)
(* cuts them into encoder frames and writes the encoded packets to an mp4  *)
(* file; the destructor then releases whatever the call acquired.          *)
(*                                                                         *)
(* Samples are numbered in the order in which the decoder delivers them.   *)
(* Every call into FFmpeg that the code checks may fail at any time.       *)
(***************************************************************************)
EXTENDS AacEncoder, Integers

CONSTANTS
  Packets,        \* what one audio packet decodes to: sequences of frame sizes
  MaxPackets,     \* bound: packets in the input
  DecoderDelay    \* frames the decoder holds back until it is flushed

ASSUME PacketsAssumption == Packets \subseteq Seq(Nat \ {0})
ASSUME MaxPacketsAssumption == MaxPackets \in Nat
ASSUME DecoderDelayAssumption == DecoderDelay \in Nat

VARIABLES
  at,        \* the statement run is at
  ret,       \* its return value
  stage,     \* the setup step it is at
  held,      \* resources acquired and not released
  reads,     \* packets read so far
  dec,       \* sizes of the frames inside the decoder
  nframes,   \* samples received from the decoder
  fifo,      \* samples buffered in swr
  frame,     \* samples encode_frame points at
  enc,       \* the encoder
  drop,      \* the next packet is the first one, to be dropped
  file       \* the output file

own  == << stage, held >>
conv == << dec, nframes, fifo, frame >>
out  == << enc, drop, file >>
vars == << at, ret, stage, held, reads, dec, nframes, fifo, frame, enc, drop, file >>

-------------------------------------------------------------------------------
(* Setup: each step either acquires what it acquires or returns its code.    *)

NoError == 0

Step(err, gets) == [err |-> err, gets |-> gets]

Setup ==
  << Step(-1000, {"format_ctx"}),           \* avformat_open_input
     Step(-2000, {}),                       \* avformat_find_stream_info
     Step(-3000, {}),                       \* av_find_best_stream
     Step(NoError, {"codec_ctx"}),          \* avcodec_alloc_context3
     Step(-4000, {}),                       \* avcodec_open2, decoder
     Step(-5000, {"swr"}),                  \* swr_alloc
     Step(-6000, {}),                       \* swr_init
     Step(-7000, {"output_format_ctx"}),    \* avformat_alloc_output_context2
     Step(-8000, {}),                       \* the format has no audio codec
     Step(-9000, {}),                       \* avcodec_find_encoder
     Step(-10000, {}),                      \* avformat_new_stream
     Step(-11000, {"output_codec_ctx"}),    \* avcodec_alloc_context3
     Step(-11000, {}),                      \* avcodec_open2, encoder
     Step(-12000, {}),                      \* avcodec_parameters_from_context
     Step(-13000, {}),                      \* AVFMT_NOFILE
     Step(-14000, {"pb"}),                  \* avio_open
     Step(-15000, {"header"}),              \* avformat_write_header
     Step(-16000, {"buffer"}),              \* av_samples_alloc
     Step(NoError, {"decode_frame", "encode_frame"}) >>   \* av_frame_alloc

OpenDecoder == 5     \* the step before which an AAC input is turned down

Init ==
  /\ at = "setup" /\ ret = 0 /\ stage = 1 /\ held = {} /\ reads = 0
  /\ dec = << >> /\ nframes = 0 /\ fifo = << >> /\ frame = << >>
  /\ enc = NewEncoder /\ drop = TRUE
  /\ file = [header |-> FALSE, packets |-> << >>, trailer |-> FALSE]

Goto(label) == at' = label /\ ret' = ret

Return(code) == at' = "destroy" /\ ret' = code

SetupOk ==
  /\ at = "setup"
  /\ held' = held \cup (Setup[stage].gets \ {"header"})
  /\ file' = IF "header" \in Setup[stage].gets
             THEN [file EXCEPT !.header = TRUE] ELSE file
  /\ stage' = stage + 1
  /\ Goto(IF stage = Len(Setup) THEN "read" ELSE "setup")
  /\ UNCHANGED << reads, conv, enc, drop >>

SetupFails ==
  /\ at = "setup" /\ Setup[stage].err # NoError
  /\ Return(Setup[stage].err)
  /\ UNCHANGED << own, reads, conv, out >>

AlreadyAac ==
  /\ at = "setup" /\ stage = OpenDecoder
  /\ Return(1)
  /\ UNCHANGED << own, reads, conv, out >>

-------------------------------------------------------------------------------
(* The packet loop.                                                          *)

Hold(r) == held' = held \cup {r} /\ stage' = stage

Drop(r) == held' = held \ {r} /\ stage' = stage

\* Slip: the output stream is counted among the resources.
EndOfInputStray ==
  /\ at = "read"
  /\ Goto("final")
  /\ held' = held \cup {"output_stream"} /\ stage' = stage
  /\ UNCHANGED << reads, conv, out >>

EndOfInput ==
  /\ at = "read"
  /\ Goto("final")
  /\ UNCHANGED << own, reads, conv, out >>

ReadOther ==
  /\ at = "read" /\ reads < MaxPackets
  /\ reads' = reads + 1
  /\ Goto("read")
  /\ UNCHANGED << own, conv, out >>

ReadAudio ==
  /\ at = "read" /\ reads < MaxPackets
  /\ reads' = reads + 1
  /\ Hold("input_packet")
  /\ Goto("send_packet")
  /\ UNCHANGED << conv, out >>

\* The frames of p are those decoded before the end of the packet or an error
\* in it; either ends the receive loop in the same way.
SendPacket ==
  /\ at = "send_packet"
  /\ \E p \in Packets : dec' = dec \o p
  /\ Goto("receive_frame")
  /\ UNCHANGED << own, reads, nframes, fifo, frame, out >>

SendPacketFails ==
  /\ at = "send_packet"
  /\ Drop("input_packet")
  /\ Goto("read")
  /\ UNCHANGED << reads, conv, out >>

\* The samples of the next frame, numbered after those before it.
NextSamples == [i \in 1 .. Head(dec) |-> nframes + i]

ReceiveFrame ==
  /\ at = "receive_frame" /\ Len(dec) > DecoderDelay
  /\ dec' = Tail(dec)
  /\ nframes' = nframes + Head(dec)
  /\ \/ /\ fifo' = fifo \o NextSamples
        /\ Goto("receive_frame")
     \/ /\ fifo' = fifo
        /\ Return(-18000)
  /\ UNCHANGED << own, reads, frame, out >>

NoMoreFrames ==
  /\ at = "receive_frame" /\ Len(dec) <= DecoderDelay
  /\ Goto("drain")
  /\ UNCHANGED << own, reads, conv, out >>

\* swr_convert(buffer, frame_size, NULL, 0) and the frame made of its output.
\* swr is set up to change the sample format only (lines 62-68), and what it
\* buffers is then converted without a way to fail (swresample.c:588-592).
Convert ==
  LET samples == IF Len(fifo) < FrameSize THEN Len(fifo) ELSE FrameSize
  IN  /\ frame' = SubSeq(fifo, 1, samples)
      /\ fifo' = SubSeq(fifo, samples + 1, Len(fifo))
      /\ UNCHANGED << dec, nframes >>

\* Slip: any rest is drained, not only what is more than a frame.
DrainRest ==
  /\ at = "drain" /\ Len(fifo) > 0
  /\ Convert
  /\ \/ Goto("send_frame")
     \/ Return(-19000)
  /\ UNCHANGED << own, reads, out >>

DrainFrame ==
  /\ at = "drain" /\ Len(fifo) > FrameSize
  /\ Convert
  /\ \/ Goto("send_frame")
     \/ Return(-19000)
  /\ UNCHANGED << own, reads, out >>

\* Slip: one frame per packet, "if" instead of "while".
PacketDoneEarly ==
  /\ at = "drain"
  /\ Drop("input_packet")
  /\ Goto("read")
  /\ UNCHANGED << reads, conv, out >>

PacketDone ==
  /\ at = "drain" /\ Len(fifo) <= FrameSize
  /\ Drop("input_packet")
  /\ Goto("read")
  /\ UNCHANGED << reads, conv, out >>

Send(next, error) ==
  /\ \/ /\ AcceptsFrame(enc, frame)
        /\ enc' = SendFrame(enc, frame)
        /\ Goto(next)
     \/ enc' = enc /\ Return(error)
  /\ UNCHANGED << own, reads, conv, drop, file >>

SendEncodeFrame == at = "send_frame" /\ Send("receive_packet", -20000)

\* The receive loops: the first packet ever received is dropped, the others
\* are written.
\* Slip: drop is never reset, every packet is taken for the first one.
ReceiveDropsAll(again, error) ==
  /\ HasPacket(enc)
  /\ enc' = Received(enc)
  /\ \/ drop /\ Goto(again)
     \/ ~drop /\ Return(error)
  /\ UNCHANGED << own, reads, conv, drop, file >>

Receive(again, error) ==
  /\ HasPacket(enc)
  /\ enc' = Received(enc)
  /\ \/ /\ drop
        /\ drop' = FALSE /\ file' = file
        /\ Goto(again)
     \/ /\ ~drop
        /\ file' = [file EXCEPT !.packets = Append(@, PacketOf(enc))]
        /\ drop' = drop
        /\ Goto(again)
     \/ /\ ~drop
        /\ drop' = drop /\ file' = file
        /\ Return(error)
  /\ UNCHANGED << own, reads, conv >>

NoMorePackets(next) ==
  /\ ~HasPacket(enc)
  /\ enc' = Received(enc)
  /\ Goto(next)
  /\ UNCHANGED << own, reads, conv, drop, file >>

ReceivePacket == at = "receive_packet" /\ Receive("receive_packet", -21000)

\* Slip: the packets are left in the encoder until the end.
PacketsLeft ==
  /\ at = "receive_packet" /\ Goto("drain")
  /\ UNCHANGED << own, reads, conv, out >>

\* Slip: an encoder that has no packet yet is asked again.
PacketsAwaited == at = "receive_packet" /\ NoMorePackets("receive_packet")

PacketsWritten == at = "receive_packet" /\ NoMorePackets("drain")

-------------------------------------------------------------------------------
(* After the loop: the rest of the FIFO, the encoder's tail, the trailer.    *)

FinalConvert ==
  /\ at = "final"
  /\ Convert
  /\ \/ fifo = << >> /\ Goto("flush")
     \/ fifo # << >> /\ Goto("final_send")
     \/ fifo # << >> /\ Return(-22000)
  /\ UNCHANGED << own, reads, out >>

FinalSend == at = "final_send" /\ Send("flush", -23000)

Flush ==
  /\ at = "flush"
  /\ \/ AcceptsInput(enc) /\ enc' = SendEnd(enc) /\ Goto("flush_receive")
     \/ enc' = enc /\ Return(-24000)
  /\ UNCHANGED << own, reads, conv, drop, file >>

FlushReceive == at = "flush_receive" /\ Receive("flush_receive", -25000)

FlushDone == at = "flush_receive" /\ NoMorePackets("trailer")

\* An error of the encoder ends the receive loop like the end of the stream.
FlushReceiveFails ==
  /\ at = "flush_receive" /\ MayFail(enc)
  /\ enc' = Failed(enc)
  /\ Goto("trailer")
  /\ UNCHANGED << own, reads, conv, drop, file >>

WriteTrailer ==
  /\ at = "trailer"
  /\ \/ file' = [file EXCEPT !.trailer = TRUE] /\ Return(0)
     \/ file' = file /\ Return(-26000)
  /\ UNCHANGED << own, reads, conv, enc, drop >>

-------------------------------------------------------------------------------
(* ~AudioConvert                                                             *)

\* Slip: the output context is freed before the file it refers to.
ReleaseContextFirst ==
  << "encode_frame", "decode_frame", "buffer", "output_codec_ctx",
     "output_format_ctx", "pb", "swr", "codec_ctx", "format_ctx" >>

\* Slip: the output context is forgotten.
ReleaseMost ==
  << "encode_frame", "decode_frame", "buffer", "pb", "output_codec_ctx",
     "swr", "codec_ctx", "format_ctx" >>

ReleaseOrder ==
  << "encode_frame", "decode_frame", "buffer", "pb", "output_codec_ctx",
     "output_format_ctx", "swr", "codec_ctx", "format_ctx" >>

Held(i) == ReleaseOrder[i] \in held

Release ==
  /\ at = "destroy"
  /\ \E i \in DOMAIN ReleaseOrder :
       /\ Held(i) /\ \A j \in 1 .. i - 1 : ~Held(j)
       /\ Drop(ReleaseOrder[i])
  /\ Goto("destroy")
  /\ UNCHANGED << reads, conv, out >>

Exit ==
  /\ at = "destroy" /\ \A i \in DOMAIN ReleaseOrder : ~Held(i)
  /\ Goto("end")
  /\ UNCHANGED << own, reads, conv, out >>

\* What the other audio tools share with audio_convert.
Reading == ReadOther \/ ReadAudio \/ SendPacket \/ SendPacketFails

Encoding ==
  \/ DrainFrame \/ SendEncodeFrame \/ ReceivePacket \/ PacketsWritten
  \/ FinalConvert \/ FinalSend
  \/ Flush \/ FlushReceive \/ FlushDone \/ FlushReceiveFails
  \/ WriteTrailer

Next ==
  \/ SetupOk \/ SetupFails \/ AlreadyAac
  \/ Reading \/ EndOfInput \/ ReceiveFrame \/ NoMoreFrames \/ PacketDone
  \/ Encoding \/ Release \/ Exit

Spec == Init /\ [][Next]_vars

\* run is a sequential function: the thread that called it keeps running.
FairSpec == Spec /\ WF_vars(Next)

-------------------------------------------------------------------------------
(* Properties.                                                               *)

Labels ==
  {"setup", "read", "send_packet", "receive_frame", "drain", "send_frame",
   "receive_packet", "final", "final_send", "flush", "flush_receive",
   "trailer", "destroy", "end"}

Resources ==
  {"input_packet", "encode_frame", "decode_frame", "buffer", "pb",
   "output_codec_ctx", "output_format_ctx", "swr", "codec_ctx", "format_ctx"}

File == [header : BOOLEAN, packets : Seq(Samples), trailer : BOOLEAN]

\* Every variable has its type.
TypeOK ==
  /\ at \in Labels
  /\ ret \in Int
  /\ stage \in 1 .. Len(Setup) + 1
  /\ held \subseteq Resources
  /\ reads \in 0 .. MaxPackets
  /\ dec \in Seq(Nat \ {0})
  /\ nframes \in Nat
  /\ fifo \in Samples
  /\ frame \in Samples
  /\ enc \in Encoder
  /\ drop \in BOOLEAN
  /\ file \in File

\* One swr_convert after the loop (line 207) empties swr: the drain loop of
\* line 168 never leaves more than a frame behind, whatever the packets held.
SwrEmptied ==
  at \in {"final_send", "flush", "flush_receive", "trailer"} => fifo = << >>

\* The encoder never refuses its input with EAGAIN or EINVAL: when run sends
\* a frame or the end (lines 179, 217, 224) every earlier packet was fetched.
EncoderReady ==
  /\ at \in {"send_frame", "final_send"} => AcceptsFrame(enc, frame)
  /\ at = "flush" => AcceptsInput(enc)

\* The AAC encoder takes a short frame as the last one only: nothing follows
\* a frame shorter than frame_size.
ShortFrameIsLast ==
  at \in {"read", "drain", "send_frame", "final_send"} /\ enc.number > 0
    => Len(enc.new) = FrameSize

\* Whatever the exit, the destructor releases all that its guards cover.
AllReleased == at = "end" => held \subseteq {"input_packet"}

\* avio_close reads output_format_ctx->pb, so the context outlives the file
\* handle.
HandleOutlivedByContext == "pb" \in held => "output_format_ctx" \in held

\* The call returns, and by then its destructor has run.
Terminates == <>(at = "end")

\* What the caller is told, and before that whether the encoder broke down.
Status ==
  IF at \in {"destroy", "end"} THEN IF ret = 0 THEN "done" ELSE "failed"
  ELSE IF enc.failed THEN "broken" ELSE "open"

\* run returned 0, and the encoder reported no error.
Whole == at \in {"destroy", "end"} /\ ret = 0 /\ ~enc.failed

LoopEnded ==
  at \in {"final", "final_send", "flush", "flush_receive", "trailer",
         "destroy", "end"}

Promise ==
  INSTANCE Transcode WITH
    accepted <- nframes, sealed <- LoopEnded, output <- file.packets,
    status <- Status

\* The file is a transcoding of the decoded samples: block k of it holds the
\* samples after block k - 1, no sample is lost, repeated or reordered on the
\* way through swr, the encoder and the dropped first packet (lines 148-242).
\* run returns 0 in two cases only: every sample is in the file, or the encoder
\* reported an error in the flush, which line 227 takes for its end, and the
\* file holds the blocks written until then.
KeepsPromise == Promise!TSpec

-------------------------------------------------------------------------------
(* What the documentation of the interfaces asks for and the code does not   *)
(* do.  The run flush_error checks EncoderDrained; no run checks the others, *)
(* and adding one as an INVARIANT shows how it fails.                        *)

\* avcodec.h:136-138: at the end of the stream avcodec_receive_packet is called
\* "in a loop until AVERROR_EOF is returned".  Before the trailer is written,
\* after which run returns 0, the encoder has said so (lines 227, 246-253).
EncoderDrained == at = "trailer" => enc.done

\* avcodec.h:129-140: at the end of the stream the decoder is drained.  This
\* fails for DecoderDelay > 0 only.
DecoderDrained == at = "trailer" => dec = << >>

\* avformat.h:2288-2290: a packet of av_read_frame is freed with
\* av_packet_unref.
NothingLeaked == at = "end" => held = {}
=============================================================================
