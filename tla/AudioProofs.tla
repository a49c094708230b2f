------------------------------ MODULE AudioProofs ------------------------------
(***************************************************************************)
(* Theorems about the four audio tools, for every frame size, every set of *)
(* packets, every length of the input and every decoder delay.             *)
(*                                                                         *)
(* The setup, the reading of packets, the encoding and the release of what *)
(* was acquired are the same statements in audio_convert, audio_cut,       *)
(* audio_gradient and audio_volume: the lemmas that come first are about   *)
(* those.  Then come the theorems about AudioConvert, and those about the  *)
(* other tools, which differ in the statements that give frames to swr:    *)
(*   - AudioCut: every window and sample rate, and every input whose       *)
(*     channels are kept apart (Planar).  Interleaved input is read past   *)
(*     its end, and nothing is promised of it;                             *)
(*   - AudioGradient, AudioVolume: every limit of the buffer of swr.       *)
(***************************************************************************)
EXTENDS AudioCut, AudioGradient, AudioVolume, SequenceTheorems, TLAPS

-------------------------------------------------------------------------------
(* The encoder's operators keep its type.                                    *)

\* A sequence of one element.
LEMMA OneElement ==
  ASSUME NEW S, NEW s \in S
  PROVE  << s >> \in Seq(S)
  OBVIOUS

\* A function on 1 .. n is a sequence of length n.
LEMMA FunctionIsSeq ==
  ASSUME NEW S, NEW n \in Nat, NEW f \in [1 .. n -> S]
  PROVE  f \in Seq(S) /\ Len(f) = n
  OBVIOUS

\* A new encoder is an encoder.
LEMMA NewEncoderType == NewEncoder \in Encoder
  BY FrameSizeAssumption DEF NewEncoder, Encoder, Samples, Silence

\* One attempt to produce a packet (encode_receive_packet_internal) leaves an
\* encoder.
LEMMA WorkType ==
  ASSUME NEW e \in Encoder
  PROVE  Work(e) \in Encoder
<1> USE FrameSizeAssumption DEF Encoder
<1>0. Silence \in Samples /\ \A s \in Samples : Len(s) \in Nat
  BY DEF Samples, Silence
<1>1. ASSUME NEW q \in Encoder PROVE Emit(q) \in Encoder
  <2>1. << q.old >> \in Seq(Samples)
    BY OneElement
  <2>2. (IF q.remaining < FrameSize THEN 0 ELSE q.remaining - FrameSize) \in Nat
    OBVIOUS
  <2>3. QED
    BY <2>1, <2>2 DEF Emit
<1>2. CASE ~e.done /\ e.frame # << >>
  <2>1. e.frame[1] \in Samples
    BY <1>2
  <2> DEFINE sum == e.remaining + Len(e.frame[1])
  <2>a. sum \in Nat /\ e.number + 1 \in Nat /\ << >> \in Seq(Samples)
    <3>1. e.remaining \in Nat /\ e.number \in Nat
      OBVIOUS
    <3>2. Len(e.frame[1]) \in Nat
      BY <2>1, <1>0
    <3>3. << >> \in Seq(Samples)
      OBVIOUS
    <3>4. QED
      BY <3>1, <3>2, <3>3
  <2>2. [e EXCEPT !.frame = << >>, !.mid = e.new, !.new = e.frame[1],
                  !.number = @ + 1, !.remaining = @ + Len(e.frame[1])]
          \in Encoder
    <3> HIDE DEF sum
    <3>1. [e EXCEPT !.frame = << >>, !.mid = e.new, !.new = e.frame[1],
                    !.number = @ + 1, !.remaining = sum] \in Encoder
      BY <2>1, <2>a
    <3>2. QED
      BY <3>1 DEF sum
  <2>3. EncodeFrame(e) \in Encoder
    BY <1>1, <2>2 DEF EncodeFrame
  <2>4. QED
    BY <1>2, <2>3 DEF Work
<1>3. CASE ~e.done /\ e.frame = << >> /\ e.draining
  <2>1. [e EXCEPT !.mid = e.new, !.new = Silence] \in Encoder
    BY <1>0
  <2>2. EncodeEnd(e) \in Encoder
    BY <1>1, <2>1 DEF EncodeEnd
  <2>3. QED
    BY <1>3, <2>2 DEF Work
<1>4. QED
  BY <1>2, <1>3 DEF Work

\* avcodec_send_frame, avcodec_receive_packet and a failed call leave an
\* encoder, and a fetched packet is a sequence of samples.
LEMMA EncoderTypes ==
  ASSUME NEW e \in Encoder
  PROVE  /\ \A f \in Samples : SendFrame(e, f) \in Encoder
         /\ SendEnd(e) \in Encoder
         /\ Received(e) \in Encoder
         /\ Failed(e) \in Encoder
         /\ HasPacket(e) => PacketOf(e) \in Samples
<1>1. ASSUME NEW q \in Encoder PROVE WorkIfIdle(q) \in Encoder
  BY WorkType DEF WorkIfIdle
<1>2. ASSUME NEW f \in Samples PROVE SendFrame(e, f) \in Encoder
  <2>1. [e EXCEPT !.frame = << f >>] \in Encoder
    BY OneElement DEF Encoder
  <2>2. QED
    BY <1>1, <2>1 DEF SendFrame
<1>3. SendEnd(e) \in Encoder
  <2>1. [e EXCEPT !.draining = TRUE] \in Encoder
    BY DEF Encoder
  <2>2. QED
    BY <1>1, <2>1 DEF SendEnd
<1>4. Received(e) \in Encoder
  <2>1. WorkIfIdle(e) \in Encoder
    BY <1>1
  <2>2. << >> \in Seq(Samples)
    OBVIOUS
  <2>3. QED
    BY <2>1, <2>2 DEF Received, Encoder
<1>5. Failed(e) \in Encoder
  BY DEF Failed, Encoder
<1>6. HasPacket(e) => PacketOf(e) \in Samples
  <2>1. WorkIfIdle(e) \in Encoder
    BY <1>1
  <2>2. WorkIfIdle(e).pkt \in Seq(Samples)
    BY <2>1 DEF Encoder
  <2>3. QED
    BY <2>2 DEF HasPacket, PacketOf
<1>7. QED
  BY <1>2, <1>3, <1>4, <1>5, <1>6

\* swr_convert moves samples from the FIFO to the frame.
LEMMA ConvertType ==
  ASSUME fifo \in Samples, dec \in Seq(Nat \ {0}), nframes \in Nat, Convert
  PROVE  /\ fifo' \in Samples /\ frame' \in Samples
         /\ dec' \in Seq(Nat \ {0}) /\ nframes' \in Nat
         /\ Len(frame') = IF Len(fifo) < FrameSize THEN Len(fifo) ELSE FrameSize
         /\ Len(fifo') = Len(fifo) - Len(frame')
<1> DEFINE n == IF Len(fifo) < FrameSize THEN Len(fifo) ELSE FrameSize
<1>1. fifo \in Seq(Nat) /\ n \in 0 .. Len(fifo) /\ Len(fifo) \in Nat
  BY FrameSizeAssumption DEF Samples
<1>2. /\ SubSeq(fifo, 1, n) \in Seq(Nat)
      /\ SubSeq(fifo, n + 1, Len(fifo)) \in Seq(Nat)
      /\ Len(SubSeq(fifo, 1, n)) = n
      /\ Len(SubSeq(fifo, n + 1, Len(fifo))) = Len(fifo) - n
  <2> HIDE DEF n
  <2>1. QED
    BY <1>1, SubSeqProperties
<1>3. frame' = SubSeq(fifo, 1, n) /\ fifo' = SubSeq(fifo, n + 1, Len(fifo))
  BY DEF Convert
<1>4. QED
  BY <1>2, <1>3 DEF Convert, Samples

\* Receiving a packet keeps the encoder, the file and the flag in their types.
LEMMA ReceiveType ==
  ASSUME NEW again \in Labels, NEW error \in Int,
         enc \in Encoder, file \in File, drop \in BOOLEAN, ret \in Int,
         Receive(again, error)
  PROVE  /\ enc' \in Encoder /\ file' \in File /\ drop' \in BOOLEAN
         /\ at' \in {again, "destroy"} /\ ret' \in Int
         /\ UNCHANGED << own, reads, conv >>
<1> DEFINE longer == [file EXCEPT !.packets = Append(@, PacketOf(enc))]
<1>1. longer \in File
  <2>1. PacketOf(enc) \in Samples
    BY EncoderTypes DEF Receive
  <2>2. Append(file.packets, PacketOf(enc)) \in Seq(Samples)
    BY <2>1 DEF File
  <2>3. QED
    BY <2>2 DEF File
<1>2. Received(enc) \in Encoder
  BY EncoderTypes
<1>3. \/ drop' = FALSE /\ file' = file /\ at' = again /\ ret' = ret
      \/ file' = longer /\ drop' = drop /\ at' = again /\ ret' = ret
      \/ file' = file /\ drop' = drop /\ at' = "destroy" /\ ret' = error
  BY DEF Receive, Goto, Return
<1>4. enc' = Received(enc) /\ UNCHANGED << own, reads, conv >>
  BY DEF Receive
<1> HIDE DEF longer
<1>5. file' \in File
  BY <1>1, <1>3
<1>6. drop' \in BOOLEAN
  BY <1>3
<1>7. at' \in {again, "destroy"} /\ ret' \in Int
  BY <1>3
<1>8. QED
  BY <1>2, <1>4, <1>5, <1>6, <1>7

\* The lengths of what swr_convert hands out and keeps.
LEMMA ConvertLengths ==
  ASSUME fifo \in Samples, Convert
  PROVE  /\ Len(fifo) > FrameSize => Len(frame') = FrameSize
         /\ Len(fifo) <= FrameSize => Len(frame') = Len(fifo) /\ fifo' = << >>
<1> DEFINE n == IF Len(fifo) < FrameSize THEN Len(fifo) ELSE FrameSize
<1>1. fifo \in Seq(Nat) /\ n \in 0 .. Len(fifo) /\ Len(fifo) \in Nat
      /\ FrameSize \in Nat \ {0}
  BY FrameSizeAssumption DEF Samples
<1>2. frame' = SubSeq(fifo, 1, n) /\ fifo' = SubSeq(fifo, n + 1, Len(fifo))
  BY DEF Convert
<1>3. Len(SubSeq(fifo, 1, n)) = n
  <2> HIDE DEF n
  <2>1. QED
    BY <1>1, SubSeqProperties
<1>4. n = Len(fifo) => SubSeq(fifo, n + 1, Len(fifo)) = << >>
  <2> HIDE DEF n
  <2>1. QED
    BY <1>1, SubSeqEmpty
<1>5. /\ Len(fifo) > FrameSize => n = FrameSize
      /\ Len(fifo) <= FrameSize => n = Len(fifo)
  BY <1>1
<1> HIDE DEF n
<1>6. QED
  BY <1>1, <1>2, <1>3, <1>4, <1>5

-------------------------------------------------------------------------------
(* Type correctness.                                                         *)

\* The codes and the resources of the setup steps.
LEMMA SetupType ==
  /\ Len(Setup) = 19
  /\ \A i \in 1 .. 19 : /\ Setup[i].err \in Int
                        /\ Setup[i].gets \ {"header"} \subseteq Resources
  BY DEF Setup, Step, NoError, Resources

\* The setup never runs past its last step.
StageOK == at = "setup" => stage <= Len(Setup)

\* The steps that the other audio tools take as well.
Common ==
  \/ SetupOk \/ SetupFails \/ Reading \/ Encoding \/ Release \/ Exit
  \/ UNCHANGED vars

\* The next frame of the decoder, and what is left after it.
LEMMA FrameOfDecoder ==
  ASSUME TypeOK, Len(dec) > DecoderDelay
  PROVE  /\ Head(dec) \in Nat /\ Head(dec) > 0
         /\ Tail(dec) \in Seq(Nat \ {0})
         /\ NextSamples \in Seq(Nat) /\ Len(NextSamples) = Head(dec)
<1>1. dec # << >> /\ dec \in Seq(Nat \ {0}) /\ nframes \in Nat
  BY DecoderDelayAssumption DEF TypeOK
<1>2. Head(dec) \in Nat /\ Head(dec) > 0 /\ Tail(dec) \in Seq(Nat \ {0})
  BY <1>1
<1>3. NextSamples \in [1 .. Head(dec) -> Nat]
  BY <1>1, <1>2 DEF NextSamples
<1>4. NextSamples \in Seq(Nat) /\ Len(NextSamples) = Head(dec)
  BY <1>2, <1>3, FunctionIsSeq
<1>5. QED
  BY <1>2, <1>4

\* The common steps keep every variable in its type.
LEMMA TypeCommon == TypeOK /\ StageOK /\ Common => TypeOK' /\ StageOK'
<1> SUFFICES ASSUME TypeOK, StageOK, Common PROVE TypeOK' /\ StageOK'
  OBVIOUS
<1>a. /\ at \in Labels /\ ret \in Int /\ stage \in 1 .. Len(Setup) + 1
      /\ held \subseteq Resources /\ reads \in 0 .. MaxPackets
      /\ dec \in Seq(Nat \ {0}) /\ nframes \in Nat /\ fifo \in Samples
      /\ frame \in Samples /\ enc \in Encoder /\ drop \in BOOLEAN
      /\ file \in File
  BY DEF TypeOK
<1> USE DEF TypeOK, StageOK, own, conv, out, Goto, Return, Labels
<1>1. CASE SetupOk
  <2>1. stage \in 1 .. 19 /\ Len(Setup) = 19
    BY <1>1, SetupType DEF SetupOk
  <2>2. held' \subseteq Resources
    BY <1>1, <2>1, SetupType DEF SetupOk
  <2>3. file' \in File
    BY <1>1 DEF SetupOk, File
  <2>4. stage' \in 1 .. 20 /\ (at' = "setup" => stage' <= 19)
    <3>1. stage' = stage + 1 /\ at' = IF stage = 19 THEN "read" ELSE "setup"
      BY <1>1, <2>1 DEF SetupOk
    <3>2. QED
      BY <2>1, <3>1
  <2>5. at' \in Labels
    BY <1>1 DEF SetupOk
  <2>6. QED
    BY <1>1, <2>1, <2>2, <2>3, <2>4, <2>5 DEF SetupOk
<1>2. CASE SetupFails
  <2>1. stage \in 1 .. 19 /\ Len(Setup) = 19
    BY <1>2, SetupType DEF SetupFails
  <2>2. Setup[stage].err \in Int
    BY <2>1, SetupType
  <2>3. QED
    BY <1>2, <2>1, <2>2 DEF SetupFails
<1>3. CASE ReadOther
  BY <1>3, MaxPacketsAssumption DEF ReadOther
<1>4. CASE ReadAudio
  BY <1>4, MaxPacketsAssumption DEF ReadAudio, Hold, Resources
<1>5. CASE SendPacket
  <2>1. PICK p \in Packets : dec' = dec \o p
    BY <1>5 DEF SendPacket
  <2>2. p \in Seq(Nat \ {0})
    BY PacketsAssumption
  <2>3. dec' \in Seq(Nat \ {0})
    BY <2>1, <2>2
  <2>4. QED
    BY <1>5, <2>3 DEF SendPacket
<1>6. CASE SendPacketFails
  BY <1>6 DEF SendPacketFails, Drop
<1>7. CASE DrainFrame
  BY <1>7, ConvertType DEF DrainFrame
<1>8. CASE SendEncodeFrame
  <2>1. enc' \in Encoder
    <3>1. SendFrame(enc, frame) \in Encoder
      BY <1>a, EncoderTypes
    <3>2. QED
      BY <1>8, <1>a, <3>1 DEF SendEncodeFrame, Send
  <2>2. QED
    BY <1>8, <2>1 DEF SendEncodeFrame, Send
<1>9. CASE ReceivePacket
  <2>1. Receive("receive_packet", -21000)
    BY <1>9 DEF ReceivePacket
  <2>2. /\ enc' \in Encoder /\ file' \in File /\ drop' \in BOOLEAN
        /\ at' \in {"receive_packet", "destroy"} /\ ret' \in Int
        /\ UNCHANGED << own, reads, conv >>
    BY <2>1, <1>a, ReceiveType DEF Labels
  <2>3. QED
    BY <2>2
<1>10. CASE PacketsWritten
  <2>1. enc' \in Encoder
    BY <1>10, EncoderTypes DEF PacketsWritten, NoMorePackets
  <2>2. QED
    BY <1>10, <2>1 DEF PacketsWritten, NoMorePackets
<1>11. CASE FinalConvert
  BY <1>11, ConvertType DEF FinalConvert
<1>12. CASE FinalSend
  <2>1. enc' \in Encoder
    <3>1. SendFrame(enc, frame) \in Encoder
      BY <1>a, EncoderTypes
    <3>2. QED
      BY <1>12, <1>a, <3>1 DEF FinalSend, Send
  <2>2. QED
    BY <1>12, <2>1 DEF FinalSend, Send
<1>13. CASE Flush
  <2>1. enc' \in Encoder
    BY <1>13, EncoderTypes DEF Flush
  <2>2. QED
    BY <1>13, <2>1 DEF Flush
<1>14. CASE FlushReceive
  <2>1. Receive("flush_receive", -25000)
    BY <1>14 DEF FlushReceive
  <2>2. /\ enc' \in Encoder /\ file' \in File /\ drop' \in BOOLEAN
        /\ at' \in {"flush_receive", "destroy"} /\ ret' \in Int
        /\ UNCHANGED << own, reads, conv >>
    BY <2>1, <1>a, ReceiveType DEF Labels
  <2>3. QED
    BY <2>2
<1>15. CASE FlushDone
  <2>1. enc' \in Encoder
    BY <1>15, EncoderTypes DEF FlushDone, NoMorePackets
  <2>2. QED
    BY <1>15, <2>1 DEF FlushDone, NoMorePackets
<1>16. CASE FlushReceiveFails
  <2>1. enc' \in Encoder
    BY <1>16, EncoderTypes DEF FlushReceiveFails
  <2>2. QED
    BY <1>16, <2>1 DEF FlushReceiveFails
<1>17. CASE WriteTrailer
  <2>1. file' \in File
    <3>1. [file EXCEPT !.trailer = TRUE] \in File
      BY <1>a DEF File
    <3>2. file' = file \/ file' = [file EXCEPT !.trailer = TRUE]
      BY <1>17 DEF WriteTrailer
    <3>3. QED
      BY <1>a, <3>1, <3>2
  <2>2. QED
    BY <1>17, <2>1 DEF WriteTrailer
<1>18. CASE Release
  BY <1>18 DEF Release, Drop
<1>19. CASE Exit
  BY <1>19 DEF Exit
<1>20. CASE UNCHANGED vars
  BY <1>20 DEF vars
<1>21. QED
  BY <1>1, <1>2, <1>3, <1>4, <1>5, <1>6, <1>7, <1>8, <1>9, <1>10, <1>11,
     <1>12, <1>13, <1>14, <1>15, <1>16, <1>17, <1>18, <1>19, <1>20
     DEF Common, Reading, Encoding

\* Initially every variable has its type.
LEMMA TypeInit == Init => TypeOK /\ StageOK
<1> SUFFICES ASSUME Init PROVE TypeOK /\ StageOK
  OBVIOUS
<1>1. at = "setup" /\ at \in Labels /\ ret = 0 /\ stage = 1 /\ reads = 0
  BY DEF Init, Labels
<1>2. stage \in 1 .. Len(Setup) + 1 /\ stage <= Len(Setup)
  BY <1>1, SetupType
<1>3. enc \in Encoder
  BY NewEncoderType DEF Init
<1>4. file \in File
  BY DEF Init, File
<1>5. dec \in Seq(Nat \ {0}) /\ nframes = 0 /\ fifo \in Samples
      /\ frame \in Samples /\ held = {} /\ drop = TRUE
  BY DEF Init, Samples
<1>6. QED
  BY <1>1, <1>2, <1>3, <1>4, <1>5, MaxPacketsAssumption DEF TypeOK, StageOK

-------------------------------------------------------------------------------
(* Safety of the encoding.  What must hold after the loop (SwrEmptied) and    *)
(* at a send (EncoderReady, ShortFrameIsLast) follows from what each          *)
(* statement leaves behind.                                                  *)

\* The encoder has no input to work on and its stream is open.
Quiet(e) == ~e.draining /\ ~e.done /\ e.frame = << >>

\* Up to the sending of a frame.
BeforeSend ==
  {"setup", "read", "send_packet", "receive_frame", "drain", "send_frame",
   "final", "final_send"}

\* What the statements that encode rely on, whichever tool they are part of.
EncoderInv ==
  /\ at \in BeforeSend => Quiet(enc) /\ enc.pkt = << >>
  /\ at \in {"receive_packet", "flush"} => Quiet(enc)

FrameInv ==
  /\ at = "send_frame" => Len(frame) = FrameSize
  /\ at = "final" => Len(fifo) <= FrameSize
  /\ at = "final_send" => Len(frame) <= FrameSize

FullInv ==
  at \in BeforeSend \cup {"receive_packet"} /\ enc.number > 0
    => Len(enc.new) = FrameSize

CodingInv == EncoderInv /\ FrameInv /\ FullInv /\ SwrEmptied

\* A quiet encoder with no packet waiting consumes the frame it is sent.
LEMMA SendFrameQuiet ==
  ASSUME NEW e \in Encoder, NEW f \in Samples, Quiet(e), e.pkt = << >>
  PROVE  Quiet(SendFrame(e, f)) /\ SendFrame(e, f).new = f
<1> DEFINE q == [e EXCEPT !.frame = << f >>]
<1>1. /\ q \in Encoder /\ q.frame = << f >> /\ q.frame # << >>
      /\ q.pkt = << >> /\ ~q.draining /\ ~q.done
  BY OneElement DEF Encoder, Quiet
<1> HIDE DEF q
<1>2. WorkIfIdle(q) = EncodeFrame(q)
  BY <1>1 DEF WorkIfIdle, Work
<1>3. /\ EncodeFrame(q).frame = << >> /\ EncodeFrame(q).new = f
      /\ EncodeFrame(q).draining = q.draining /\ EncodeFrame(q).done = q.done
  BY <1>1 DEF EncodeFrame, Emit, Encoder
<1>4. SendFrame(e, f) = WorkIfIdle(q)
  BY DEF SendFrame, q
<1>5. QED
  BY <1>1, <1>2, <1>3, <1>4 DEF Quiet

\* Fetching from a quiet encoder leaves it quiet, without a packet, and with
\* the same last frame.
LEMMA ReceivedQuiet ==
  ASSUME NEW e \in Encoder, Quiet(e)
  PROVE  /\ Quiet(Received(e)) /\ Received(e).pkt = << >>
         /\ Received(e).new = e.new /\ Received(e).number = e.number
<1>1. WorkIfIdle(e) = e
  BY DEF WorkIfIdle, Work, Quiet
<1>2. QED
  BY <1>1 DEF Received, Quiet, Encoder

\* A new encoder is ready.
LEMMA CodingInit == Init => CodingInv
  BY FrameSizeAssumption
  DEF Init, CodingInv, EncoderInv, FrameInv, FullInv, SwrEmptied,
      NewEncoder, Quiet

\* The common steps preserve what encoding relies on.
LEMMA CodingCommon == TypeOK /\ StageOK /\ CodingInv /\ Common => CodingInv'
<1> SUFFICES ASSUME TypeOK, StageOK, CodingInv, Common PROVE CodingInv'
  OBVIOUS
<1>a. fifo \in Samples /\ frame \in Samples /\ enc \in Encoder
  BY DEF TypeOK
<1>b. FrameSize \in Nat \ {0} /\ Len(fifo) \in Nat
  BY <1>a, FrameSizeAssumption DEF Samples
<1> USE DEF CodingInv, EncoderInv, FrameInv, FullInv, SwrEmptied,
            BeforeSend, Goto, Return, own, conv, out
<1>1. CASE SetupOk
  BY <1>1, <1>b DEF SetupOk
<1>2. CASE SetupFails
  BY <1>2 DEF SetupFails
<1>3. CASE ReadOther
  BY <1>3 DEF ReadOther
<1>4. CASE ReadAudio
  BY <1>4 DEF ReadAudio
<1>5. CASE SendPacket
  BY <1>5 DEF SendPacket
<1>6. CASE SendPacketFails
  BY <1>6 DEF SendPacketFails
<1>7. CASE DrainFrame
  <2>1. Len(frame') = FrameSize
    BY <1>7, <1>a, <1>b, ConvertLengths DEF DrainFrame
  <2>2. QED
    BY <1>7, <2>1 DEF DrainFrame
<1>8. CASE SendEncodeFrame
  <2>1. Quiet(SendFrame(enc, frame)) /\ SendFrame(enc, frame).new = frame
    BY <1>8, <1>a, SendFrameQuiet DEF SendEncodeFrame
  <2>2. QED
    BY <1>8, <2>1 DEF SendEncodeFrame, Send
<1>9. CASE ReceivePacket
  <2>1. /\ Quiet(enc') /\ enc'.pkt = << >>
        /\ enc'.new = enc.new /\ enc'.number = enc.number
    BY <1>9, <1>a, ReceivedQuiet DEF ReceivePacket, Receive
  <2>2. at' \in {"receive_packet", "destroy"}
    BY <1>9 DEF ReceivePacket, Receive
  <2>3. QED
    BY <1>9, <2>1, <2>2 DEF ReceivePacket, Receive
<1>10. CASE PacketsWritten
  <2>1. /\ Quiet(enc') /\ enc'.pkt = << >>
        /\ enc'.new = enc.new /\ enc'.number = enc.number
    BY <1>10, <1>a, ReceivedQuiet DEF PacketsWritten, NoMorePackets
  <2>2. QED
    BY <1>10, <2>1 DEF PacketsWritten, NoMorePackets
<1>11. CASE FinalConvert
  <2>1. Len(frame') <= FrameSize /\ fifo' = << >>
    BY <1>11, <1>a, <1>b, ConvertLengths DEF FinalConvert
  <2>2. QED
    BY <1>11, <2>1 DEF FinalConvert
<1>12. CASE FinalSend
  <2>1. Quiet(SendFrame(enc, frame))
    BY <1>12, <1>a, SendFrameQuiet DEF FinalSend
  <2>2. QED
    BY <1>12, <2>1 DEF FinalSend, Send
<1>13. CASE Flush
  BY <1>13 DEF Flush
<1>14. CASE FlushReceive
  BY <1>14 DEF FlushReceive, Receive
<1>15. CASE FlushDone
  BY <1>15 DEF FlushDone, NoMorePackets
<1>16. CASE FlushReceiveFails
  BY <1>16 DEF FlushReceiveFails
<1>17. CASE WriteTrailer
  BY <1>17 DEF WriteTrailer
<1>18. CASE Release
  BY <1>18 DEF Release
<1>19. CASE Exit
  BY <1>19 DEF Exit
<1>20. CASE UNCHANGED vars
  BY <1>20 DEF vars
<1>21. QED
  BY <1>1, <1>2, <1>3, <1>4, <1>5, <1>6, <1>7, <1>8, <1>9, <1>10, <1>11,
     <1>12, <1>13, <1>14, <1>15, <1>16, <1>17, <1>18, <1>19, <1>20
     DEF Common, Reading, Encoding

-------------------------------------------------------------------------------
(* What the encoder holds.                                                   *)

\* The n samples after sample b.
Run(b, n) == [i \in 1 .. n |-> b + i]

\* The frame after sample b of a stream of s samples that are numbered from
\* o + 1.  The frame before the first one is the priming of the encoder.
Coded(o, b, s) ==
  IF b < 0 \/ s <= b THEN Silence
  ELSE Run(o + b, IF s - b < FrameSize THEN s - b ELSE FrameSize)

\* Where the frame in e.old starts if the next packet starts at b.
Start(e, b) == IF e.pkt = << >> THEN b ELSE b + FrameSize

\* The encoder e was sent the s samples of a stream and handed out those up to
\* b: what it holds are the next frames, in the packet that waits, in old and
\* in new, and it owes the samples from old on.
Queued(e, o, b, s) ==
  LET c == Start(e, b)
  IN  /\ e.pkt # << >> => e.pkt = << Coded(o, b, s) >> /\ b < s
      /\ e.old = Coded(o, c, s) /\ e.new = Coded(o, c + FrameSize, s)
      /\ e.remaining = IF s <= c THEN 0 ELSE s - c
      /\ s <= c + FrameSize + FrameSize
      /\ e.number = 0 <=> s = 0
      /\ e.number = 0 => e.pkt = << >> /\ b = -FrameSize
      /\ e.done => e.pkt = << >> /\ (s = 0 \/ s <= b)

\* A stream has no sample past its end.
LEMMA CodedPastEnd ==
  ASSUME NEW o \in Nat, NEW b \in Int, NEW s \in Nat, s <= b
  PROVE  Coded(o, b, s) = Silence
  BY DEF Coded

\* A frame that is full does not change when the stream grows.
LEMMA CodedFull ==
  ASSUME NEW o \in Nat, NEW b \in Int, NEW s \in Nat, NEW t \in Nat,
         b + FrameSize <= s, s <= t
  PROVE  Coded(o, b, t) = Coded(o, b, s)
  BY FrameSizeAssumption DEF Coded

\* Emit hands out the frame at b and moves on to the next one.
LEMMA EmitQueued ==
  ASSUME NEW q \in Encoder, NEW o \in Nat, NEW b \in Int, NEW s \in Nat \ {0},
         q.number > 0, ~q.done, b < s, s <= b + FrameSize + FrameSize + FrameSize,
         q.old = Coded(o, b, s), q.mid = Coded(o, b + FrameSize, s),
         q.new = Coded(o, b + FrameSize + FrameSize, s), q.remaining = s - b
  PROVE  Queued(Emit(q), o, b, s) /\ Start(Emit(q), b) = b + FrameSize
<1>1. /\ Emit(q).pkt = << q.old >> /\ Emit(q).old = q.mid /\ Emit(q).new = q.new
      /\ Emit(q).remaining = IF q.remaining < FrameSize THEN 0 ELSE q.remaining - FrameSize
      /\ Emit(q).number = q.number /\ Emit(q).done = q.done
  BY DEF Emit, Encoder
<1>2. << q.old >> # << >>
  OBVIOUS
<1>3. Start(Emit(q), b) = b + FrameSize
  BY <1>1, <1>2 DEF Start
<1>4. Emit(q).remaining = IF s <= b + FrameSize THEN 0 ELSE s - (b + FrameSize)
  BY <1>1, FrameSizeAssumption
<1>5. QED
  BY <1>1, <1>2, <1>3, <1>4, FrameSizeAssumption DEF Queued, Encoder

\* The encoder takes in the frame f after the full frames before it.
LEMMA SendFrameQueued ==
  ASSUME NEW e \in Encoder, NEW o \in Nat, NEW b \in Int, NEW s \in Nat,
         NEW n \in 1 .. FrameSize,
         Quiet(e), e.pkt = << >>, Queued(e, o, b, s),
         e.number > 0 => s = b + FrameSize + FrameSize
  PROVE  LET r == SendFrame(e, Run(o + s, n))
         IN  /\ Queued(r, o, b, s + n) /\ r.number > 0
             /\ s + n = Start(r, b) + FrameSize + n
<1> DEFINE f == Run(o + s, n)
           q == [e EXCEPT !.frame = << f >>]
           p == [e EXCEPT !.frame = << >>, !.mid = e.new, !.new = f,
                          !.number = @ + 1, !.remaining = @ + n]
<1>a. FrameSize \in Nat /\ FrameSize > 0 /\ n \in Nat /\ n > 0 /\ n <= FrameSize
  BY FrameSizeAssumption
<1>1. f \in Samples /\ Len(f) = n
  <2>1. f \in [1 .. n -> Nat]
    BY <1>a DEF Run
  <2>2. QED
    BY <2>1, <1>a DEF Samples
<1>2. /\ q \in Encoder /\ q.frame = << f >> /\ q.frame # << >>
      /\ q.pkt = << >> /\ ~q.draining /\ ~q.done
      /\ q.number = e.number /\ q.remaining = e.remaining /\ q.new = e.new
      /\ q.old = e.old
  BY <1>1, OneElement DEF Encoder, Quiet
<1>3. SendFrame(e, f) = EncodeFrame(q)
  <2> HIDE DEF q, f
  <2>1. WorkIfIdle(q) = EncodeFrame(q)
    BY <1>2 DEF WorkIfIdle, Work
  <2>2. QED
    BY <2>1 DEF SendFrame, q
<1>4. EncodeFrame(q) = IF e.number = 0 THEN p ELSE Emit(p)
  BY <1>1, <1>2 DEF EncodeFrame, Encoder
<1>5. /\ p \in Encoder /\ p.frame = << >> /\ p.mid = e.new /\ p.new = f
      /\ p.number = e.number + 1 /\ p.remaining = e.remaining + n
      /\ p.old = e.old /\ p.pkt = << >> /\ p.done = e.done
  <2>1. e.number + 1 \in Nat /\ e.remaining + n \in Nat /\ << >> \in Seq(Samples)
    BY <1>a DEF Encoder
  <2>2. QED
    BY <1>1, <2>1 DEF Encoder
<1> HIDE DEF q, p
<1>6. Start(e, b) = b
  BY DEF Start
<1>7. CASE e.number = 0
  <2>1. s = 0 /\ b = -FrameSize /\ SendFrame(e, f) = p /\ e.remaining = FrameSize
    BY <1>3, <1>4, <1>6, <1>7, <1>a DEF Queued
  <2>2. Start(p, b) = b
    BY <1>5 DEF Start
  <2>3. p.old = Coded(o, b, s + n) /\ p.new = Coded(o, b + FrameSize, s + n)
    <3>1. Coded(o, b, s) = Silence /\ Coded(o, b, s + n) = Silence
      BY <2>1, <1>a DEF Coded
    <3>2. Coded(o, b + FrameSize, s + n) = Run(o + s, n)
      BY <2>1, <1>a DEF Coded
    <3>3. QED
      BY <1>5, <1>6, <3>1, <3>2 DEF Queued
  <2>4. Queued(p, o, b, s + n)
    BY <1>5, <1>a, <2>1, <2>2, <2>3 DEF Queued, Encoder, Quiet
  <2>5. QED
    BY <1>5, <1>7, <1>a, <2>1, <2>2, <2>4
<1>8. CASE e.number # 0
  <2>1. e.number > 0 /\ e.number \in Nat /\ s = b + FrameSize + FrameSize /\ SendFrame(e, f) = Emit(p)
    BY <1>3, <1>4, <1>8 DEF Encoder
  <2>2. e.remaining = s - b /\ s # 0 /\ b < s
    BY <1>6, <1>8, <1>a, <2>1 DEF Queued
  <2>3. p.old = Coded(o, b, s + n) /\ p.mid = Coded(o, b + FrameSize, s + n)
    <3>1. /\ b \in Int /\ b + FrameSize \in Int /\ s + n \in Nat /\ s <= s + n
          /\ b + FrameSize <= s /\ (b + FrameSize) + FrameSize <= s
      BY <1>a, <2>1
    <3>2. /\ Coded(o, b, s + n) = Coded(o, b, s)
          /\ Coded(o, b + FrameSize, s + n) = Coded(o, b + FrameSize, s)
      BY <3>1, CodedFull
    <3>3. QED
      BY <1>5, <1>6, <3>2 DEF Queued
  <2>4. p.new = Coded(o, b + FrameSize + FrameSize, s + n)
    BY <1>5, <1>a, <2>1 DEF Coded
  <2>5. s + n \in Nat \ {0} /\ p.remaining = (s + n) - b /\ p.number > 0 /\ ~p.done
        /\ b < s + n /\ s + n <= b + FrameSize + FrameSize + FrameSize
    BY <1>5, <1>a, <2>1, <2>2 DEF Quiet
  <2>6. Queued(Emit(p), o, b, s + n) /\ Start(Emit(p), b) = b + FrameSize
    BY <1>5, <2>3, <2>4, <2>5, EmitQueued
  <2>7. Emit(p).number = p.number
    BY <1>5 DEF Emit, Encoder
  <2>8. QED
    BY <1>5, <1>a, <2>1, <2>5, <2>6, <2>7
<1>9. QED
  BY <1>7, <1>8

\* One attempt to produce a packet at the end of the stream: a packet is there
\* afterwards unless every sample was handed out before.
LEMMA WorkDraining ==
  ASSUME NEW e \in Encoder, NEW o \in Nat, NEW b \in Int, NEW s \in Nat,
         e.draining, e.frame = << >>, Queued(e, o, b, s)
  PROVE  LET r == WorkIfIdle(e)
         IN  /\ r \in Encoder /\ Queued(r, o, b, s) /\ r.draining /\ r.frame = << >>
             /\ r.failed = e.failed
             /\ r.pkt = << >> => s = 0 \/ s <= b
<1> DEFINE q == [e EXCEPT !.mid = e.new, !.new = Silence]
           d == [e EXCEPT !.done = TRUE]
<1>a. FrameSize \in Nat /\ FrameSize > 0
  BY FrameSizeAssumption
<1>1. WorkIfIdle(e) \in Encoder
  BY WorkType DEF WorkIfIdle
<1>2. CASE e.pkt # << >> \/ e.done
  BY <1>1, <1>2 DEF WorkIfIdle, Work, Queued
<1>3. CASE e.pkt = << >> /\ ~e.done /\ (e.remaining = 0 \/ e.number = 0)
  <2>1. WorkIfIdle(e) = d
    BY <1>3 DEF WorkIfIdle, Work, EncodeEnd
  <2>2. /\ d.pkt = << >> /\ d.old = e.old /\ d.new = e.new /\ d.done = TRUE
        /\ d.remaining = e.remaining /\ d.number = e.number /\ d.draining
        /\ d.frame = << >> /\ d.failed = e.failed
    BY <1>3 DEF Encoder
  <2>3. s = 0 \/ s <= b
    BY <1>3, <1>a DEF Queued, Start
  <2> HIDE DEF d
  <2>4. QED
    BY <1>1, <1>3, <2>1, <2>2, <2>3 DEF Queued, Start
<1>4. CASE e.pkt = << >> /\ ~e.done /\ e.remaining # 0 /\ e.number # 0
  <2>1. WorkIfIdle(e) = Emit(q)
    BY <1>4 DEF WorkIfIdle, Work, EncodeEnd
  <2>2. /\ q \in Encoder /\ q.old = e.old /\ q.mid = e.new /\ q.new = Silence
        /\ q.done = FALSE /\ q.remaining = e.remaining /\ q.number = e.number
        /\ q.draining /\ q.frame = << >> /\ q.failed = e.failed
    <3>1. Silence \in Samples
      BY DEF Samples, Silence
    <3>2. QED
      BY <1>4, <3>1 DEF Encoder
  <2>3. /\ e.old = Coded(o, b, s) /\ e.new = Coded(o, b + FrameSize, s)
        /\ e.remaining = s - b /\ b < s /\ s \in Nat \ {0}
        /\ s <= b + FrameSize + FrameSize /\ e.number > 0
    BY <1>4, <1>a DEF Queued, Start, Encoder
  <2>4. Coded(o, b + FrameSize + FrameSize, s) = Silence
    <3>1. b + FrameSize + FrameSize \in Int
      BY <1>a
    <3>2. QED
      BY <2>3, <3>1, CodedPastEnd
  <2>5. s <= b + FrameSize + FrameSize + FrameSize
    BY <1>a, <2>3
  <2> HIDE DEF q
  <2>6. Queued(Emit(q), o, b, s)
    BY <2>2, <2>3, <2>4, <2>5, EmitQueued
  <2>7. /\ Emit(q).draining = q.draining /\ Emit(q).frame = q.frame
        /\ Emit(q).failed = q.failed /\ Emit(q).pkt = << q.old >>
    BY <2>2 DEF Emit, Encoder
  <2>8. << q.old >> # << >>
    OBVIOUS
  <2>9. QED
    BY <1>1, <2>1, <2>2, <2>6, <2>7, <2>8
<1>5. QED
  BY <1>2, <1>3, <1>4

\* avcodec_send_frame(ctx, NULL) starts the end of the stream.
LEMMA SendEndQueued ==
  ASSUME NEW e \in Encoder, NEW o \in Nat, NEW b \in Int, NEW s \in Nat,
         Quiet(e), Queued(e, o, b, s)
  PROVE  /\ Queued(SendEnd(e), o, b, s)
         /\ SendEnd(e).draining /\ SendEnd(e).frame = << >>
         /\ SendEnd(e).failed = e.failed
<1> DEFINE q == [e EXCEPT !.draining = TRUE]
<1>1. /\ q \in Encoder /\ q.draining /\ q.frame = << >> /\ q.pkt = e.pkt
      /\ q.old = e.old /\ q.new = e.new /\ q.number = e.number
      /\ q.remaining = e.remaining /\ q.done = e.done /\ q.failed = e.failed
  BY DEF Encoder, Quiet
<1>2. SendEnd(e) = WorkIfIdle(q)
  BY DEF SendEnd
<1> HIDE DEF q
<1>3. Queued(q, o, b, s)
  BY <1>1 DEF Queued, Start
<1>4. QED
  BY <1>1, <1>2, <1>3, WorkDraining

\* avcodec_receive_packet hands out the frame at b, if there is a packet; r is
\* the encoder after its attempt to produce one.
LEMMA ReceivedQueued ==
  ASSUME NEW e \in Encoder, NEW o \in Nat, NEW b \in Int, NEW s \in Nat,
         WorkIfIdle(e) \in Encoder, Queued(WorkIfIdle(e), o, b, s), HasPacket(e)
  PROVE  /\ PacketOf(e) = Coded(o, b, s) /\ b < s
         /\ Queued(Received(e), o, b + FrameSize, s)
         /\ Start(Received(e), b + FrameSize) = Start(WorkIfIdle(e), b)
<1> DEFINE r == WorkIfIdle(e)
           q == [r EXCEPT !.pkt = << >>]
<1>1. r.pkt # << >> /\ r.pkt = << Coded(o, b, s) >> /\ b < s
  BY DEF HasPacket, Queued
<1>2. PacketOf(e) = Coded(o, b, s)
  BY <1>1 DEF PacketOf
<1>3. Received(e) = q
  BY DEF Received
<1> HIDE DEF r
<1>4. r \in Encoder /\ Queued(r, o, b, s)
  BY DEF r
<1>5. /\ q.pkt = << >> /\ q.old = r.old /\ q.new = r.new /\ q.number = r.number
      /\ q.remaining = r.remaining /\ q.done = r.done
  BY <1>4 DEF Encoder
<1> HIDE DEF q
<1>6. Start(r, b) = b + FrameSize /\ Start(q, b + FrameSize) = b + FrameSize
  BY <1>1, <1>5 DEF Start
<1>7. r.number # 0 /\ ~r.done
  BY <1>1, <1>4 DEF Queued
<1>8. Queued(q, o, b + FrameSize, s)
  BY <1>4, <1>5, <1>6, <1>7 DEF Queued
<1>9. QED
  BY <1>1, <1>2, <1>3, <1>6, <1>8 DEF r
-------------------------------------------------------------------------------
(* The way of the samples.  The stream of T samples, numbered from o + 1, lies *)
(* in the file, the encoder, the frame on its way there and swr, one after     *)
(* the other and without a gap.                                                *)

\* Samples written, as whole frames; the priming comes before the first one.
Base == IF drop THEN -FrameSize ELSE Len(file.packets) * FrameSize

Sending == at \in {"send_frame", "final_send"}

\* Samples the encoder was sent.
Sent(T) == T - Len(fifo) - (IF Sending THEN Len(frame) ELSE 0)

\* The labels of run between which samples move.
Moving == BeforeSend \cup {"receive_packet", "flush", "flush_receive"}

InFifo(o, T) == fifo = Run(o + T - Len(fifo), Len(fifo))

InFrame(o, T) == Sending => Len(frame) > 0 /\ frame = Run(o + Sent(T), Len(frame))

InEncoder(o, T) ==
  /\ Sent(T) \in Nat /\ Queued(enc, o, Base, Sent(T))
  /\ at # "flush" /\ at # "flush_receive" /\ enc.number > 0
       => Sent(T) = Start(enc, Base) + FrameSize + FrameSize
  /\ at = "flush_receive" => enc.draining /\ enc.frame = << >>

InFile(T) ==
  /\ drop => file.packets = << >>
  /\ ~enc.failed

\* A failed encoder ends the call; a drained one has given every sample back.
Flow(o, T) ==
  /\ at \in Moving => InFifo(o, T) /\ InFrame(o, T) /\ InEncoder(o, T) /\ InFile(T)
  /\ at = "trailer" /\ ~enc.failed => T <= Len(file.packets) * FrameSize

\* A packet more in the file is a frame more.
LEMMA OneMore ==
  ASSUME NEW n \in Nat
  PROVE  n * FrameSize \in Nat /\ (n + 1) * FrameSize = n * FrameSize + FrameSize
  BY FrameSizeAssumption

\* A sequence is a run if its elements follow each other.
LEMMA RunIs ==
  ASSUME NEW b, NEW n \in Nat, NEW q \in Seq(Nat), Len(q) = n,
         \A i \in 1 .. n : q[i] = b + i
  PROVE  q = Run(b, n)
  BY DEF Run

\* A run is a sequence.
LEMMA RunType ==
  ASSUME NEW b \in Nat, NEW n \in Nat
  PROVE  Run(b, n) \in Seq(Nat) /\ Len(Run(b, n)) = n
<1>1. Run(b, n) \in [1 .. n -> Nat]
  BY DEF Run
<1>2. QED
  BY <1>1, FunctionIsSeq

\* Taking the first k samples of a run leaves a run.
LEMMA RunCut ==
  ASSUME NEW b \in Nat, NEW n \in Nat, NEW k \in 0 .. n
  PROVE  /\ Run(b, n) \in Seq(Nat) /\ Len(Run(b, n)) = n
         /\ SubSeq(Run(b, n), 1, k) = Run(b, k)
         /\ SubSeq(Run(b, n), k + 1, n) = Run(b + k, n - k)
<1> DEFINE r == Run(b, n)
           m == k + 1
<1>2. r \in Seq(Nat) /\ Len(r) = n
  BY RunType
<1>3. \A i \in 1 .. n : r[i] = b + i /\ r[i] \in Nat
  BY DEF Run
<1>4. /\ m \in Int /\ (m <= n => n - m + 1 = n - k) /\ (~(m <= n) => n - k = 0)
      /\ n - m + 1 = n - k /\ k - 1 + 1 = k /\ (~(1 <= k) => k = 0)
      /\ \A i \in m .. n : i \in 1 .. n
      /\ \A i \in 1 .. k : i \in 1 .. n /\ 1 + i - 1 = i
      /\ \A i \in 1 .. n - k : m + i - 1 = k + i /\ k + i \in 1 .. n /\ b + (k + i) = b + k + i
  OBVIOUS
<1> HIDE DEF r, m
<1>5. SubSeq(r, 1, k) = Run(b, k)
  <2>1. /\ SubSeq(r, 1, k) \in Seq(Nat) /\ Len(SubSeq(r, 1, k)) = k
        /\ \A i \in 1 .. k : SubSeq(r, 1, k)[i] = b + i
    BY <1>2, <1>3, <1>4, SubSeqProperties
  <2>2. k \in Nat
    OBVIOUS
  <2>3. QED
    BY <2>1, <2>2, RunIs
<1>6. SubSeq(r, m, n) = Run(b + k, n - k)
  <2>1. /\ SubSeq(r, m, n) \in Seq(Nat) /\ Len(SubSeq(r, m, n)) = n - k
        /\ \A i \in 1 .. n - k : SubSeq(r, m, n)[i] = r[m + i - 1]
    BY <1>2, <1>3, <1>4, SubSeqProperties
  <2>2. ASSUME NEW i \in 1 .. n - k PROVE SubSeq(r, m, n)[i] = b + k + i
    <3>1. m + i - 1 = k + i /\ k + i \in 1 .. n /\ b + (k + i) = b + k + i
      BY <1>4
    <3>2. QED
      BY <1>3, <2>1, <3>1
  <2>3. n - k \in Nat /\ b + k \in Nat
    OBVIOUS
  <2>4. QED
    BY <2>1, <2>2, <2>3, RunIs
<1>7. QED
  BY <1>2, <1>5, <1>6 DEF r, m

\* A run continued.
LEMMA RunJoin ==
  ASSUME NEW b \in Nat, NEW n \in Nat, NEW k \in Nat
  PROVE  Run(b, n) \o Run(b + n, k) = Run(b, n + k)
<1> DEFINE p == Run(b, n)
           q == Run(b + n, k)
<1>1. p \in Seq(Nat) /\ Len(p) = n /\ q \in Seq(Nat) /\ Len(q) = k
  <2>1. b + n \in Nat
    OBVIOUS
  <2>2. QED
    BY <2>1, RunType
<1>2. /\ \A i \in 1 .. n : p[i] = b + i
      /\ \A i \in 1 .. k : q[i] = b + n + i
  BY DEF Run
<1> HIDE DEF p, q
<1>3. /\ p \o q \in Seq(Nat) /\ Len(p \o q) = n + k
      /\ \A i \in 1 .. n + k : (p \o q)[i] = IF i <= n THEN p[i] ELSE q[i - n]
  BY <1>1, ConcatProperties
<1>4. ASSUME NEW i \in 1 .. n + k PROVE (p \o q)[i] = b + i
  <2>1. CASE i <= n
    BY <1>2, <1>3, <2>1
  <2>2. CASE ~(i <= n)
    <3>1. i - n \in 1 .. k /\ b + n + (i - n) = b + i
      BY <2>2
    <3>2. QED
      BY <1>2, <1>3, <2>2, <3>1
  <2>3. QED
    BY <2>1, <2>2
<1>5. n + k \in Nat
  OBVIOUS
<1>6. p \o q = Run(b, n + k)
  BY <1>3, <1>4, <1>5, RunIs
<1>7. QED
  BY <1>6 DEF p, q

\* swr_convert moves the next samples of the stream into the frame.
LEMMA ConvertFlow ==
  ASSUME NEW o \in Nat, NEW T \in Nat, fifo \in Samples, Len(fifo) <= T,
         InFifo(o, T), Convert
  PROVE  LET n == IF Len(fifo) < FrameSize THEN Len(fifo) ELSE FrameSize
         IN  /\ frame' = Run(o + T - Len(fifo), n) /\ Len(frame') = n
             /\ Len(fifo') = Len(fifo) - n
             /\ InFifo(o, T)'
<1> DEFINE l == Len(fifo)
           n == IF l < FrameSize THEN l ELSE FrameSize
           b == o + T - l
<1>1. l \in Nat /\ n \in 0 .. l /\ n \in Nat /\ b \in Nat
  BY FrameSizeAssumption DEF Samples
<1>2. fifo = Run(b, l)
  BY DEF InFifo
<1>3. frame' = SubSeq(fifo, 1, n) /\ fifo' = SubSeq(fifo, n + 1, l)
  BY DEF Convert
<1>4. b + n \in Nat /\ l - n \in Nat /\ o + T - (l - n) = b + n
  BY <1>1
<1> HIDE DEF l, n, b
<1>5. frame' = Run(b, n) /\ fifo' = Run(b + n, l - n)
  BY <1>1, <1>2, <1>3, RunCut
<1>6. Len(frame') = n /\ Len(fifo') = l - n
  BY <1>1, <1>4, <1>5, RunType
<1>7. InFifo(o, T)'
  BY <1>4, <1>5, <1>6 DEF InFifo
<1>8. QED
  BY <1>5, <1>6, <1>7 DEF l, n, b

\* What a statement that moves samples works on.
LEMMA FlowFacts ==
  ASSUME NEW T \in Nat, TypeOK, Sent(T) \in Nat
  PROVE  /\ Len(fifo) \in Nat /\ Len(frame) \in Nat /\ Len(file.packets) \in Nat
         /\ Len(fifo) <= T /\ Base \in Int
         /\ FrameSize \in Nat /\ FrameSize > 0
<1>1. FrameSize \in Nat /\ FrameSize > 0
  BY FrameSizeAssumption
<1>2. Len(fifo) \in Nat /\ Len(frame) \in Nat /\ Len(file.packets) \in Nat
  BY DEF TypeOK, Samples, File
<1>3. Len(fifo) <= T
  BY <1>2 DEF Sent
<1>4. Base \in Int
  BY <1>1, <1>2, OneMore DEF Base
<1>5. QED
  BY <1>1, <1>2, <1>3, <1>4

\* The steps that leave the samples where they are.
LEMMA FlowStays ==
  ASSUME NEW o \in Nat, NEW T \in Nat, Flow(o, T),
         at \in BeforeSend, ~Sending, at' \in BeforeSend, ~Sending',
         fifo' = fifo, enc' = enc, drop' = drop, file'.packets = file.packets
  PROVE  Flow(o, T)'
  BY DEF Flow, InFifo, InFrame, InEncoder, InFile, Sent, Base, Moving,
         BeforeSend

\* The step that gives swr the samples of a frame.
LEMMA FlowAccepts ==
  ASSUME NEW o \in Nat, NEW T \in Nat, NEW k \in Nat, TypeOK, Flow(o, T),
         at = "receive_frame", at' = "receive_frame",
         fifo' = fifo \o Run(o + T, k),
         enc' = enc, drop' = drop, file'.packets = file.packets
  PROVE  Flow(o, T + k)'
<1>1. InFifo(o, T) /\ InEncoder(o, T) /\ InFile(T)
  BY DEF Flow, Moving, BeforeSend
<1>2. Sent(T) \in Nat /\ Sent(T) = T - Len(fifo) /\ ~Sending /\ ~Sending'
  BY <1>1, FlowFacts DEF InEncoder, Sent, Sending
<1> DEFINE l == Len(fifo)
           b == o + T - l
<1>3. l \in Nat /\ b \in Nat /\ b + l = o + T
  BY <1>1, <1>2, FlowFacts
<1>4. fifo' = Run(b, l + k)
  <2>1. fifo = Run(b, l)
    BY <1>1 DEF InFifo
  <2> HIDE DEF b, l
  <2>2. Run(b, l) \o Run(b + l, k) = Run(b, l + k)
    BY <1>3, RunJoin
  <2>3. QED
    BY <1>3, <2>1, <2>2
<1>5. Len(fifo') = l + k
  <2> HIDE DEF b, l
  <2>1. l + k \in Nat
    BY <1>3
  <2>2. QED
    BY <1>3, <1>4, <2>1, RunType
<1>6. InFifo(o, T + k)'
  <2>1. o + (T + k) - Len(fifo') = b
    <3>1. o + (T + k) - (l + k) = o + T - l
      BY <1>3
    <3>2. QED
      BY <1>5, <3>1
  <2>2. QED
    BY <1>4, <1>5, <2>1 DEF InFifo
<1>7. Sent(T + k)' = Sent(T) /\ Base' = Base
  <2>1. Sent(T + k)' = T + k - Len(fifo') - 0
    BY <1>2 DEF Sent
  <2>2. T + k - (l + k) - 0 = T - l
    BY <1>3
  <2>3. QED
    BY <1>2, <1>5, <2>1, <2>2 DEF Base
<1>8. InEncoder(o, T + k)'
  BY <1>1, <1>2, <1>7 DEF InEncoder
<1>9. InFrame(o, T + k)' /\ InFile(T + k)'
  BY <1>1, <1>2 DEF InFrame, InFile
<1>10. QED
  BY <1>6, <1>8, <1>9 DEF Flow

\* The drain loop and the last swr_convert.
LEMMA FlowTakes ==
  ASSUME NEW o \in Nat, NEW T \in Nat, TypeOK, CodingInv, Flow(o, T),
         DrainFrame \/ FinalConvert
  PROVE  Flow(o, T)'
<1>1. /\ at \in Moving /\ ~Sending /\ Convert
      /\ enc' = enc /\ drop' = drop /\ file' = file
  BY DEF DrainFrame, FinalConvert, Moving, BeforeSend, Sending, out
<1>2. InFifo(o, T) /\ InEncoder(o, T) /\ InFile(T)
  BY <1>1 DEF Flow
<1>3. Sent(T) = T - Len(fifo) /\ Sent(T) \in Nat
  BY <1>1, <1>2 DEF Sent, InEncoder, TypeOK, Samples
<1>4. /\ Len(fifo) \in Nat /\ Len(fifo) <= T /\ FrameSize \in Nat /\ FrameSize > 0
      /\ fifo \in Samples
  BY <1>3, FlowFacts DEF TypeOK
<1> DEFINE n == IF Len(fifo) < FrameSize THEN Len(fifo) ELSE FrameSize
<1>5. /\ frame' = Run(o + T - Len(fifo), n) /\ Len(frame') = n
      /\ Len(fifo') = Len(fifo) - n
      /\ InFifo(o, T)'
  BY <1>1, <1>2, <1>4, ConvertFlow
<1>6. CASE at' = "destroy"
  BY <1>6 DEF Flow, Moving, BeforeSend
<1>7. CASE at' \in {"send_frame", "final_send"}
  <2>1. n > 0
    BY <1>4, <1>7 DEF DrainFrame, FinalConvert, Goto, Return, TypeOK, Samples
  <2>2. Sent(T)' = Sent(T) /\ Sending'
    <3>1. Sending'
      BY <1>7 DEF Sending
    <3>2. Sent(T)' = T - Len(fifo') - Len(frame')
      BY <3>1 DEF Sent
    <3>3. n \in Nat
      BY <1>4
    <3> HIDE DEF n
    <3>4. T - (Len(fifo) - n) - n = T - Len(fifo)
      BY <1>4, <3>3
    <3>5. QED
      BY <1>3, <1>5, <3>1, <3>2, <3>4
  <2>3. InFrame(o, T)'
    BY <1>3, <1>5, <2>1, <2>2 DEF InFrame
  <2>4. InEncoder(o, T)'
    BY <1>1, <1>2, <1>7, <2>2 DEF InEncoder, Base, DrainFrame, FinalConvert
  <2>5. InFile(T)'
    BY <1>1, <1>2 DEF InFile
  <2>6. QED
    BY <1>5, <1>7, <2>3, <2>4, <2>5 DEF Flow
<1>8. CASE at' = "flush"
  <2>1. at = "final" /\ fifo = << >>
    BY <1>8 DEF DrainFrame, FinalConvert, Goto, Return
  <2>2. Sent(T)' = Sent(T) /\ ~Sending'
    BY <1>3, <1>4, <1>5, <1>8, <2>1 DEF Sent, Sending
  <2>3. InEncoder(o, T)'
    BY <1>1, <1>2, <1>8, <2>2 DEF InEncoder, Base
  <2>4. InFrame(o, T)' /\ InFile(T)'
    BY <1>1, <1>2, <2>2 DEF InFrame, InFile
  <2>5. QED
    BY <1>5, <1>8, <2>3, <2>4 DEF Flow
<1>9. QED
  BY <1>6, <1>7, <1>8 DEF DrainFrame, FinalConvert, Goto, Return

\* A frame is sent.
LEMMA FlowSends ==
  ASSUME NEW o \in Nat, NEW T \in Nat, TypeOK, CodingInv, Flow(o, T),
         SendEncodeFrame \/ FinalSend
  PROVE  Flow(o, T)'
<1>1. /\ at \in Moving /\ Sending /\ at \in BeforeSend
      /\ fifo' = fifo /\ drop' = drop /\ file' = file
  BY DEF SendEncodeFrame, FinalSend, Send, Moving, BeforeSend, Sending, conv
<1>2. InFifo(o, T) /\ InEncoder(o, T) /\ InFile(T) /\ InFrame(o, T)
  BY <1>1 DEF Flow
<1> DEFINE n == Len(frame)
           s == Sent(T)
<1>3. /\ s \in Nat /\ n \in 1 .. FrameSize /\ frame = Run(o + s, n)
      /\ at = "send_frame" => n = FrameSize
  <2>1. n \in Nat /\ FrameSize \in Nat
    BY FrameSizeAssumption DEF TypeOK, Samples
  <2>2. QED
    BY <1>1, <1>2, <2>1 DEF InEncoder, InFrame, CodingInv, FrameInv, Sending
<1>4. s = T - Len(fifo) - n /\ Len(fifo) \in Nat /\ Base \in Int /\ n \in Nat
  BY <1>1, <1>3, FlowFacts DEF Sent
<1>5. CASE at' = "destroy"
  BY <1>5 DEF Flow, Moving, BeforeSend
<1>6. CASE at' \in {"receive_packet", "flush"} /\ enc' = SendFrame(enc, frame)
  <2>1. /\ enc \in Encoder /\ Quiet(enc) /\ enc.pkt = << >> /\ Queued(enc, o, Base, s)
        /\ enc.number > 0 => s = Base + FrameSize + FrameSize
    BY <1>1, <1>2 DEF TypeOK, CodingInv, EncoderInv, InEncoder, Start, BeforeSend
  <2> HIDE DEF n, s
  <2>2. /\ Queued(enc', o, Base, s + n) /\ enc'.number > 0
        /\ s + n = Start(enc', Base) + FrameSize + n
    <3>1. enc' = SendFrame(enc, Run(o + s, n))
      BY <1>3, <1>6
    <3>2. /\ s \in Nat /\ n \in 1 .. FrameSize /\ Base \in Int
          /\ enc \in Encoder /\ Quiet(enc) /\ enc.pkt = << >>
          /\ Queued(enc, o, Base, s)
          /\ enc.number > 0 => s = Base + FrameSize + FrameSize
      BY <1>3, <1>4, <2>1
    <3>3. LET r == SendFrame(enc, Run(o + s, n))
          IN  /\ Queued(r, o, Base, s + n) /\ r.number > 0
              /\ s + n = Start(r, Base) + FrameSize + n
      BY <3>2, SendFrameQueued
    <3>4. QED
      BY <3>1, <3>3
  <2>3. Sent(T)' = s + n /\ ~Sending' /\ Base' = Base
    <3>1. Sent(T)' = T - Len(fifo)
      BY <1>1, <1>4, <1>6 DEF Sent, Sending
    <3>2. QED
      BY <1>1, <1>3, <1>4, <1>6, <3>1 DEF Sending, Base
  <2>4. at' = "receive_packet" => n = FrameSize
    BY <1>3, <1>6 DEF SendEncodeFrame, FinalSend, Send, Goto, Return
  <2>5. InEncoder(o, T)'
    <3>1. Queued(enc', o, Base', Sent(T)') /\ Sent(T)' \in Nat
      BY <1>3, <1>4, <2>2, <2>3
    <3>2. at' # "flush" => Sent(T)' = Start(enc', Base') + FrameSize + FrameSize
      BY <1>6, <2>2, <2>3, <2>4
    <3>3. QED
      BY <1>6, <3>1, <3>2 DEF InEncoder
  <2>6. enc'.failed = enc.failed
    BY <1>6, <2>1 DEF SendFrame, WorkIfIdle, Work, EncodeFrame, EncodeEnd, Emit, Encoder
  <2>7. InFifo(o, T)' /\ InFrame(o, T)' /\ InFile(T)'
    BY <1>1, <1>2, <2>3, <2>6 DEF InFifo, InFrame, InFile
  <2>8. QED
    BY <1>6, <2>5, <2>7 DEF Flow
<1>7. QED
  BY <1>5, <1>6 DEF SendEncodeFrame, FinalSend, Send, Goto, Return

\* The encoder when its packets are fetched.
LEMMA FlowEncoder ==
  ASSUME NEW o \in Nat, NEW T \in Nat, TypeOK, CodingInv, Flow(o, T),
         at \in {"receive_packet", "flush_receive"}
  PROVE  LET r == WorkIfIdle(enc)
         IN  /\ r \in Encoder /\ Queued(r, o, Base, Sent(T)) /\ ~r.failed
             /\ at = "receive_packet" => r = enc
             /\ at = "flush_receive" =>
                  /\ r.draining /\ r.frame = << >>
                  /\ r.pkt = << >> => Sent(T) = 0 \/ Sent(T) <= Base
             /\ Sent(T) \in Nat /\ Base \in Int /\ Sent(T) = T - Len(fifo) /\ Sent(T) <= T
             /\ drop => file.packets = << >>
<1>1. InEncoder(o, T) /\ InFile(T) /\ enc \in Encoder
  BY DEF Flow, Moving, TypeOK
<1>2. /\ Sent(T) \in Nat /\ Base \in Int /\ Sent(T) = T - Len(fifo) /\ Sent(T) <= T
      /\ Queued(enc, o, Base, Sent(T))
  <2>1. Sent(T) \in Nat /\ Queued(enc, o, Base, Sent(T))
    BY <1>1 DEF InEncoder
  <2>2. Len(fifo) \in Nat /\ Base \in Int
    BY <2>1, FlowFacts
  <2>3. Sent(T) = T - Len(fifo)
    BY <2>2 DEF Sent, Sending
  <2>4. QED
    BY <2>1, <2>2, <2>3
<1>3. CASE at = "receive_packet"
  <2>1. WorkIfIdle(enc) = enc
    BY <1>3 DEF CodingInv, EncoderInv, Quiet, WorkIfIdle, Work
  <2>2. QED
    BY <1>1, <1>2, <1>3, <2>1 DEF InFile
<1>4. CASE at = "flush_receive"
  <2>1. enc.draining /\ enc.frame = << >>
    BY <1>1, <1>4 DEF InEncoder
  <2>2. LET r == WorkIfIdle(enc)
        IN  /\ r \in Encoder /\ Queued(r, o, Base, Sent(T)) /\ r.draining /\ r.frame = << >>
            /\ r.failed = enc.failed
            /\ r.pkt = << >> => Sent(T) = 0 \/ Sent(T) <= Base
    BY <1>1, <1>2, <2>1, WorkDraining
  <2>3. QED
    BY <1>1, <1>2, <1>4, <2>2 DEF InFile
<1>5. QED
  BY <1>3, <1>4

\* The flags and the input of an encoder stay when its packet is fetched.
LEMMA ReceivedKeeps ==
  ASSUME NEW e, WorkIfIdle(e) \in Encoder
  PROVE  /\ Received(e).draining = WorkIfIdle(e).draining
         /\ Received(e).frame = WorkIfIdle(e).frame
         /\ Received(e).failed = WorkIfIdle(e).failed
         /\ Received(e).number = WorkIfIdle(e).number
         /\ WorkIfIdle(e).pkt = << >> => Received(e) = WorkIfIdle(e)
  BY DEF Received, Encoder

\* A packet is fetched, and dropped, written or lost in an error.
LEMMA FlowReceives ==
  ASSUME NEW o \in Nat, NEW T \in Nat, TypeOK, CodingInv, Flow(o, T),
         ReceivePacket \/ FlushReceive
  PROVE  Flow(o, T)'
<1> DEFINE r == WorkIfIdle(enc)
           s == Sent(T)
<1>1. /\ at \in {"receive_packet", "flush_receive"}
      /\ HasPacket(enc) /\ enc' = Received(enc) /\ fifo' = fifo
  BY DEF ReceivePacket, FlushReceive, Receive, conv
<1>2. /\ r \in Encoder /\ Queued(r, o, Base, s) /\ ~r.failed
      /\ at = "receive_packet" => r = enc
      /\ at = "flush_receive" => r.draining /\ r.frame = << >>
      /\ s \in Nat /\ Base \in Int /\ s = T - Len(fifo)
      /\ drop => file.packets = << >>
  BY <1>1, FlowEncoder
<1>3. InEncoder(o, T) /\ InFifo(o, T)
  BY <1>1 DEF Flow, Moving
<1>4. /\ Queued(enc', o, Base + FrameSize, s)
      /\ Start(enc', Base + FrameSize) = Start(r, Base)
  <2> HIDE DEF s
  <2>1. enc \in Encoder
    BY DEF TypeOK
  <2>2. r \in Encoder /\ Queued(r, o, Base, s) /\ HasPacket(enc) /\ s \in Nat /\ Base \in Int
    BY <1>1, <1>2
  <2>3. /\ Queued(Received(enc), o, Base + FrameSize, s)
        /\ Start(Received(enc), Base + FrameSize) = Start(r, Base)
    BY <2>1, <2>2, ReceivedQueued
  <2>4. QED
    BY <1>1, <2>3
<1>5. /\ enc'.draining = r.draining /\ enc'.frame = r.frame
      /\ enc'.failed = r.failed /\ enc'.number = r.number
  BY <1>1, <1>2, ReceivedKeeps
<1>6. CASE at' = "destroy"
  BY <1>6 DEF Flow, Moving, BeforeSend
<1>7. CASE at' = at
  <2>1. Base' = Base + FrameSize /\ (drop' => file'.packets = << >>)
    <3>1. CASE drop /\ drop' = FALSE /\ file' = file
      <4>1. Base = -FrameSize /\ Base' = Len(file.packets) * FrameSize
        BY <3>1 DEF Base
      <4>2. Len(file.packets) = 0 /\ 0 * FrameSize = 0
        BY <1>2, <3>1, FrameSizeAssumption
      <4>3. QED
        BY <3>1, <4>1, <4>2, FrameSizeAssumption
    <3>2. CASE ~drop /\ drop' = drop
               /\ file' = [file EXCEPT !.packets = Append(@, PacketOf(enc))]
      <4>1. file'.packets = Append(file.packets, PacketOf(enc))
        BY <3>2 DEF TypeOK, File
      <4>2. Len(file.packets) \in Nat /\ Len(file'.packets) = Len(file.packets) + 1
        BY <1>1, <4>1, EncoderTypes DEF TypeOK, File
      <4>3. QED
        BY <3>2, <4>2, OneMore DEF Base
    <3>3. QED
      <4>1. \/ drop /\ drop' = FALSE /\ file' = file
            \/ ~drop /\ drop' = drop
               /\ file' = [file EXCEPT !.packets = Append(@, PacketOf(enc))]
            \/ at' = "destroy"
        BY DEF ReceivePacket, FlushReceive, Receive, Return
      <4>2. at' # "destroy"
        BY <1>1, <1>7
      <4>3. QED
        BY <3>1, <3>2, <4>1, <4>2
  <2>2. Sent(T)' = s /\ ~Sending'
    BY <1>1, <1>2, <1>7 DEF Sent, Sending
  <2>3. InEncoder(o, T)'
    <3>1. Sent(T)' \in Nat /\ Queued(enc', o, Base', Sent(T)')
      BY <1>2, <1>4, <2>1, <2>2
    <3>2. at = "receive_packet" /\ enc'.number > 0
            => Sent(T)' = Start(enc', Base') + FrameSize + FrameSize
      BY <1>2, <1>3, <1>4, <1>5, <2>1, <2>2 DEF InEncoder
    <3>3. at = "flush_receive" => enc'.draining /\ enc'.frame = << >>
      BY <1>2, <1>5
    <3>4. QED
      BY <1>1, <1>7, <3>1, <3>2, <3>3 DEF InEncoder
  <2>4. InFifo(o, T)' /\ InFrame(o, T)' /\ InFile(T)'
    BY <1>1, <1>2, <1>3, <1>5, <2>1, <2>2 DEF InFifo, InFrame, InFile
  <2>5. QED
    BY <1>1, <1>7, <2>3, <2>4 DEF Flow
<1>8. QED
  BY <1>1, <1>6, <1>7 DEF ReceivePacket, FlushReceive, Receive, Goto, Return

\* There is no packet: the encoder wants more input, or has given all back.
LEMMA FlowNoPacket ==
  ASSUME NEW o \in Nat, NEW T \in Nat, TypeOK, CodingInv, Flow(o, T),
         PacketsWritten \/ FlushDone
  PROVE  Flow(o, T)'
<1> DEFINE r == WorkIfIdle(enc)
           s == Sent(T)
<1>1. /\ at \in {"receive_packet", "flush_receive"}
      /\ r.pkt = << >> /\ enc' = Received(enc)
      /\ fifo' = fifo /\ drop' = drop /\ file' = file
  BY DEF PacketsWritten, FlushDone, NoMorePackets, HasPacket, conv
<1>2. /\ r \in Encoder /\ ~r.failed
      /\ at = "receive_packet" => r = enc
      /\ at = "flush_receive" => s = 0 \/ s <= Base
      /\ s \in Nat /\ Base \in Int /\ s = T - Len(fifo)
      /\ drop => file.packets = << >>
  BY <1>1, FlowEncoder
<1>3. InEncoder(o, T) /\ InFifo(o, T)
  BY <1>1 DEF Flow, Moving
<1>4. enc' = r
  BY <1>1, <1>2, ReceivedKeeps
<1>5. CASE PacketsWritten
  <2>1. at = "receive_packet" /\ at' = "drain"
    BY <1>5 DEF PacketsWritten, NoMorePackets, Goto
  <2>2. Sent(T)' = s /\ ~Sending' /\ Base' = Base
    BY <1>1, <1>2, <2>1 DEF Sent, Sending, Base
  <2>3. InEncoder(o, T)'
    BY <1>2, <1>3, <1>4, <2>1, <2>2 DEF InEncoder
  <2>4. InFifo(o, T)' /\ InFrame(o, T)' /\ InFile(T)'
    BY <1>1, <1>2, <1>3, <1>4, <2>1, <2>2 DEF InFifo, InFrame, InFile
  <2>5. QED
    BY <2>1, <2>3, <2>4 DEF Flow
<1>6. CASE FlushDone
  <2>1. at = "flush_receive" /\ at' = "trailer"
    BY <1>6 DEF FlushDone, NoMorePackets, Goto
  <2>2. s = T
    <3>1. fifo = << >>
      BY <2>1 DEF CodingInv, SwrEmptied
    <3>2. QED
      BY <1>2, <3>1
  <2>3. T <= Len(file.packets) * FrameSize
    <3>1. Len(file.packets) \in Nat /\ FrameSize \in Nat /\ FrameSize > 0
      BY FrameSizeAssumption DEF TypeOK, File
    <3>2. Len(file.packets) * FrameSize \in Nat
      BY <3>1, OneMore
    <3>3. QED
      BY <1>2, <2>1, <2>2, <3>1, <3>2 DEF Base
  <2>4. QED
    BY <1>1, <2>1, <2>3 DEF Flow, Moving, BeforeSend
<1>7. QED
  BY <1>5, <1>6

\* The end of the stream is sent.
LEMMA FlowFlush ==
  ASSUME NEW o \in Nat, NEW T \in Nat, TypeOK, CodingInv, Flow(o, T), Flush
  PROVE  Flow(o, T)'
<1>1. at = "flush" /\ fifo' = fifo /\ drop' = drop /\ file' = file
  BY DEF Flush, conv
<1>2. InFifo(o, T) /\ InEncoder(o, T) /\ InFile(T)
  BY <1>1 DEF Flow, Moving
<1>3. CASE at' = "destroy"
  BY <1>3 DEF Flow, Moving, BeforeSend
<1>4. CASE at' = "flush_receive" /\ enc' = SendEnd(enc)
  <2>1. /\ Quiet(enc) /\ enc \in Encoder
        /\ Queued(enc, o, Base, Sent(T)) /\ Sent(T) \in Nat
    BY <1>1, <1>2 DEF CodingInv, EncoderInv, TypeOK, InEncoder
  <2>2. Base \in Int
    BY <2>1, FlowFacts
  <2>3. /\ Queued(enc', o, Base, Sent(T)) /\ enc'.draining /\ enc'.frame = << >>
        /\ enc'.failed = enc.failed
    BY <1>4, <2>1, <2>2, SendEndQueued
  <2>4. Sent(T)' = Sent(T) /\ ~Sending' /\ Base' = Base
    BY <1>1, <1>4 DEF Sent, Sending, Base
  <2>5. InEncoder(o, T)'
    BY <1>4, <2>1, <2>3, <2>4 DEF InEncoder
  <2>6. InFifo(o, T)' /\ InFrame(o, T)' /\ InFile(T)'
    BY <1>1, <1>2, <2>3, <2>4 DEF InFifo, InFrame, InFile
  <2>7. QED
    BY <1>4, <2>5, <2>6 DEF Flow
<1>5. QED
  BY <1>3, <1>4 DEF Flush, Goto, Return

\* The common steps keep the samples in their order, whatever numbers them.
LEMMA FlowCommon ==
  ASSUME NEW o \in Nat, NEW T \in Nat, TypeOK, StageOK, CodingInv, Flow(o, T), Common
  PROVE  Flow(o, T)'
<1>1. CASE SetupOk \/ Reading
  BY <1>1, FlowStays
  DEF BeforeSend, Sending, SetupOk, Reading, ReadOther, ReadAudio, SendPacket, SendPacketFails,
      Goto, conv, out, TypeOK, File
<1>2. CASE SetupFails \/ WriteTrailer \/ Release \/ Exit
  BY <1>2 DEF SetupFails, WriteTrailer, Release, Exit, Goto, Return, Flow,
              Moving, BeforeSend
<1>3. CASE DrainFrame \/ FinalConvert
  BY <1>3, FlowTakes
<1>4. CASE SendEncodeFrame \/ FinalSend
  BY <1>4, FlowSends
<1>5. CASE ReceivePacket \/ FlushReceive
  BY <1>5, FlowReceives
<1>6. CASE PacketsWritten \/ FlushDone
  BY <1>6, FlowNoPacket
<1>7. CASE Flush
  BY <1>7, FlowFlush
<1>8. CASE FlushReceiveFails
  BY <1>8 DEF FlushReceiveFails, Goto, Failed, TypeOK, Encoder, Flow, Moving, BeforeSend
<1>9. CASE UNCHANGED vars
  BY <1>9 DEF vars, Flow, InFifo, InFrame, InEncoder, InFile, Sent, Sending, Base
<1>10. QED
  BY <1>1, <1>2, <1>3, <1>4, <1>5, <1>6, <1>7, <1>8, <1>9 DEF Common, Encoding

\* Whether run still reads, encodes what it read, or has left its loop.
Phase ==
  IF at \in {"setup", "read", "send_packet", "receive_frame"} THEN "input"
  ELSE IF at \in {"drain", "send_frame", "receive_packet"} THEN "loop"
  ELSE "ended"

\* What the common steps do to the file, and to what the caller sees of it.
NothingWritten ==
  /\ file'.packets = file.packets
  /\ Status' = Status /\ (Whole' <=> Whole) /\ Phase' = Phase

GivenUp ==
  file'.packets = file.packets /\ Status = "open" /\ Status' = "failed" /\ ~Whole'

\* The encoder reports an error in the flush, or the file it left short is closed.
CutOff ==
  /\ file'.packets = file.packets /\ ~Whole'
  /\ Phase = "ended" /\ Phase' = Phase
  /\ \/ Status = "open" /\ Status' = "broken"
     \/ Status = "broken" /\ Status' \in {"done", "failed"}

Completed(T) ==
  /\ file'.packets = file.packets /\ Status = "open" /\ Status' = "done"
  /\ Phase = "ended" /\ Phase' = Phase
  /\ T <= Len(file.packets) * FrameSize

Written(o, T) ==
  LET w == Len(file.packets) * FrameSize
  IN  /\ file'.packets = Append(file.packets, Coded(o, w, T))
      /\ Status = "open" /\ Status' = "open" /\ ~Whole' /\ Phase' = Phase
      /\ w < Sent(T) /\ Sent(T) <= T
      /\ IF Phase = "ended" THEN w < T ELSE Phase = "loop" /\ w + FrameSize <= T

\* An open call has its encoder and is not over.
LEMMA OpenStatus ==
  /\ at \in Moving \cup {"trailer"} /\ ~enc.failed => Status = "open"
  /\ enc.failed /\ at \in Moving \cup {"trailer"} => Status = "broken"
  /\ at \in {"destroy", "end"} /\ ret # 0 => Status = "failed"
  /\ at \in Moving \cup {"trailer"} \/ ret # 0 => ~Whole
  BY DEF Status, Whole, Moving, BeforeSend

\* The same after a step.
LEMMA OpenStatusNext ==
  /\ at' \in Moving \cup {"trailer"} /\ ~enc'.failed => Status' = "open"
  /\ enc'.failed /\ at' \in Moving \cup {"trailer"} => Status' = "broken"
  /\ at' \in {"destroy", "end"} /\ ret' # 0 => Status' = "failed"
  /\ at' \in Moving \cup {"trailer"} \/ ret' # 0 => ~Whole'
  BY DEF Status, Whole, Moving, BeforeSend

\* The error codes of the setup are not 0.
LEMMA SetupErrors ==
  ASSUME SetupFails
  PROVE  ret' # 0
  BY DEF SetupFails, Return, NoError

\* A step that returns an error gives the file up.
LEMMA ReturnOutput ==
  ASSUME NEW o \in Nat, NEW T \in Nat, Flow(o, T), at \in Moving \cup {"trailer"},
         at' = "destroy", ret' # 0, file'.packets = file.packets
  PROVE  GivenUp \/ CutOff
<1>1. Status' = "failed" /\ ~Whole'
  BY OpenStatusNext
<1>2. CASE at = "trailer" /\ enc.failed
  <2>1. Status = "broken"
    BY <1>2, OpenStatus
  <2>2. Phase = "ended" /\ Phase' = Phase
    BY <1>2 DEF Phase
  <2>3. QED
    BY <1>1, <2>1, <2>2 DEF CutOff
<1>3. CASE ~(at = "trailer" /\ enc.failed)
  <2>1. Status = "open"
    BY <1>3, OpenStatus DEF Flow, InFile
  <2>2. QED
    BY <1>1, <2>1 DEF GivenUp
<1>4. QED
  BY <1>2, <1>3

\* A step between two statements of run that writes nothing.
LEMMA MoveOutput ==
  ASSUME NEW o \in Nat, NEW T \in Nat, Flow(o, T), Flow(o, T)',
         at \in Moving, at' \in Moving, Phase' = Phase,
         file'.packets = file.packets
  PROVE  NothingWritten
  BY OpenStatus, OpenStatusNext DEF NothingWritten, Flow, InFile

\* The packet of the next frame is written.
LEMMA WriteOutput ==
  ASSUME NEW o \in Nat, NEW T \in Nat, TypeOK, CodingInv, Flow(o, T), Flow(o, T)',
         ReceivePacket \/ FlushReceive, at' = at, ~drop,
         file' = [file EXCEPT !.packets = Append(@, PacketOf(enc))]
  PROVE  Written(o, T)
<1> DEFINE r == WorkIfIdle(enc)
           s == Sent(T)
           w == Len(file.packets) * FrameSize
<1>1. at \in {"receive_packet", "flush_receive"} /\ HasPacket(enc)
  BY DEF ReceivePacket, FlushReceive, Receive
<1>2. /\ r \in Encoder /\ Queued(r, o, Base, s)
      /\ at = "receive_packet" => r = enc
      /\ s \in Nat /\ Base \in Int /\ s = T - Len(fifo) /\ s <= T
  BY <1>1, FlowEncoder
<1>3. Base = w /\ enc \in Encoder /\ FrameSize \in Nat /\ FrameSize > 0
  BY FrameSizeAssumption DEF Base, TypeOK
<1>4. PacketOf(enc) = Coded(o, w, s) /\ w < s
  <2> HIDE DEF s, w, r
  <2>1. r \in Encoder /\ Queued(r, o, w, s) /\ s \in Nat /\ w \in Int
    BY <1>2, <1>3
  <2>2. QED
    BY <1>1, <1>3, <2>1, ReceivedQueued DEF r
<1>5. file'.packets = Append(file.packets, Coded(o, w, s))
  BY <1>4 DEF TypeOK, File
<1>6. Status = "open" /\ Status' = "open" /\ ~Whole' /\ Phase' = Phase
  <2>1. at \in Moving /\ at' \in Moving /\ Phase' = Phase
    BY <1>1 DEF Moving, Phase
  <2>2. ~enc.failed /\ ~enc'.failed
    BY <2>1 DEF Flow, InFile
  <2>3. QED
    BY <2>1, <2>2, OpenStatus, OpenStatusNext
<1>7. CASE at = "flush_receive"
  <2>1. s = T
    <3>1. fifo = << >>
      BY <1>7 DEF CodingInv, SwrEmptied
    <3>2. QED
      BY <1>2, <3>1, FlowFacts
  <2>2. Phase = "ended"
    BY <1>7 DEF Phase
  <2>3. QED
    BY <1>2, <1>4, <1>5, <1>6, <2>1, <2>2 DEF Written
<1>8. CASE at = "receive_packet"
  <2>1. r = enc /\ Phase = "loop"
    BY <1>2, <1>8 DEF Phase
  <2>2. enc.number > 0 /\ Start(enc, w) = w + FrameSize
    <3>1. enc.pkt # << >>
      BY <1>1, <2>1 DEF HasPacket
    <3>2. enc.number # 0
      BY <1>2, <2>1, <3>1 DEF Queued
    <3>3. QED
      BY <1>3, <3>1, <3>2 DEF Start, Encoder
  <2>3. s = w + FrameSize + FrameSize + FrameSize
    BY <1>3, <1>8, <2>2 DEF Flow, InEncoder, Moving
  <2>4. w + FrameSize <= s /\ w + FrameSize <= T /\ w \in Int
    BY <1>2, <1>3, <2>3
  <2>5. Coded(o, w, T) = Coded(o, w, s)
    <3> HIDE DEF s, w
    <3>1. QED
      BY <1>2, <2>4, CodedFull
  <2>6. QED
    BY <1>2, <1>4, <1>5, <1>6, <2>1, <2>4, <2>5 DEF Written
<1>9. QED
  BY <1>1, <1>7, <1>8

\* Every common step does one of the five.
LEMMA OutputCommon ==
  ASSUME NEW o \in Nat, NEW T \in Nat, TypeOK, StageOK, CodingInv, Flow(o, T), Common
  PROVE  NothingWritten \/ GivenUp \/ CutOff \/ Completed(T) \/ Written(o, T)
<1>1. Flow(o, T)'
  BY FlowCommon
<1> USE DEF Goto, Return, Moving, BeforeSend, Phase
<1>2. CASE SetupOk \/ Reading
  <2>1. at \in Moving /\ at' \in Moving /\ Phase' = Phase
    BY <1>2 DEF SetupOk, Reading, ReadOther, ReadAudio, SendPacket, SendPacketFails
  <2>2. file'.packets = file.packets
    BY <1>2 DEF SetupOk, Reading, ReadOther, ReadAudio, SendPacket, SendPacketFails,
                TypeOK, File, out
  <2>3. QED
    BY <1>1, <2>1, <2>2, MoveOutput
<1>3. CASE SetupFails
  <2>1. at \in Moving /\ at' = "destroy" /\ file'.packets = file.packets
    BY <1>3 DEF SetupFails, out
  <2>2. QED
    BY <1>3, <2>1, SetupErrors, ReturnOutput
<1>4. CASE DrainFrame \/ FinalConvert \/ SendEncodeFrame \/ FinalSend \/ Flush
           \/ PacketsWritten
  <2>1. at \in Moving /\ file'.packets = file.packets
    BY <1>4 DEF DrainFrame, FinalConvert, SendEncodeFrame, FinalSend, Send, Flush,
                PacketsWritten, NoMorePackets, out
  <2>2. \/ at' \in Moving /\ Phase' = Phase
        \/ at' = "destroy" /\ ret' # 0
    BY <1>4 DEF DrainFrame, FinalConvert, SendEncodeFrame, FinalSend, Send, Flush,
                PacketsWritten, NoMorePackets
  <2>3. QED
    BY <1>1, <2>1, <2>2, MoveOutput, ReturnOutput
<1>5. CASE ReceivePacket \/ FlushReceive
  <2>1. at \in Moving
    BY <1>5 DEF ReceivePacket, FlushReceive
  <2>2. \/ at' = at /\ file' = file
        \/ at' = at /\ ~drop
           /\ file' = [file EXCEPT !.packets = Append(@, PacketOf(enc))]
        \/ at' = "destroy" /\ ret' # 0 /\ file' = file
    BY <1>5 DEF ReceivePacket, FlushReceive, Receive
  <2>3. QED
    BY <1>1, <1>5, <2>1, <2>2, MoveOutput, ReturnOutput, WriteOutput
<1>6. CASE FlushDone \/ FlushReceiveFails
  <2>1. /\ at = "flush_receive" /\ at' = "trailer" /\ file' = file
        /\ Phase' = Phase
    BY <1>6 DEF FlushDone, NoMorePackets, FlushReceiveFails
  <2>2. Status = "open" /\ ~Whole /\ ~Whole' /\ Phase = "ended"
    BY <2>1, OpenStatus, OpenStatusNext DEF Flow, InFile
  <2>3. Status' = "open" \/ Status' = "broken"
    BY <2>1 DEF Status
  <2>4. QED
    BY <2>1, <2>2, <2>3 DEF NothingWritten, CutOff
<1>7. CASE WriteTrailer
  <2>1. /\ at = "trailer" /\ at' = "destroy" /\ enc' = enc
        /\ Phase = "ended" /\ Phase' = Phase
    BY <1>7 DEF WriteTrailer
  <2>a. file'.packets = file.packets
    BY <1>7 DEF WriteTrailer, TypeOK, File
  <2>2. CASE ret' # 0
    BY <2>1, <2>2, <2>a, ReturnOutput
  <2>3. CASE ret' = 0 /\ enc.failed
    <3>1. Status = "broken" /\ Status' = "done" /\ ~Whole'
      BY <2>1, <2>3 DEF Status, Whole
    <3>2. QED
      BY <2>1, <2>a, <3>1 DEF CutOff
  <2>4. CASE ret' = 0 /\ ~enc.failed
    <3>1. Status = "open" /\ Status' = "done"
      BY <2>1, <2>4 DEF Status
    <3>2. T <= Len(file.packets) * FrameSize
      BY <2>1, <2>4 DEF Flow
    <3>3. QED
      BY <2>1, <2>a, <3>1, <3>2 DEF Completed
  <2>5. QED
    BY <2>2, <2>3, <2>4
<1>8. CASE Release \/ Exit \/ UNCHANGED vars
  <2>1. enc' = enc /\ file' = file /\ ret' = ret
        /\ (at' = at \/ (at = "destroy" /\ at' = "end"))
    BY <1>8 DEF Release, Exit, vars, out
  <2>2. Status' = Status /\ (Whole' <=> Whole) /\ Phase' = Phase
    BY <2>1 DEF Status, Whole
  <2>3. QED
    BY <2>1, <2>2 DEF NothingWritten
<1>9. QED
  BY <1>2, <1>3, <1>4, <1>5, <1>6, <1>7, <1>8 DEF Common, Encoding

\* Initially there are no samples anywhere.
LEMMA FlowInit ==
  ASSUME Init, NEW o \in Nat
  PROVE  Flow(o, 0)
<1>1. FrameSize \in Nat /\ FrameSize > 0
  BY FrameSizeAssumption
<1>2. /\ at = "setup" /\ fifo = << >> /\ enc = NewEncoder /\ drop = TRUE
      /\ file.packets = << >> /\ Len(fifo) = 0 /\ ~Sending
  BY DEF Init, Sending
<1>3. Base = -FrameSize /\ Sent(0) = 0
  <2>1. Sent(0) = 0 - 0 - 0
    BY <1>2 DEF Sent
  <2>2. QED
    BY <1>2, <2>1 DEF Base
<1>4. InFifo(o, 0)
  BY <1>2 DEF InFifo, Run
<1>5. InEncoder(o, 0)
  BY <1>1, <1>2, <1>3 DEF InEncoder, Queued, Start, Coded, NewEncoder, Silence
<1>6. InFrame(o, 0) /\ InFile(0)
  BY <1>2 DEF InFrame, InFile, NewEncoder
<1>7. QED
  BY <1>2, <1>4, <1>5, <1>6 DEF Flow

\* The common steps decode nothing.
LEMMA CommonDecodesNothing == Common => nframes' = nframes
  BY DEF Common, SetupOk, SetupFails, Reading, ReadOther, ReadAudio, SendPacket,
         SendPacketFails, Encoding, DrainFrame, SendEncodeFrame, ReceivePacket,
         PacketsWritten, FinalConvert, FinalSend, Flush, FlushReceive, FlushDone,
         FlushReceiveFails, WriteTrailer, Release, Exit, Send, Receive,
         NoMorePackets, Convert, conv, vars

\* The block a file of n blocks is continued with, out of T samples, is what the
\* encoder holds of the frame after them.
LEMMA BlockIsCoded ==
  ASSUME NEW n \in Nat, NEW T \in Nat
  PROVE  LET k == n + 1
             w == n * FrameSize
             left == T - (k - 1) * FrameSize
         IN  /\ (k - 1) * FrameSize = w /\ k * FrameSize = w + FrameSize /\ w \in Nat
             /\ w < T =>
                  [i \in 1 .. (IF left < FrameSize THEN left ELSE FrameSize) |->
                     (k - 1) * FrameSize + i] = Coded(0, w, T)
<1> DEFINE k == n + 1
           w == n * FrameSize
           left == T - (k - 1) * FrameSize
<1>1. FrameSize \in Nat /\ FrameSize > 0
  BY FrameSizeAssumption
<1>2. w \in Nat /\ k * FrameSize = w + FrameSize
  BY <1>1, OneMore
<1>3. k - 1 = n
  OBVIOUS
<1>4. (k - 1) * FrameSize = w
  BY <1>3
<1>5. ASSUME w < T
      PROVE  [i \in 1 .. (IF left < FrameSize THEN left ELSE FrameSize) |->
                (k - 1) * FrameSize + i] = Coded(0, w, T)
  <2>1. left = T - w
    BY <1>4
  <2>2. Coded(0, w, T) = Run(0 + w, IF T - w < FrameSize THEN T - w ELSE FrameSize)
    BY <1>1, <1>2, <1>5 DEF Coded
  <2>3. 0 + w = w
    BY <1>2
  <2>4. QED
    BY <1>4, <2>1, <2>2, <2>3 DEF Run
<1>6. QED
  BY <1>2, <1>4, <1>5

-------------------------------------------------------------------------------
(* Type correctness.                                                         *)

\* Every step of run and of the destructor keeps every variable in its type.
LEMMA TypeInductive == TypeOK /\ StageOK /\ [Next]_vars => TypeOK' /\ StageOK'
<1> SUFFICES ASSUME TypeOK, StageOK, [Next]_vars PROVE TypeOK' /\ StageOK'
  OBVIOUS
<1> USE DEF own, conv, out, Goto, Return, Labels
<1>1. CASE Common
  BY <1>1, TypeCommon
<1>2. CASE AlreadyAac
  BY <1>2 DEF AlreadyAac, TypeOK, StageOK
<1>3. CASE EndOfInput
  BY <1>3 DEF EndOfInput, TypeOK, StageOK
<1>4. CASE ReceiveFrame
  <2>1. /\ Head(dec) \in Nat /\ Tail(dec) \in Seq(Nat \ {0})
        /\ NextSamples \in Seq(Nat)
    BY <1>4, FrameOfDecoder DEF ReceiveFrame
  <2>2. fifo' \in Samples
    <3>1. fifo \in Seq(Nat) /\ fifo \o NextSamples \in Seq(Nat)
      BY <2>1, ConcatProperties DEF Samples, TypeOK
    <3>2. fifo' = fifo \/ fifo' = fifo \o NextSamples
      BY <1>4 DEF ReceiveFrame
    <3>3. QED
      BY <3>1, <3>2 DEF Samples
  <2>3. nframes' \in Nat /\ dec' \in Seq(Nat \ {0})
    BY <1>4, <2>1 DEF ReceiveFrame, TypeOK
  <2>4. QED
    BY <1>4, <2>2, <2>3 DEF ReceiveFrame, TypeOK, StageOK
<1>5. CASE NoMoreFrames
  BY <1>5 DEF NoMoreFrames, TypeOK, StageOK
<1>6. CASE PacketDone
  BY <1>6 DEF PacketDone, Drop, TypeOK, StageOK
<1>7. QED
  BY <1>1, <1>2, <1>3, <1>4, <1>5, <1>6 DEF Next, Common

\* Type correctness of the whole call.
THEOREM TypeCorrect == Spec => [](TypeOK /\ StageOK)
  BY TypeInit, TypeInductive, PTL DEF Spec

-------------------------------------------------------------------------------
(* Safety of the packet loop.                                                *)

\* What audio_convert leaves in swr after each packet.
FifoInv ==
  /\ at = "setup" => fifo = << >>
  /\ at \in {"read", "send_packet"} => Len(fifo) <= FrameSize

LoopInv == CodingInv /\ FifoInv

\* It holds initially: swr is empty.
LEMMA LoopInit == Init => LoopInv
  BY CodingInit, FrameSizeAssumption DEF Init, LoopInv, FifoInv

\* Every step preserves the loop invariant.
LEMMA LoopInductive ==
  TypeOK /\ StageOK /\ LoopInv /\ [Next]_vars => LoopInv'
<1> SUFFICES ASSUME TypeOK, StageOK, LoopInv, [Next]_vars PROVE LoopInv'
  OBVIOUS
<1> USE DEF LoopInv, Goto, Return, own, conv, out
<1>1. CASE Common
  <2>1. CodingInv'
    BY <1>1, CodingCommon
  <2>2. FifoInv'
    <3>1. CASE SetupOk \/ Reading \/ UNCHANGED vars
      BY <3>1, FrameSizeAssumption
      DEF SetupOk, Reading, ReadOther, ReadAudio, SendPacket, SendPacketFails,
          vars, FifoInv
    <3>2. CASE SetupFails \/ Release \/ Exit
      BY <3>2 DEF SetupFails, Release, Exit, FifoInv
    <3>3. CASE Encoding
      <4>1. at' \notin {"setup", "read", "send_packet"}
        BY <3>3 DEF Encoding, DrainFrame, SendEncodeFrame, ReceivePacket,
          PacketsWritten, FinalConvert, FinalSend, Flush, FlushReceive,
          FlushDone, FlushReceiveFails, WriteTrailer, Send, Receive,
          NoMorePackets
      <4>2. QED
        BY <4>1 DEF FifoInv
    <3>4. QED
      BY <1>1, <3>1, <3>2, <3>3 DEF Common
  <2>3. QED
    BY <2>1, <2>2
<1> USE DEF CodingInv, EncoderInv, FrameInv, FullInv, SwrEmptied, FifoInv, BeforeSend
<1>2. CASE AlreadyAac
  BY <1>2 DEF AlreadyAac
<1>3. CASE EndOfInput
  BY <1>3 DEF EndOfInput
<1>4. CASE ReceiveFrame
  BY <1>4 DEF ReceiveFrame
<1>5. CASE NoMoreFrames
  BY <1>5 DEF NoMoreFrames
<1>6. CASE PacketDone
  BY <1>6 DEF PacketDone
<1>7. QED
  BY <1>1, <1>2, <1>3, <1>4, <1>5, <1>6 DEF Next, Common

\* The invariant of the packet loop.
THEOREM LoopCorrect == Spec => []LoopInv
  BY TypeInit, TypeInductive, LoopInit, LoopInductive, PTL DEF Spec

\* The one swr_convert after the loop empties swr.
THEOREM SwrEmptiedAlways == Spec => []SwrEmptied
<1>1. LoopInv => SwrEmptied
  BY DEF LoopInv, CodingInv
<1>2. QED
  BY <1>1, LoopCorrect, PTL

\* The encoder accepts every frame, and the end, at the time it is sent.
THEOREM EncoderReadyAlways == Spec => []EncoderReady
<1>1. TypeOK /\ LoopInv => EncoderReady
  BY FrameSizeAssumption
  DEF LoopInv, CodingInv, EncoderInv, FrameInv, BeforeSend, Quiet, EncoderReady,
      AcceptsFrame, AcceptsInput
<1>2. QED
  BY <1>1, LoopCorrect, TypeCorrect, PTL

\* No frame follows a short one.
THEOREM ShortFrameIsLastAlways == Spec => []ShortFrameIsLast
<1>1. LoopInv => ShortFrameIsLast
  BY DEF LoopInv, CodingInv, FullInv, BeforeSend, ShortFrameIsLast
<1>2. QED
  BY <1>1, LoopCorrect, PTL

-------------------------------------------------------------------------------
(* The refinement.                                                           *)

\* The numbering of audio_convert starts with 1 and every sample decoded is
\* accepted.
PromiseInv == TypeOK /\ StageOK /\ LoopInv /\ Flow(0, nframes)

\* Every step of audio_convert keeps the samples in order.
LEMMA FlowInductive ==
  TypeOK /\ StageOK /\ LoopInv /\ Flow(0, nframes) /\ [Next]_vars => Flow(0, nframes)'
<1> SUFFICES ASSUME TypeOK, StageOK, LoopInv, Flow(0, nframes), [Next]_vars
             PROVE  Flow(0, nframes)'
  OBVIOUS
<1>a. nframes \in Nat /\ CodingInv
  BY DEF TypeOK, LoopInv
<1>1. CASE Common
  <2>1. PICK T \in Nat : T = nframes
    BY <1>a
  <2>2. Flow(0, T)'
    BY <1>1, <1>a, <2>1, FlowCommon
  <2>3. T = nframes'
    BY <1>1, <2>1, CommonDecodesNothing
  <2>4. QED
    BY <2>2, <2>3
<1>2. CASE AlreadyAac
  BY <1>2 DEF AlreadyAac, Return, Flow, Moving, BeforeSend
<1>3. CASE EndOfInput \/ NoMoreFrames \/ PacketDone
  <2>1. PICK T \in Nat : T = nframes
    BY <1>a
  <2>2. Flow(0, T)'
    BY <1>3, <2>1, FlowStays
    DEF EndOfInput, NoMoreFrames, PacketDone, Goto, Sending, BeforeSend, conv, out
  <2>3. T = nframes'
    BY <1>3, <2>1 DEF EndOfInput, NoMoreFrames, PacketDone, conv
  <2>4. QED
    BY <2>2, <2>3
<1>4. CASE ReceiveFrame
  <2>1. PICK T \in Nat : T = nframes
    BY <1>a
  <2>2. Head(dec) \in Nat
    BY <1>4, FrameOfDecoder DEF ReceiveFrame
  <2>3. PICK k \in Nat : k = Head(dec)
    BY <2>2
  <2>4. nframes' = T + k /\ NextSamples = Run(0 + T, k)
    BY <1>4, <2>1, <2>3 DEF ReceiveFrame, NextSamples, Run
  <2>5. CASE at' = "receive_frame" /\ fifo' = fifo \o NextSamples
    <3>1. Flow(0, T + k)'
      <4>1. /\ at = "receive_frame" /\ at' = "receive_frame" /\ Flow(0, T)
            /\ fifo' = fifo \o Run(0 + T, k)
            /\ enc' = enc /\ drop' = drop /\ file'.packets = file.packets
        BY <1>4, <2>1, <2>4, <2>5 DEF ReceiveFrame, out
      <4>2. QED
        BY <4>1, FlowAccepts
    <3>2. QED
      BY <2>4, <3>1
  <2>6. CASE at' = "destroy"
    BY <2>6 DEF Flow, Moving, BeforeSend
  <2>7. QED
    BY <1>4, <2>5, <2>6 DEF ReceiveFrame, Goto, Return
<1>5. QED
  BY <1>1, <1>2, <1>3, <1>4 DEF Next, Common

\* The invariant holds of every call.
LEMMA PromiseInvariant == Spec => []PromiseInv
<1>1. Init => Flow(0, nframes)
  <2> SUFFICES ASSUME Init PROVE Flow(0, nframes)
    OBVIOUS
  <2>1. nframes = 0 /\ Flow(0, 0)
    BY FlowInit DEF Init
  <2>2. QED
    BY <2>1
<1>2. QED
  BY <1>1, FlowInductive, TypeInit, TypeInductive, LoopInit, LoopInductive, PTL
  DEF Spec, PromiseInv

\* Every step of audio_convert is one of the transcoder.
LEMMA PromiseStep ==
  ASSUME PromiseInv, [Next]_vars
  PROVE  [Promise!TNext]_(Promise!tvars)
<1>a. TypeOK /\ StageOK /\ CodingInv /\ Flow(0, nframes) /\ nframes \in Nat
  BY DEF PromiseInv, LoopInv, TypeOK
<1>b. LoopEnded <=> Phase = "ended"
  BY <1>a DEF LoopEnded, Phase, TypeOK, Labels
<1>c. LoopEnded' <=> Phase' = "ended"
  <2>1. at' \in Labels
    BY <1>a, TypeInductive DEF TypeOK
  <2>2. QED
    BY <2>1 DEF LoopEnded, Phase, Labels
<1>1. CASE Common
  <2>0. nframes' = nframes
    BY <1>1, CommonDecodesNothing
  <2>1. PICK T \in Nat : T = nframes
    BY <1>a
  <2>n. PICK n \in Nat : n = Len(file.packets)
    BY <1>a DEF TypeOK, File
  <2> DEFINE k == n + 1
             w == n * FrameSize
             left == T - (k - 1) * FrameSize
  <2>d. /\ (k - 1) * FrameSize = w /\ k * FrameSize = w + FrameSize /\ w \in Nat
        /\ w < T =>
             [i \in 1 .. (IF left < FrameSize THEN left ELSE FrameSize) |->
                (k - 1) * FrameSize + i] = Coded(0, w, T)
        /\ FrameSize \in Nat /\ FrameSize > 0
    BY BlockIsCoded, FrameSizeAssumption
  <2>2. NothingWritten \/ GivenUp \/ CutOff \/ Completed(T) \/ Written(0, T)
    BY <1>1, <1>a, <2>1, OutputCommon
  <2>3. CASE NothingWritten
    BY <1>b, <1>c, <2>0, <2>3 DEF NothingWritten, Promise!tvars, LoopEnded
  <2>4. CASE GivenUp
    <3>1. LoopEnded' \in BOOLEAN
      BY DEF LoopEnded
    <3>2. QED
      BY <1>a, <2>0, <2>4, <3>1 DEF GivenUp, Promise!TNext, Promise!GiveUp
  <2>c. CASE CutOff
    <3>1. LoopEnded /\ LoopEnded' = LoopEnded
      BY <1>b, <1>c, <2>c DEF CutOff, LoopEnded
    <3>2. QED
      BY <2>0, <2>c, <3>1
      DEF CutOff, Promise!TNext, Promise!Break, Promise!FinishBroken
  <2>5. CASE Completed(T)
    <3>1. LoopEnded /\ LoopEnded' = LoopEnded
      BY <1>b, <1>c, <2>5 DEF Completed, LoopEnded
    <3>2. QED
      BY <2>0, <2>1, <2>5, <3>1 DEF Completed, Promise!TNext, Promise!Finish
  <2>6. CASE Written(0, T)
    <3>1. LoopEnded' = LoopEnded /\ (LoopEnded => w < T) /\ (~LoopEnded => w + FrameSize <= T)
      BY <1>b, <1>c, <2>n, <2>6 DEF Written, LoopEnded
    <3>2. w < T
      BY <2>d, <3>1
    <3>3. file'.packets = Append(file.packets, Promise!Block(k))
      <4>1. file'.packets = Append(file.packets, Coded(0, w, T))
        BY <2>n, <2>6 DEF Written
      <4>2. Promise!BlockLen(k) = IF left < FrameSize THEN left ELSE FrameSize
        BY <2>1 DEF Promise!BlockLen
      <4>3. Promise!Block(k) = Coded(0, w, T)
        BY <2>d, <3>2, <4>2 DEF Promise!Block
      <4>4. QED
        BY <4>1, <4>3
    <3>4. IF LoopEnded THEN (k - 1) * FrameSize < nframes ELSE k * FrameSize <= nframes
      BY <2>d, <2>1, <3>1
    <3> HIDE DEF w, left
    <3>5. Promise!Emit
      BY <2>0, <2>n, <2>6, <3>1, <3>3, <3>4 DEF Written, Promise!Emit
    <3>6. QED
      BY <3>5 DEF Promise!TNext
  <2>7. QED
    BY <2>2, <2>3, <2>4, <2>c, <2>5, <2>6
<1>e. at \in Moving /\ Phase = "input" => Status = "open" /\ ~LoopEnded
  BY <1>a, OpenStatus DEF Flow, InFile, LoopEnded, Phase
<1>2. CASE AlreadyAac
  <2>1. Status = "open" /\ Status' = "failed" /\ nframes' = nframes /\ file' = file
    BY <1>2, <1>e, OpenStatusNext
    DEF AlreadyAac, Return, Moving, BeforeSend, Phase, out, conv
  <2>2. LoopEnded' \in BOOLEAN
    BY DEF LoopEnded
  <2>3. QED
    BY <1>a, <2>1, <2>2 DEF Promise!TNext, Promise!GiveUp
<1>3. CASE EndOfInput
  <2>1. /\ Status = "open" /\ ~LoopEnded /\ LoopEnded' = TRUE
        /\ nframes' = nframes /\ file' = file /\ enc' = enc /\ at' = "final"
    BY <1>3, <1>e DEF EndOfInput, Goto, Moving, BeforeSend, Phase, LoopEnded, out, conv
  <2>2. Status' = "open"
    BY <1>a, <2>1, OpenStatusNext, <1>3 DEF EndOfInput, Moving, BeforeSend, Flow, InFile
  <2>3. QED
    BY <2>1, <2>2 DEF Promise!TNext, Promise!Seal, LoopEnded
<1>4. CASE NoMoreFrames \/ PacketDone
  <2>1. /\ at \in Moving /\ at' \in Moving /\ LoopEnded' = LoopEnded
        /\ nframes' = nframes /\ file' = file /\ enc' = enc
    BY <1>4 DEF NoMoreFrames, PacketDone, Goto, Moving, BeforeSend, LoopEnded, out, conv
  <2>2. Status' = Status
    BY <1>a, <2>1, OpenStatus, OpenStatusNext DEF Flow, InFile
  <2>3. QED
    BY <2>1, <2>2 DEF Promise!tvars
<1>5. CASE ReceiveFrame
  <2>1. /\ Status = "open" /\ ~LoopEnded /\ file' = file /\ enc' = enc
        /\ nframes' \in Nat /\ nframes' > nframes
    BY <1>5, <1>a, <1>e, FrameOfDecoder
    DEF ReceiveFrame, Moving, BeforeSend, Phase, out
  <2>2. CASE at' = "receive_frame"
    <3>1. Status' = "open" /\ LoopEnded' = LoopEnded
      BY <1>5, <1>a, <2>1, <2>2, OpenStatusNext
      DEF ReceiveFrame, LoopEnded, Moving, BeforeSend, Flow, InFile
    <3>2. QED
      BY <2>1, <3>1 DEF Promise!TNext, Promise!Accept
  <2>3. CASE at' = "destroy" /\ ret' # 0
    <3>1. Status' = "failed" /\ LoopEnded' \in BOOLEAN
      BY <2>3, OpenStatusNext DEF LoopEnded
    <3>2. QED
      BY <2>1, <3>1, <1>a DEF Promise!TNext, Promise!GiveUp
  <2>4. QED
    BY <1>5, <2>2, <2>3 DEF ReceiveFrame, Goto, Return
<1>6. QED
  BY <1>1, <1>2, <1>3, <1>4, <1>5 DEF Next, Common

\* audio_convert transcodes: the packets in the file are the blocks of the
\* decoded samples in order, whatever step fails, and run returns 0 in two cases
\* only: all of them are in it, or the encoder reported an error in the flush and
\* the file holds the blocks written until then.
THEOREM PromiseKept == Spec => KeepsPromise
<1>1. Init => Promise!TInit
  BY DEF Init, Promise!TInit, Status, LoopEnded, NewEncoder
<1>2. PromiseInv /\ [Next]_vars => [Promise!TNext]_(Promise!tvars)
  BY PromiseStep
<1>3. QED
  BY <1>1, <1>2, PromiseInvariant, PTL DEF Spec, KeepsPromise, Promise!TSpec

-------------------------------------------------------------------------------
(* The destructor.                                                           *)

\* The setup acquires the output context eight steps before the file handle.
HeldInv ==
  /\ AllReleased
  /\ HandleOutlivedByContext
  /\ at = "setup" /\ stage > 8 => "output_format_ctx" \in held

\* The output context is acquired at step 8, the file handle after it.
LEMMA SetupOrder ==
  /\ Len(Setup) = 19
  /\ Setup[8].gets = {"output_format_ctx"}
  /\ \A i \in 1 .. 8 : "pb" \notin Setup[i].gets
  BY DEF Setup, Step

\* Every step keeps what is held in order.
LEMMA HeldInductive == TypeOK /\ StageOK /\ HeldInv /\ [Next]_vars => HeldInv'
<1> SUFFICES ASSUME TypeOK, StageOK, HeldInv, [Next]_vars PROVE HeldInv'
  OBVIOUS
<1> USE DEF HeldInv, AllReleased, HandleOutlivedByContext, Goto, Return, own
<1>1. CASE SetupOk
  <2>1. stage \in 1 .. 19 /\ stage' = stage + 1 /\ at' # "end"
    BY <1>1, SetupOrder DEF SetupOk, StageOK, TypeOK
  <2>2. held' = held \cup (Setup[stage].gets \ {"header"})
    BY <1>1 DEF SetupOk
  <2>3. stage' > 8 => "output_format_ctx" \in held'
    <3>1. CASE stage = 8
      BY <2>2, <3>1, SetupOrder
    <3>2. CASE stage > 8
      BY <1>1, <2>2, <3>2 DEF SetupOk
    <3>3. QED
      BY <2>1, <3>1, <3>2
  <2>4. "pb" \in held' => "output_format_ctx" \in held'
    BY <2>1, <2>2, <2>3, SetupOrder
  <2>5. QED
    BY <2>1, <2>3, <2>4
<1>2. CASE Release
  <2>1. at = "destroy" /\ at' = "destroy"
    BY <1>2 DEF Release
  <2>2. PICK i \in 1 .. 9 : /\ \A j \in 1 .. i - 1 : ~Held(j)
                            /\ held' = held \ {ReleaseOrder[i]}
    BY <1>2 DEF Release, Drop, ReleaseOrder
  <2>3. ReleaseOrder[i] = "output_format_ctx" => i = 6
    BY <2>2 DEF ReleaseOrder
  <2>4. ReleaseOrder[i] = "output_format_ctx" => "pb" \notin held
    BY <2>2, <2>3 DEF Held, ReleaseOrder
  <2>5. QED
    BY <2>1, <2>2, <2>4
<1>3. CASE Exit
  <2>1. \A i \in 1 .. 9 : ReleaseOrder[i] \notin held
    BY <1>3 DEF Exit, Held, ReleaseOrder
  <2>2. held \subseteq {"input_packet"}
    BY <2>1 DEF TypeOK, Resources, ReleaseOrder
  <2>3. QED
    BY <1>3, <2>2 DEF Exit
<1>4. CASE UNCHANGED own /\ at' \notin {"setup", "end"}
  BY <1>4
<1>5. CASE ReadAudio \/ SendPacketFails \/ PacketDone
  BY <1>5 DEF ReadAudio, SendPacketFails, PacketDone, Hold, Drop
<1>6. CASE UNCHANGED vars
  BY <1>6 DEF vars
<1>7. SetupFails \/ AlreadyAac \/ EndOfInput \/ ReadOther
        => UNCHANGED own /\ at' \notin {"setup", "end"}
  BY DEF SetupFails, AlreadyAac, EndOfInput, ReadOther
<1>8. SendPacket \/ ReceiveFrame \/ NoMoreFrames \/ DrainFrame
        => UNCHANGED own /\ at' \notin {"setup", "end"}
  BY DEF SendPacket, ReceiveFrame, NoMoreFrames, DrainFrame
<1>9. SendEncodeFrame \/ ReceivePacket \/ PacketsWritten \/ FinalConvert
        => UNCHANGED own /\ at' \notin {"setup", "end"}
  BY DEF SendEncodeFrame, Send, ReceivePacket, Receive, PacketsWritten,
         NoMorePackets, FinalConvert
<1>10. FinalSend \/ Flush \/ FlushReceive \/ FlushDone \/ FlushReceiveFails
         \/ WriteTrailer
        => UNCHANGED own /\ at' \notin {"setup", "end"}
  BY DEF FinalSend, Send, Flush, FlushReceive, Receive, FlushDone,
         NoMorePackets, FlushReceiveFails, WriteTrailer
<1>11. QED
  BY <1>1, <1>2, <1>3, <1>4, <1>5, <1>6, <1>7, <1>8, <1>9, <1>10 DEF Next, Reading, Encoding

\* At first nothing is held.
LEMMA HeldInit == Init => HeldInv
  BY DEF Init, HeldInv, AllReleased, HandleOutlivedByContext

\* What is held is in order throughout the call.
LEMMA HeldCorrect == Spec => []HeldInv
  BY TypeInit, TypeInductive, HeldInit, HeldInductive, PTL DEF Spec

\* Whatever the exit, the destructor releases all that its guards cover.
THEOREM AllReleasedAlways == Spec => []AllReleased
<1>1. HeldInv => AllReleased
  BY DEF HeldInv
<1>2. QED
  BY <1>1, HeldCorrect, PTL

\* The output context outlives the file handle stored in it.
THEOREM HandleOutlivedAlways == Spec => []HandleOutlivedByContext
<1>1. HeldInv => HandleOutlivedByContext
  BY DEF HeldInv
<1>2. QED
  BY <1>1, HeldCorrect, PTL


-------------------------------------------------------------------------------
(* The window of audio_cut.                                                  *)

\* What cut hands over of a frame of planar samples.
LEMMA CutRun ==
  ASSUME Planar, start_nframes \in Int, end_nframes \in Int,
         NEW n \in Nat, NEW m \in Nat, n <= m
  PROVE  LET i == Largest(Smallest(end_nframes, n) - Before, 0)
             k == Largest(Smallest(end_nframes, m) - Before, 0) - i
         IN  k \in Nat /\ i \in Nat /\ Before \in Nat /\ Cut(n, m) = Run(Before + i, k)
<1> DEFINE i == Largest(Smallest(end_nframes, n) - Before, 0)
           k == Largest(Smallest(end_nframes, m) - Before, 0) - i
           a == Largest(start_nframes, n)
           nb == Smallest(end_nframes, m) - a
           off == Largest(start_nframes - n, 0)
<1>1. Before \in Nat /\ i \in Nat /\ k \in Nat /\ nb \in Int /\ off \in Nat
  BY DEF Largest, Smallest, Before
<1>2. nb <= 0 => k = 0
  BY DEF Largest, Smallest, Before
<1>3. nb > 0 => k = nb /\ Before + i = a /\ n + off = a /\ a + nb <= m
  BY DEF Largest, Smallest, Before
<1>4. Cut(n, m) = IF nb <= 0 THEN << >>
                  ELSE [j \in 1 .. nb |-> IF n + off + j <= m THEN n + off + j ELSE Junk]
  BY DEF Cut
<1>5. /\ n + off + nb <= m \/ nb <= 0
  BY <1>1, <1>3
<1>6. CASE nb <= 0
  <2>1. Cut(n, m) = << >>
    BY <1>4, <1>6
  <2>2. Run(Before + i, 0) = << >>
    BY DEF Run
  <2>3. k = 0
    BY <1>2, <1>6
  <2>4. QED
    BY <1>1, <2>1, <2>2, <2>3
<1>7. CASE nb > 0
  <2>1. PICK s \in Nat : s = off
    BY <1>1
  <2>2. PICK c \in Int : c = nb
    BY <1>1
  <2>3. PICK b \in Int : b = Before + i
    BY <1>1
  <2> HIDE DEF i, k, a, nb, off
  <2>4. b = n + s /\ b + c <= m /\ c = k /\ c > 0
    BY <1>3, <1>7, <2>1, <2>2, <2>3
  <2>5. Cut(n, m) = [j \in 1 .. c |-> IF n + s + j <= m THEN n + s + j ELSE Junk]
    BY <1>4, <1>7, <2>1, <2>2
  <2>6. [j \in 1 .. c |-> IF n + s + j <= m THEN n + s + j ELSE Junk]
          = [j \in 1 .. c |-> b + j]
    <3>1. \A j \in 1 .. c : n + s + j <= m /\ n + s + j = b + j
      BY <2>4
    <3>2. QED
      BY <3>1
  <2>7. QED
    BY <1>1, <2>3, <2>4, <2>5, <2>6 DEF Run, i, k
<1>8. QED
  BY <1>1, <1>6, <1>7

\* The window, in samples.
WindowInv ==
  /\ window \in Int \X Int
  /\ start_nframes = Round(window[1]) /\ end_nframes = Round(window[2])

\* What the packet loop keeps, for the samples of the window: those decoded so far
\* are in the file, the encoder, the frame on its way there and swr.
CutInv == TypeOK /\ StageOK /\ LoopInv /\ WindowInv /\ Flow(Before, Inside)

\* Rounding moves a time by half a sample at most.
LEMMA RoundNear ==
  ASSUME NEW ms \in Int
  PROVE  /\ Round(ms) \in Int
         /\ 2 * SampleRate * ms - 1000 <= 2000 * Round(ms)
         /\ 2000 * Round(ms) <= 2 * SampleRate * ms + 1000
<1>1. SampleRate * ms \in Int /\ 2 * SampleRate * ms = 2 * (SampleRate * ms)
  BY SampleRateAssumption
<1>2. PICK x \in Int : x = SampleRate * ms
  BY <1>1
<1>3. Round(ms) = IF x >= 0 THEN (x + 500) \div 1000 ELSE -((500 - x) \div 1000)
  BY <1>2 DEF Round
<1>4. CASE x >= 0
  <2>1. PICK q \in Int : q = (x + 500) \div 1000
    OBVIOUS
  <2>2. 1000 * q <= x + 500 /\ x + 500 < 1000 * q + 1000
    BY <2>1
  <2>3. QED
    BY <1>1, <1>2, <1>3, <1>4, <2>1, <2>2
<1>5. CASE ~ x >= 0
  <2>1. PICK q \in Int : q = (500 - x) \div 1000
    OBVIOUS
  <2>2. 1000 * q <= 500 - x /\ 500 - x < 1000 * q + 1000
    BY <2>1
  <2>3. QED
    BY <1>1, <1>2, <1>3, <1>5, <2>1, <2>2
<1>6. QED
  BY <1>4, <1>5

\* The window in samples, and what of it was decoded.
LEMMA WindowTypes ==
  ASSUME WindowInv, nframes \in Nat
  PROVE  /\ start_nframes \in Int /\ end_nframes \in Int
         /\ Before \in Nat /\ Inside \in Nat
<1>1. start_nframes \in Int /\ end_nframes \in Int
  BY RoundNear DEF WindowInv
<1>2. QED
  BY <1>1 DEF Before, Inside, Largest, Smallest

\* The steps of its own that move no samples.
AroundReceive == EndOfInput \/ NoMoreFrames \/ PacketDone

\* Every step is one of those the tools share, one of the three around the loop
\* of receives, or the receive that cuts; the window stays the same.
LEMMA CutSteps ==
  ASSUME [CutNext]_cvars
  PROVE  /\ UNCHANGED << window, start_nframes, end_nframes >>
         /\ Before' = Before
         /\ Common \/ AroundReceive \/ CutReceiveFrame
         /\ Common \/ AroundReceive => nframes' = nframes /\ Inside' = Inside
<1>1. UNCHANGED << window, start_nframes, end_nframes >>
  BY DEF CutNext, cvars
<1>2. Before' = Before
  BY <1>1 DEF Before
<1>3. Common \/ AroundReceive \/ CutReceiveFrame
  BY DEF CutNext, cvars, vars, CutSetupOk, CutShared, CutExit, Common, AroundReceive
<1>4. Common \/ AroundReceive => nframes' = nframes
  BY CommonDecodesNothing DEF AroundReceive, EndOfInput, NoMoreFrames, PacketDone, conv
<1>5. Common \/ AroundReceive => Inside' = Inside
  BY <1>1, <1>2, <1>4 DEF Inside
<1>6. QED
  BY <1>1, <1>2, <1>3, <1>4, <1>5

\* What a received frame adds, k samples of it.
CutGives(k) ==
  /\ Inside' = Inside + k /\ nframes' \in Nat /\ nframes <= nframes'
  /\ Head(dec) \in Nat \ {0}
  /\ UNCHANGED << own, reads, frame, out >> /\ dec' = Tail(dec)
  /\ at = "receive_frame" /\ Len(dec) > DecoderDelay
  /\ \/ at' = "receive_frame" /\ ret' = ret /\ fifo' = fifo \o Run(Before + Inside, k)
     \/ at' = "destroy" /\ ret' = -18000 /\ fifo' = fifo

\* A received frame adds the samples of it that the window holds, and they are
\* the next ones of the window.
LEMMA CutReceived ==
  ASSUME Planar, TypeOK, WindowInv, CutReceiveFrame,
         UNCHANGED << window, start_nframes, end_nframes >>
  PROVE  \E k \in Nat : CutGives(k)
<1>1. Head(dec) \in Nat \ {0}
  BY FrameOfDecoder DEF CutReceiveFrame
<1>2. PICK n \in Nat : n = nframes
  BY DEF TypeOK
<1>3. PICK m \in Nat : m = nframes' /\ n <= m
  BY <1>1, <1>2 DEF CutReceiveFrame
<1>4. PICK i \in Nat : i = Largest(Smallest(end_nframes, n) - Before, 0)
  BY <1>2, WindowTypes DEF Inside
<1>5. PICK k \in Nat : /\ k = Largest(Smallest(end_nframes, m) - Before, 0) - i
                       /\ Cut(n, m) = Run(Before + i, k)
  BY <1>2, <1>3, <1>4, WindowTypes, CutRun
<1>6. Inside = i
  BY <1>2, <1>4 DEF Inside
<1>7. Inside' = i + k
  <2>1. Inside' = Largest(Smallest(end_nframes, m) - Before, 0)
    BY <1>3 DEF Inside, Before
  <2>2. PICK j \in Nat : j = Largest(Smallest(end_nframes, m) - Before, 0)
    <3>1. start_nframes \in Int /\ end_nframes \in Int
      BY WindowTypes DEF TypeOK
    <3>2. QED
      BY <3>1 DEF Largest, Smallest, Before
  <2>3. QED
    BY <1>4, <1>5, <2>1, <2>2
<1>8. \/ at' = "receive_frame" /\ ret' = ret /\ fifo' = fifo \o Run(Before + Inside, k)
      \/ at' = "destroy" /\ ret' = -18000 /\ fifo' = fifo
  BY <1>2, <1>3, <1>5, <1>6 DEF CutReceiveFrame, Goto, Return
<1>9. QED
  BY <1>1, <1>2, <1>3, <1>6, <1>7, <1>8 DEF CutReceiveFrame, CutGives

\* Every step preserves the invariant.
LEMMA CutInductive ==
  ASSUME Planar, CutInv, [CutNext]_cvars
  PROVE  CutInv'
<1>a. /\ TypeOK /\ StageOK /\ LoopInv /\ WindowInv /\ Flow(Before, Inside)
      /\ CodingInv /\ nframes \in Nat
  BY DEF CutInv, LoopInv, TypeOK
<1>b. Before \in Nat /\ Inside \in Nat
  BY <1>a, WindowTypes
<1>c. PICK B \in Nat : B = Before
  BY <1>b
<1>d. PICK I \in Nat : I = Inside
  BY <1>b
<1>e. Before' = B /\ Flow(B, I) /\ UNCHANGED << window, start_nframes, end_nframes >>
  BY <1>a, <1>c, <1>d, CutSteps
<1>1. WindowInv'
  <2>1. Round(window[1])' = Round(window[1]) /\ Round(window[2])' = Round(window[2])
    BY <1>e DEF Round
  <2>2. QED
    BY <1>a, <1>e, <2>1 DEF WindowInv
<1>2. CASE Common \/ AroundReceive
  <2>1. [Next]_vars
    BY <1>2 DEF Common, AroundReceive, Next
  <2>2. TypeOK' /\ StageOK' /\ LoopInv'
    BY <1>a, <2>1, TypeInductive, LoopInductive
  <2>3. Inside' = I
    BY <1>2, <1>d, CutSteps
  <2>4. Flow(B, I)'
    <3>1. CASE Common
      BY <3>1, <1>a, <1>e, FlowCommon
    <3>2. CASE AroundReceive
      BY <3>2, <1>e, FlowStays
      DEF AroundReceive, EndOfInput, NoMoreFrames, PacketDone, Goto, Sending, BeforeSend, conv, out
    <3>3. QED
      BY <1>2, <3>1, <3>2
  <2>5. Flow(Before, Inside)'
    BY <1>e, <2>3, <2>4
  <2>6. QED
    BY <1>1, <2>2, <2>5 DEF CutInv
<1>3. CASE CutReceiveFrame
  <2>0. PICK k \in Nat : CutGives(k)
    BY <1>3, <1>a, <1>e, CutReceived
  <2>1. /\ Inside' = I + k /\ nframes' \in Nat /\ nframes <= nframes'
        /\ UNCHANGED << own, reads, frame, out >> /\ dec' = Tail(dec)
        /\ at = "receive_frame" /\ Len(dec) > DecoderDelay
        /\ \/ at' = "receive_frame" /\ ret' = ret /\ fifo' = fifo \o Run(B + I, k)
           \/ at' = "destroy" /\ ret' = -18000 /\ fifo' = fifo
    BY <1>c, <1>d, <2>0 DEF CutGives
  <2>2. Run(B + I, k) \in Seq(Nat) /\ Inside' = I + k
    BY <2>1, <1>d, RunType
  <2>3. fifo' \in Samples
    <3>1. fifo \in Seq(Nat) /\ fifo \o Run(B + I, k) \in Seq(Nat)
      BY <1>a, <2>2, ConcatProperties DEF Samples, TypeOK
    <3>2. fifo' = fifo \/ fifo' = fifo \o Run(B + I, k)
      BY <2>1
    <3>3. QED
      BY <3>1, <3>2 DEF Samples
  <2>4. TypeOK' /\ StageOK'
    <3>1. dec' \in Seq(Nat \ {0})
      BY <1>a, <2>1, FrameOfDecoder
    <3>2. at' \in Labels /\ ret' \in Int
      BY <1>a, <2>1 DEF TypeOK, Labels
    <3>3. QED
      BY <1>a, <2>1, <2>3, <3>1, <3>2 DEF TypeOK, StageOK, own, out
  <2>5. LoopInv'
    BY <1>a, <2>1
    DEF LoopInv, CodingInv, EncoderInv, FrameInv, FullInv, SwrEmptied, FifoInv, BeforeSend,
        own, out
  <2>6. Flow(Before, Inside)'
    <3>1. CASE at' = "receive_frame"
      <4>1. fifo' = fifo \o Run(B + I, k) /\ at = "receive_frame"
            /\ enc' = enc /\ drop' = drop /\ file'.packets = file.packets
        BY <2>1, <1>c, <1>d, <3>1 DEF out
      <4>2. Flow(B, I + k)'
        BY <1>a, <1>e, <3>1, <4>1, FlowAccepts
      <4>3. QED
        BY <1>e, <2>2, <4>2
    <3>2. CASE at' = "destroy"
      BY <3>2 DEF Flow, Moving, BeforeSend
    <3>3. QED
      BY <2>1, <3>1, <3>2
  <2>7. QED
    BY <1>1, <2>4, <2>5, <2>6 DEF CutInv
<1>4. QED
  BY <1>2, <1>3, CutSteps

\* It holds initially, wherever the window is.
LEMMA CutStart == CutInit => CutInv
<1>1. SUFFICES ASSUME CutInit PROVE CutInv
  OBVIOUS
<1>2. Init
  BY <1>1 DEF CutInit
<1>3. TypeOK /\ StageOK /\ LoopInv
  BY <1>2, TypeInit, LoopInit
<1>4. WindowInv
  BY <1>1, WindowsAssumption DEF CutInit, WindowInv
<1>5. nframes = 0
  BY <1>2 DEF Init
<1>6. PICK B \in Nat : B = Before
  BY <1>4, <1>5, WindowTypes
<1>7. Inside = 0
  <2>1. start_nframes \in Int /\ end_nframes \in Int
    BY <1>4, <1>5, WindowTypes
  <2>2. QED
    BY <1>5, <2>1 DEF Inside, Before, Largest, Smallest
<1>8. Flow(B, 0)
  BY <1>2, FlowInit
<1>9. Flow(Before, Inside)
  BY <1>6, <1>7, <1>8
<1>10. QED
  BY <1>3, <1>4, <1>9 DEF CutInv

\* Hence it always holds.
LEMMA CutCorrect ==
  ASSUME Planar
  PROVE  CutSpec => []CutInv
<1>1. CutInit => CutInv
  BY CutStart
<1>2. CutInv /\ [CutNext]_cvars => CutInv'
  BY CutInductive
<1>3. QED
  BY <1>1, <1>2, PTL DEF CutSpec

-------------------------------------------------------------------------------
(* The file.                                                                 *)

\* The file holds the first samples of the window, in whole frames while run is
\* in its loop, and all of them once it has returned 0 without an encoder error.
FileInv ==
  LET written == Len(file.packets) * FrameSize
  IN  /\ Encoded = Before + 1 .. Before + Smallest(written, Inside)
      /\ Phase # "ended" => written <= Inside
      /\ Whole => Inside <= written

\* The elements of a sequence with one more.
LEMMA AppendedIs ==
  ASSUME NEW S, NEW p \in Seq(S), NEW x \in S
  PROVE  /\ Len(Append(p, x)) = Len(p) + 1
         /\ \A i \in 1 .. Len(p) : Append(p, x)[i] = p[i]
         /\ Append(p, x)[Len(p) + 1] = x
  BY AppendProperties

\* A packet more in the file adds its samples.
LEMMA EncodedGrows ==
  ASSUME file \in File, NEW x \in Samples, file'.packets = Append(file.packets, x)
  PROVE  Encoded' = Encoded \cup Range(x)
<1>1. PICK p \in Seq(Samples) : p = file.packets
  BY DEF File
<1>2. PICK n \in Nat : n = Len(p)
  BY LenProperties
<1>3. PICK q \in Seq(Samples) : q = Append(p, x)
  BY AppendProperties
<1>4. DOMAIN p = 1 .. n /\ DOMAIN q = 1 .. n + 1
  BY <1>2, <1>3, AppendedIs, LenProperties
<1>5. (\A i \in 1 .. n : q[i] = p[i]) /\ q[n + 1] = x
  BY <1>2, <1>3, AppendedIs
<1>6. 1 .. n + 1 = (1 .. n) \cup {n + 1}
  OBVIOUS
<1>7. Encoded = UNION { Range(p[k]) : k \in 1 .. n }
  BY <1>1, <1>4 DEF Encoded
<1>8. Encoded' = UNION { Range(q[k]) : k \in 1 .. n + 1 }
  BY <1>1, <1>3, <1>4 DEF Encoded
<1>9. QED
  BY <1>5, <1>6, <1>7, <1>8

\* The samples of a frame.
LEMMA CodedRange ==
  ASSUME NEW o \in Nat, NEW w \in Nat, NEW T \in Nat, w < T
  PROVE  Range(Coded(o, w, T)) = o + w + 1 .. o + Smallest(w + FrameSize, T)
<1>1. FrameSize \in Nat /\ FrameSize > 0
  BY FrameSizeAssumption
<1>2. PICK n \in Nat : n = IF T - w < FrameSize THEN T - w ELSE FrameSize
  BY <1>1
<1>3. Coded(o, w, T) = [i \in 1 .. n |-> o + w + i]
  BY <1>2 DEF Coded, Run
<1>4. Range(Coded(o, w, T)) = { o + w + i : i \in 1 .. n }
  BY <1>3 DEF Range
<1>5. o + Smallest(w + FrameSize, T) = o + w + n
  BY <1>1, <1>2 DEF Smallest
<1>6. { o + w + i : i \in 1 .. n } = o + w + 1 .. o + w + n
  <2>1. ASSUME NEW s \in o + w + 1 .. o + w + n PROVE s \in { o + w + i : i \in 1 .. n }
    <3>1. s - o - w \in 1 .. n /\ s = o + w + (s - o - w)
      OBVIOUS
    <3>2. QED
      BY <3>1
  <2>2. \A i \in 1 .. n : o + w + i \in o + w + 1 .. o + w + n
    OBVIOUS
  <2>3. QED
    BY <2>1, <2>2
<1>7. QED
  BY <1>4, <1>5, <1>6

\* run does not go back into its loop.
LEMMA CommonPhase == Common /\ Phase' # "ended" => Phase # "ended"
  BY DEF Common, SetupOk, SetupFails, Reading, ReadOther, ReadAudio, SendPacket,
         SendPacketFails, Encoding, DrainFrame, SendEncodeFrame, ReceivePacket,
         PacketsWritten, FinalConvert, FinalSend, Flush, FlushReceive, FlushDone,
         FlushReceiveFails, WriteTrailer, Release, Exit, Send, Receive,
         NoMorePackets, Goto, Return, Phase, vars

\* Every step keeps the file a beginning of the window.
LEMMA CutFile ==
  ASSUME Planar, CutInv, CutInv', FileInv, [CutNext]_cvars
  PROVE  FileInv'
<1>a. /\ TypeOK /\ StageOK /\ CodingInv /\ Flow(Before, Inside)
      /\ Before \in Nat /\ Inside \in Nat /\ file \in File
  BY WindowTypes DEF CutInv, LoopInv, TypeOK
<1>b. PICK B \in Nat : B = Before
  BY <1>a
<1>c. PICK I \in Nat : I = Inside
  BY <1>a
<1>d. PICK n \in Nat : n = Len(file.packets)
  BY <1>a DEF File
<1>e. PICK w \in Nat : w = n * FrameSize /\ (n + 1) * FrameSize = w + FrameSize
  BY OneMore
<1>f. /\ Encoded = B + 1 .. B + Smallest(w, I)
      /\ Phase # "ended" => w <= I
      /\ Whole => I <= w
  BY <1>b, <1>c, <1>d, <1>e DEF FileInv
<1>g. Before' = B /\ Flow(B, I)
  BY <1>a, <1>b, <1>c, CutSteps
<1>h. ASSUME file'.packets = file.packets PROVE Encoded' = Encoded /\ Len(file'.packets) = n
  BY <1>d, <1>h DEF Encoded
<1>1. CASE Common
  <2>1. Inside' = I
    BY <1>1, <1>c, CutSteps
  <2>2. NothingWritten \/ GivenUp \/ CutOff \/ Completed(I) \/ Written(B, I)
    BY <1>1, <1>a, <1>g, OutputCommon
  <2>3. CASE NothingWritten
    BY <1>d, <1>e, <1>f, <1>g, <1>h, <2>1, <2>3 DEF NothingWritten, FileInv
  <2>4. CASE GivenUp
    <3>1. Phase' # "ended" => Phase # "ended"
      BY <1>1, CommonPhase
    <3>2. QED
      BY <1>d, <1>e, <1>f, <1>g, <1>h, <2>1, <2>4, <3>1 DEF GivenUp, FileInv
  <2>c. CASE CutOff
    BY <1>d, <1>e, <1>f, <1>g, <1>h, <2>1, <2>c DEF CutOff, FileInv
  <2>5. CASE Completed(I)
    BY <1>d, <1>e, <1>f, <1>g, <1>h, <2>1, <2>5 DEF Completed, FileInv
  <2>6. CASE Written(B, I)
    <3>1. /\ file'.packets = Append(file.packets, Coded(B, w, I)) /\ ~Whole'
          /\ Phase' = Phase /\ w < I
          /\ Phase # "ended" => w + FrameSize <= I
      <4>1. w + FrameSize <= I => w < I
        BY FrameSizeAssumption
      <4>2. QED
        BY <1>d, <1>e, <2>6, <4>1 DEF Written
    <3>2. Coded(B, w, I) \in Samples
      <4>0. (IF I - w < FrameSize THEN I - w ELSE FrameSize) \in Nat
        BY <3>1, FrameSizeAssumption
      <4>1. PICK m \in Nat : m = IF I - w < FrameSize THEN I - w ELSE FrameSize
        BY <4>0
      <4>2. B + w \in Nat
        OBVIOUS
      <4>3. Run(B + w, m) \in Seq(Nat)
        BY <4>2, RunType
      <4>4. QED
        BY <3>1, <4>1, <4>3 DEF Coded, Samples
    <3>3. Encoded' = (B + 1 .. B + w) \cup (B + w + 1 .. B + Smallest(w + FrameSize, I))
      <4>1. Smallest(w, I) = w
        BY <3>1 DEF Smallest
      <4>2. Encoded' = Encoded \cup Range(Coded(B, w, I))
        BY <1>a, <3>1, <3>2, EncodedGrows
      <4>3. QED
        BY <1>f, <3>1, <4>1, <4>2, CodedRange
    <3>4. PICK e \in Nat : e = Smallest(w + FrameSize, I) /\ w <= e
      BY <3>1, FrameSizeAssumption DEF Smallest
    <3>5. Encoded' = B + 1 .. B + e
      <4>1. (B + 1 .. B + w) \cup (B + w + 1 .. B + e) = B + 1 .. B + e
        BY <3>4
      <4>2. QED
        BY <3>3, <3>4, <4>1
    <3>6. Len(file'.packets) * FrameSize = w + FrameSize
      <4>1. Len(file'.packets) = n + 1
        BY <1>a, <1>d, <3>1, <3>2, AppendProperties DEF File
      <4>2. QED
        BY <1>e, <4>1
    <3>7. QED
      BY <1>g, <2>1, <3>1, <3>4, <3>5, <3>6 DEF FileInv
  <2>7. QED
    BY <2>2, <2>3, <2>4, <2>c, <2>5, <2>6
<1>2. CASE AroundReceive
  <2>1. Inside' = I /\ file'.packets = file.packets /\ (Phase' # "ended" => Phase # "ended")
        /\ ~Whole'
    BY <1>2, <1>c, CutSteps
    DEF AroundReceive, EndOfInput, NoMoreFrames, PacketDone, Goto, Phase, Whole, out
  <2>2. QED
    BY <1>d, <1>e, <1>f, <1>g, <1>h, <2>1 DEF FileInv
<1>3. CASE CutReceiveFrame
  <2>1. PICK k \in Nat : CutGives(k)
    BY <1>3, <1>a, CutReceived, CutSteps DEF CutInv
  <2>2. /\ Inside' = I + k /\ file'.packets = file.packets /\ w <= I
        /\ ~Whole'
    BY <1>c, <1>f, <2>1 DEF CutGives, Phase, Whole, out
  <2>3. Smallest(w, I) = w /\ Smallest(w, I + k) = w
    BY <2>2 DEF Smallest
  <2>4. QED
    BY <1>d, <1>e, <1>f, <1>g, <1>h, <2>2, <2>3 DEF FileInv
<1>4. QED
  BY <1>1, <1>2, <1>3, CutSteps

\* The file is empty at first.
LEMMA CutFileStart == CutInit => FileInv
<1>1. SUFFICES ASSUME CutInit PROVE FileInv
  OBVIOUS
<1>2. /\ file.packets = << >> /\ nframes = 0 /\ at = "setup" /\ Len(file.packets) = 0
  BY <1>1 DEF CutInit, Init
<1>3. PICK B \in Nat : B = Before
  BY <1>1, CutStart, WindowTypes DEF CutInv, TypeOK
<1>4. PICK I \in Nat : I = Inside
  BY <1>1, CutStart, WindowTypes DEF CutInv, TypeOK
<1>5. Encoded = {}
  BY <1>2 DEF Encoded
<1>6. Len(file.packets) * FrameSize = 0
  BY <1>2, FrameSizeAssumption
<1>7. Smallest(0, I) = 0
  BY DEF Smallest
<1>8. Encoded = B + 1 .. B + Smallest(0, I)
  BY <1>5, <1>7
<1>9. ~Whole /\ 0 <= I
  BY <1>2 DEF Whole
<1>10. QED
  BY <1>3, <1>4, <1>6, <1>8, <1>9 DEF FileInv

\* Hence it always is.
LEMMA CutFileCorrect ==
  ASSUME Planar
  PROVE  CutSpec => [](CutInv /\ FileInv)
<1>1. CutInit => FileInv
  BY CutFileStart
<1>2. CutInv /\ CutInv' /\ FileInv /\ [CutNext]_cvars => FileInv'
  BY CutFile
<1>3. QED
  BY <1>1, <1>2, CutCorrect, PTL DEF CutSpec

\* For planar input no sample in the file lies more than half a sample's duration
\* outside the window in milliseconds, whatever the call returns.  A call that
\* returns 0 after the encoder reported no error has written every decoded one that
\* lies half a duration inside: for every window, sample rate, frame size and input.
THEOREM WindowInTimeAlways ==
  ASSUME Planar
  PROVE  CutSpec => []WindowInTime
<1>1. ASSUME CutInv, FileInv PROVE WindowInTime
  <2>1. nframes \in Nat /\ window[1] \in Int /\ window[2] \in Int
    BY <1>1 DEF CutInv, TypeOK, WindowInv
  <2>2. PICK B \in Nat : B = Before
    BY <1>1, <2>1, WindowTypes DEF CutInv
  <2>3. PICK I \in Nat : I = Inside
    BY <1>1, <2>1, WindowTypes DEF CutInv
  <2>4. PICK n \in Nat : n = nframes
    BY <2>1
  <2>5. PICK a \in Int : a = start_nframes
    BY <1>1, <2>1, WindowTypes DEF CutInv
  <2>6. PICK b \in Int : b = end_nframes
    BY <1>1, <2>1, WindowTypes DEF CutInv
  <2>7. PICK w \in Nat : w = Len(file.packets) * FrameSize
    <3>1. Len(file.packets) \in Nat
      BY <1>1 DEF CutInv, TypeOK, File
    <3>2. QED
      BY <3>1, OneMore
  <2>8. Encoded = B + 1 .. B + (IF w < I THEN w ELSE I) /\ (Whole => I <= w)
    BY <1>1, <2>2, <2>3, <2>7 DEF FileInv, Smallest
  <2>9. /\ B = IF a < 0 THEN 0 ELSE a
        /\ I = LET e == IF b < n THEN b ELSE n IN IF e - B < 0 THEN 0 ELSE e - B
    BY <2>2, <2>3, <2>4, <2>5, <2>6 DEF Before, Inside, Largest, Smallest
  <2>10. PICK x \in Int : x = 2 * SampleRate * window[1]
    BY <2>1, SampleRateAssumption
  <2>11. PICK y \in Int : y = 2 * SampleRate * window[2]
    BY <2>1, SampleRateAssumption
  <2>12. /\ x - 1000 <= 2000 * a /\ 2000 * a <= x + 1000
         /\ y - 1000 <= 2000 * b /\ 2000 * b <= y + 1000
    BY <1>1, <2>1, <2>5, <2>6, <2>10, <2>11, RoundNear DEF CutInv, WindowInv
  <2>13. ASSUME NEW s \in B + 1 .. B + (IF w < I THEN w ELSE I)
         PROVE  2000 * (s - 1) >= x - 1000 /\ 2000 * s <= y + 1000
    <3>1. s \in Int /\ s - 1 >= a /\ s <= b
      BY <2>9
    <3>2. QED
      BY <2>12, <3>1
  <2>14. ASSUME I <= w, NEW s \in 1 .. n,
                2000 * (s - 1) >= x + 1000, 2000 * s <= y - 1000
         PROVE  s \in B + 1 .. B + (IF w < I THEN w ELSE I)
    <3>1. s - 1 >= a /\ s <= b
      BY <2>12, <2>14
    <3>2. QED
      BY <2>9, <2>14, <3>1
  <2>15. QED
    BY <2>4, <2>8, <2>10, <2>11, <2>13, <2>14 DEF WindowInTime
<1>2. CutInv /\ FileInv => WindowInTime
  BY <1>1
<1>3. QED
  BY <1>2, CutFileCorrect, PTL

-------------------------------------------------------------------------------
(* The refinement.                                                           *)

\* The samples of a packet, numbered from the start of the window.
Shifted(x, b) == [i \in DOMAIN x |-> x[i] - b]

\* A packet stays a sequence.
LEMMA ShiftedType ==
  ASSUME NEW x \in Samples, NEW b \in Nat
  PROVE  Shifted(x, b) \in Seq(Int)
<1>1. PICK n \in Nat : n = Len(x)
  BY LenProperties DEF Samples
<1>2. DOMAIN x = 1 .. n /\ \A i \in 1 .. n : x[i] \in Nat
  BY <1>1, LenProperties, ElementOfSeq DEF Samples
<1>3. Shifted(x, b) \in [1 .. n -> Int]
  BY <1>2 DEF Shifted
<1>4. QED
  BY <1>3, FunctionIsSeq

\* The file stays a sequence of packets.
LEMMA FromWindowType ==
  ASSUME NEW b \in Nat, NEW p \in Seq(Samples)
  PROVE  /\ [k \in DOMAIN p |-> Shifted(p[k], b)] \in Seq(Seq(Int))
         /\ Len([k \in DOMAIN p |-> Shifted(p[k], b)]) = Len(p)
<1>1. PICK n \in Nat : n = Len(p)
  BY LenProperties
<1>2. DOMAIN p = 1 .. n /\ \A k \in 1 .. n : p[k] \in Samples
  BY <1>1, LenProperties, ElementOfSeq
<1>3. \A k \in 1 .. n : Shifted(p[k], b) \in Seq(Int)
  BY <1>2, ShiftedType
<1>4. PICK f : f = [k \in DOMAIN p |-> Shifted(p[k], b)]
  OBVIOUS
<1>5. f \in [1 .. n -> Seq(Int)]
  BY <1>2, <1>3, <1>4
<1>6. f \in Seq(Seq(Int)) /\ Len(f) = n
  BY <1>5, FunctionIsSeq
<1>7. QED
  BY <1>1, <1>4, <1>6

\* A packet more in the file is one more, numbered from the window.
LEMMA FromWindowGrows ==
  ASSUME NEW b \in Nat, NEW p \in Seq(Samples), NEW x \in Samples,
         NEW q, q = Append(p, x)
  PROVE  [k \in DOMAIN q |-> Shifted(q[k], b)]
           = Append([k \in DOMAIN p |-> Shifted(p[k], b)], Shifted(x, b))
<1>1. PICK n \in Nat : n = Len(p)
  BY LenProperties
<1>2. /\ q \in Seq(Samples) /\ Len(q) = n + 1 /\ DOMAIN q = 1 .. n + 1 /\ DOMAIN p = 1 .. n
      /\ \A k \in 1 .. n : q[k] = p[k]
      /\ q[n + 1] = x
  BY <1>1, AppendedIs, AppendProperties, LenProperties
<1>3. PICK f \in Seq(Seq(Int)) : f = [k \in DOMAIN p |-> Shifted(p[k], b)] /\ Len(f) = n
  BY <1>1, FromWindowType
<1>4. PICK g \in Seq(Seq(Int)) : g = [k \in DOMAIN q |-> Shifted(q[k], b)] /\ Len(g) = n + 1
  <2>1. PICK u \in Seq(Samples) : u = q
    BY <1>2
  <2>2. /\ [k \in DOMAIN u |-> Shifted(u[k], b)] \in Seq(Seq(Int))
        /\ Len([k \in DOMAIN u |-> Shifted(u[k], b)]) = Len(u)
    BY FromWindowType
  <2>3. QED
    BY <1>2, <2>1, <2>2
<1>5. PICK y \in Seq(Int) : y = Shifted(x, b)
  BY ShiftedType
<1>6. PICK h \in Seq(Seq(Int)) :
        /\ h = Append(f, y) /\ Len(h) = n + 1
        /\ \A k \in 1 .. n : h[k] = f[k]
        /\ h[n + 1] = y
  <2>1. /\ Len(Append(f, y)) = Len(f) + 1
        /\ \A k \in 1 .. Len(f) : Append(f, y)[k] = f[k]
        /\ Append(f, y)[Len(f) + 1] = y
    BY AppendedIs
  <2>2. Append(f, y) \in Seq(Seq(Int))
    BY AppendProperties
  <2>3. QED
    BY <1>3, <2>1, <2>2
<1>7. ASSUME NEW k \in 1 .. n + 1 PROVE g[k] = h[k]
  <2>1. CASE k \in 1 .. n
    BY <1>2, <1>3, <1>4, <1>6, <2>1
  <2>2. CASE k = n + 1
    BY <1>2, <1>4, <1>5, <1>6, <2>2
  <2>3. QED
    BY <2>1, <2>2
<1>8. g = h
  <2>1. Len(g) = Len(h) /\ \A k \in 1 .. Len(g) : g[k] = h[k]
    BY <1>4, <1>6, <1>7
  <2>2. QED
    BY <2>1, SeqEqual
<1>9. QED
  BY <1>3, <1>4, <1>5, <1>6, <1>8

\* The same of the file as it is.
LEMMA FromWindowStep ==
  ASSUME file \in File, Before \in Nat, Before' = Before
  PROVE  /\ Len(FromWindow) = Len(file.packets)
         /\ file'.packets = file.packets => FromWindow' = FromWindow
         /\ \A x \in Samples : file'.packets = Append(file.packets, x)
              => FromWindow' = Append(FromWindow, Shifted(x, Before))
<1>1. PICK p \in Seq(Samples) : p = file.packets
  BY DEF File
<1>2. PICK b \in Nat : b = Before
  OBVIOUS
<1>3. FromWindow = [k \in DOMAIN p |-> Shifted(p[k], b)]
  BY <1>1, <1>2 DEF FromWindow, Shifted
<1>4. Len(FromWindow) = Len(file.packets)
  BY <1>1, <1>3, FromWindowType
<1>5. file'.packets = file.packets => FromWindow' = FromWindow
  BY DEF FromWindow
<1>6. ASSUME NEW x \in Samples, file'.packets = Append(file.packets, x)
      PROVE  FromWindow' = Append(FromWindow, Shifted(x, Before))
  <2>1. PICK q : q = Append(p, x)
    OBVIOUS
  <2>2. FromWindow' = [k \in DOMAIN q |-> Shifted(q[k], b)]
    BY <1>1, <1>2, <1>6, <2>1 DEF FromWindow, Shifted
  <2>3. QED
    BY <1>2, <1>3, <2>1, <2>2, FromWindowGrows
<1>7. QED
  BY <1>4, <1>5, <1>6

\* A frame of the window, numbered from its start, is a frame of a stream that
\* starts there.
LEMMA CodedShifted ==
  ASSUME NEW o \in Nat, NEW w \in Nat, NEW T \in Nat, w < T
  PROVE  Coded(o, w, T) \in Samples /\ Shifted(Coded(o, w, T), o) = Coded(0, w, T)
<1>1. FrameSize \in Nat /\ FrameSize > 0
  BY FrameSizeAssumption
<1>2. (IF T - w < FrameSize THEN T - w ELSE FrameSize) \in Nat
  BY <1>1
<1>3. PICK n \in Nat : n = IF T - w < FrameSize THEN T - w ELSE FrameSize
  BY <1>2
<1>4. Coded(o, w, T) = Run(o + w, n) /\ Coded(0, w, T) = Run(0 + w, n)
  BY <1>3 DEF Coded
<1>5. o + w \in Nat
  OBVIOUS
<1>6. Run(o + w, n) \in Samples
  BY <1>5, RunType DEF Samples
<1>7. Shifted(Run(o + w, n), o) = Run(0 + w, n)
  BY DEF Shifted, Run
<1>8. QED
  BY <1>4, <1>6, <1>7

\* Every step of audio_cut is one of the transcoder of the window.
LEMMA CutPromiseStep ==
  ASSUME Planar, CutInv, CutInv', [CutNext]_cvars
  PROVE  [CutPromise!TNext]_(CutPromise!tvars)
<1>a. /\ TypeOK /\ StageOK /\ CodingInv /\ Flow(Before, Inside)
      /\ Before \in Nat /\ Inside \in Nat /\ file \in File
  BY WindowTypes DEF CutInv, LoopInv, TypeOK
<1>b. LoopEnded <=> Phase = "ended"
  BY <1>a DEF LoopEnded, Phase, TypeOK, Labels
<1>c. LoopEnded' <=> Phase' = "ended"
  BY DEF LoopEnded, Phase, TypeOK, Labels, CutInv
<1>d. PICK B \in Nat : B = Before
  BY <1>a
<1>e. PICK I \in Nat : I = Inside
  BY <1>a
<1>f. Flow(B, I) /\ Before' = Before
  BY <1>a, <1>d, <1>e, CutSteps
<1>g. /\ Len(FromWindow) = Len(file.packets)
      /\ file'.packets = file.packets => FromWindow' = FromWindow
      /\ \A x \in Samples : file'.packets = Append(file.packets, x)
           => FromWindow' = Append(FromWindow, Shifted(x, Before))
  BY <1>a, <1>f, FromWindowStep
<1>h. at \in Moving => Status = "open"
  BY <1>f, OpenStatus DEF Flow, InFile
<1>1. CASE Common
  <2>0. Inside' = Inside
    BY <1>1, CutSteps
  <2>n. PICK n \in Nat : n = Len(file.packets)
    BY <1>a DEF File
  <2> DEFINE k == n + 1
             w == n * FrameSize
             left == I - (k - 1) * FrameSize
  <2>d. /\ (k - 1) * FrameSize = w /\ k * FrameSize = w + FrameSize /\ w \in Nat
        /\ w < I =>
             [i \in 1 .. (IF left < FrameSize THEN left ELSE FrameSize) |->
                (k - 1) * FrameSize + i] = Coded(0, w, I)
        /\ FrameSize \in Nat /\ FrameSize > 0
    BY BlockIsCoded, FrameSizeAssumption
  <2>2. NothingWritten \/ GivenUp \/ CutOff \/ Completed(I) \/ Written(B, I)
    BY <1>1, <1>a, <1>f, OutputCommon
  <2>3. CASE NothingWritten
    BY <1>b, <1>c, <1>g, <2>0, <2>3 DEF NothingWritten, CutPromise!tvars, LoopEnded
  <2>4. CASE GivenUp
    <3>1. LoopEnded' \in BOOLEAN
      BY DEF LoopEnded
    <3>2. QED
      BY <1>a, <1>g, <2>0, <2>4, <3>1 DEF GivenUp, CutPromise!TNext, CutPromise!GiveUp
  <2>c. CASE CutOff
    <3>1. LoopEnded /\ LoopEnded' = LoopEnded
      BY <1>b, <1>c, <2>c DEF CutOff, LoopEnded
    <3>2. QED
      BY <1>g, <2>0, <2>c, <3>1
      DEF CutOff, CutPromise!TNext, CutPromise!Break, CutPromise!FinishBroken
  <2>5. CASE Completed(I)
    <3>1. LoopEnded /\ LoopEnded' = LoopEnded
      BY <1>b, <1>c, <2>5 DEF Completed, LoopEnded
    <3>2. QED
      BY <1>e, <1>g, <2>0, <2>5, <3>1 DEF Completed, CutPromise!TNext, CutPromise!Finish
  <2>6. CASE Written(B, I)
    <3>1. LoopEnded' = LoopEnded /\ (LoopEnded => w < I) /\ (~LoopEnded => w + FrameSize <= I)
      BY <1>b, <1>c, <2>n, <2>6 DEF Written, LoopEnded
    <3>2. w < I
      BY <2>d, <3>1
    <3>3. FromWindow' = Append(FromWindow, CutPromise!Block(k))
      <4>1. file'.packets = Append(file.packets, Coded(B, w, I))
        BY <2>n, <2>6 DEF Written
      <4>2. FromWindow' = Append(FromWindow, Coded(0, w, I))
        <5> HIDE DEF w
        <5>1. Coded(B, w, I) \in Samples /\ Shifted(Coded(B, w, I), B) = Coded(0, w, I)
          BY <2>d, <3>2, CodedShifted
        <5>2. QED
          BY <1>d, <1>g, <4>1, <5>1
      <4>3. CutPromise!BlockLen(k) = IF left < FrameSize THEN left ELSE FrameSize
        BY <1>e DEF CutPromise!BlockLen
      <4>4. CutPromise!Block(k) = Coded(0, w, I)
        BY <2>d, <3>2, <4>3 DEF CutPromise!Block
      <4>5. QED
        BY <4>2, <4>4
    <3>4. IF LoopEnded THEN (k - 1) * FrameSize < Inside ELSE k * FrameSize <= Inside
      BY <2>d, <1>e, <3>1
    <3> HIDE DEF w, left
    <3>5. CutPromise!Emit
      BY <1>g, <2>0, <2>n, <2>6, <3>1, <3>3, <3>4 DEF Written, CutPromise!Emit
    <3>6. QED
      BY <3>5 DEF CutPromise!TNext
  <2>7. QED
    BY <2>2, <2>3, <2>4, <2>c, <2>5, <2>6
<1>2. CASE EndOfInput
  <2>1. /\ at \in Moving /\ ~LoopEnded /\ LoopEnded' = TRUE
        /\ Inside' = Inside /\ file' = file /\ enc' = enc /\ at' = "final"
    BY <1>2, CutSteps DEF AroundReceive, EndOfInput, Goto, Moving, BeforeSend, LoopEnded, out
  <2>2. Status = "open" /\ Status' = "open"
    BY <1>f, <1>h, <2>1, OpenStatusNext DEF Moving, BeforeSend, Flow, InFile
  <2>3. QED
    BY <1>g, <2>1, <2>2 DEF CutPromise!TNext, CutPromise!Seal
<1>3. CASE NoMoreFrames \/ PacketDone
  <2>1. /\ at \in Moving /\ at' \in Moving /\ LoopEnded' = LoopEnded
        /\ Inside' = Inside /\ file' = file /\ enc' = enc
    BY <1>3, CutSteps
    DEF AroundReceive, NoMoreFrames, PacketDone, Goto, Moving, BeforeSend, LoopEnded, out
  <2>2. Status' = Status
    BY <1>f, <2>1, OpenStatus, OpenStatusNext DEF Flow, InFile
  <2>3. QED
    BY <1>g, <2>1, <2>2 DEF CutPromise!tvars
<1>4. CASE CutReceiveFrame
  <2>1. PICK j \in Nat : CutGives(j)
    BY <1>4, <1>a, CutReceived, CutSteps DEF CutInv
  <2>2. /\ Inside' = I + j /\ file' = file /\ enc' = enc /\ at = "receive_frame"
        /\ at' = "receive_frame" \/ (at' = "destroy" /\ ret' # 0)
    BY <1>e, <2>1 DEF CutGives, out
  <2>3. Status = "open" /\ ~LoopEnded /\ FromWindow' = FromWindow
    BY <1>g, <1>h, <2>2 DEF Moving, BeforeSend, LoopEnded
  <2>4. CASE at' = "receive_frame"
    <3>1. Status' = "open" /\ LoopEnded' = LoopEnded
      BY <1>f, <2>2, <2>3, <2>4, OpenStatusNext DEF LoopEnded, Moving, BeforeSend, Flow, InFile
    <3>2. CASE j = 0
      BY <1>e, <2>2, <2>3, <3>1, <3>2 DEF CutPromise!tvars
    <3>3. CASE j # 0
      BY <1>e, <2>2, <2>3, <3>1, <3>3 DEF CutPromise!TNext, CutPromise!Accept
    <3>4. QED
      BY <3>2, <3>3
  <2>5. CASE at' = "destroy" /\ ret' # 0
    <3>1. Status' = "failed" /\ LoopEnded' \in BOOLEAN
      BY <2>5, OpenStatusNext DEF LoopEnded
    <3>2. QED
      BY <1>e, <2>2, <2>3, <3>1 DEF CutPromise!TNext, CutPromise!GiveUp
  <2>6. QED
    BY <2>2, <2>4, <2>5
<1>5. QED
  BY <1>1, <1>2, <1>3, <1>4, CutSteps DEF AroundReceive

\* For planar input audio_cut transcodes the window: the packets in the file are
\* the blocks of its samples in order, wherever it falls in the frames, and run
\* returns 0 only if all that was decoded of it is in the file or the encoder
\* reported an error in the flush.
THEOREM CutTranscodes ==
  ASSUME Planar
  PROVE  CutSpec => CutKeepsPromise
<1>1. CutInit => CutPromise!TInit
  <2>1. SUFFICES ASSUME CutInit PROVE CutPromise!TInit
    OBVIOUS
  <2>2. /\ file.packets = << >> /\ nframes = 0 /\ at = "setup" /\ enc = NewEncoder
    BY <2>1 DEF CutInit, Init
  <2>3. Inside = 0
    <3>1. start_nframes \in Int /\ end_nframes \in Int
      BY <2>1, <2>2, CutStart, WindowTypes DEF CutInv
    <3>2. QED
      BY <2>2, <3>1 DEF Inside, Before, Largest, Smallest
  <2>4. FromWindow = << >>
    BY <2>2 DEF FromWindow
  <2>5. Status = "open" /\ LoopEnded = FALSE
    BY <2>2 DEF Status, LoopEnded, NewEncoder
  <2>6. QED
    BY <2>3, <2>4, <2>5 DEF CutPromise!TInit
<1>2. CutInv /\ CutInv' /\ [CutNext]_cvars => [CutPromise!TNext]_(CutPromise!tvars)
  BY CutPromiseStep
<1>3. QED
  BY <1>1, <1>2, CutCorrect, PTL DEF CutSpec, CutKeepsPromise, CutPromise!TSpec

\* Every variable has its type and the array of plane pointers is gone at the end.
THEOREM CutTyped ==
  ASSUME Planar
  PROVE  CutSpec => []CutTypeOK
<1> DEFINE HandleInv == window \in Windows /\ handle \in BOOLEAN /\ (at = "end" => ~handle)
<1>1. CutInit => HandleInv
  BY DEF CutInit, Init
<1>2. CutInv /\ HandleInv /\ [CutNext]_cvars => HandleInv'
  <2>1. SUFFICES ASSUME HandleInv, [CutNext]_cvars PROVE HandleInv'
    OBVIOUS
  <2>2. window' = window
    BY <2>1, CutSteps
  <2>3. CASE CutSetupOk
    BY <2>1, <2>2, <2>3 DEF CutSetupOk, SetupOk, Goto
  <2>4. CASE CutReceiveFrame /\ UNCHANGED handle
    BY <2>1, <2>2, <2>4 DEF CutReceiveFrame, Goto, Return
  <2>5. CASE CutShared /\ UNCHANGED handle
    <3>1. at' # "end"
      BY <2>5
      DEF CutShared, SetupFails, Reading, ReadOther, ReadAudio, SendPacket,
          SendPacketFails, EndOfInput, NoMoreFrames, PacketDone, Encoding, DrainFrame,
          SendEncodeFrame, ReceivePacket, PacketsWritten, FinalConvert, FinalSend,
          Flush, FlushReceive, FlushDone, FlushReceiveFails, WriteTrailer, Release,
          Send, Receive, NoMorePackets, Goto, Return
    <3>2. QED
      BY <2>1, <2>2, <2>5, <3>1
  <2>6. CASE CutExit
    BY <2>1, <2>2, <2>6 DEF CutExit
  <2>7. CASE UNCHANGED cvars
    BY <2>1, <2>7 DEF cvars, vars
  <2>8. QED
    BY <2>1, <2>3, <2>4, <2>5, <2>6, <2>7 DEF CutNext
<1>3. CutInv /\ HandleInv => CutTypeOK
  BY WindowTypes DEF CutInv, TypeOK, CutTypeOK
<1> HIDE DEF HandleInv
<1>4. QED
  BY <1>1, <1>2, <1>3, CutCorrect, PTL DEF CutSpec

-------------------------------------------------------------------------------
(* The tools of two passes.                                                  *)

\* What a step of either tool does to the variables they share with
\* audio_convert.
TwoPassStep ==
  Common \/ BufferFrame \/ PacketBuffered \/ InputBuffered \/ Drained

\* Every step of audio_gradient is one of them.
LEMMA GradientSteps == [GNext]_gvars => TwoPassStep
  BY DEF GNext, gvars, pvars, TwoPassStep, Common, Takes, Others, Reading, Encoding

\* And so is every step of audio_volume.
LEMMA VolumeSteps == [WNext]_wvars => TwoPassStep
  BY DEF WNext, wvars, pvars, TwoPassStep, Common, Takes, Others, CountFrame,
         PrintStats, WExit, Reading, Encoding

-------------------------------------------------------------------------------
(* The samples keep their order.                                             *)

\* The input is buffered as the samples of one stream.
TwoPassInv == TypeOK /\ StageOK /\ CodingInv /\ Flow(0, nframes)

\* swr takes the frame, or the call returns an error.
LEMMA BufferFrameType ==
  ASSUME TypeOK, BufferFrame
  PROVE  /\ TypeOK' /\ Head(dec) \in Nat /\ Head(dec) > 0
         /\ nframes' = nframes + Head(dec)
         /\ NextSamples \in Seq(Nat) /\ Len(NextSamples) = Head(dec)
         /\ at = "receive_frame"
         /\ \/ at' = "receive_frame" /\ fifo' = fifo \o NextSamples
            \/ at' = "destroy" /\ ret' # 0
         /\ enc' = enc /\ drop' = drop /\ file' = file
<1>1. /\ Head(dec) \in Nat /\ Head(dec) > 0 /\ Tail(dec) \in Seq(Nat \ {0})
      /\ NextSamples \in Seq(Nat) /\ Len(NextSamples) = Head(dec)
  BY FrameOfDecoder DEF BufferFrame
<1>2. \/ at' = "receive_frame" /\ ret' = ret /\ fifo' = fifo \o NextSamples
      \/ at' = "destroy" /\ ret' = -18000 /\ fifo' = fifo
  BY DEF BufferFrame, Goto, Return
<1>3. fifo' \in Samples
  <2>1. fifo \in Seq(Nat) /\ fifo \o NextSamples \in Seq(Nat)
    BY <1>1, ConcatProperties DEF Samples, TypeOK
  <2>2. fifo' = fifo \/ fifo' = fifo \o NextSamples
    BY <1>2
  <2>3. QED
    BY <2>1, <2>2 DEF Samples
<1>4. nframes' \in Nat /\ dec' \in Seq(Nat \ {0})
  BY <1>1 DEF BufferFrame, TypeOK
<1>5. TypeOK'
  BY <1>2, <1>3, <1>4 DEF BufferFrame, TypeOK, Labels, own, out
<1>6. QED
  BY <1>1, <1>2, <1>5 DEF BufferFrame, out

\* Every step keeps the invariant.
LEMMA TwoPassInductive == TwoPassInv /\ TwoPassStep => TwoPassInv'
<1> SUFFICES ASSUME TwoPassInv, TwoPassStep PROVE TwoPassInv'
  OBVIOUS
<1>a. TypeOK /\ StageOK /\ CodingInv /\ Flow(0, nframes) /\ nframes \in Nat
  BY DEF TwoPassInv, TypeOK
<1>1. PICK T \in Nat : T = nframes
  BY <1>a
<1>b. Flow(0, T)
  BY <1>a, <1>1
<1>2. CASE Common
  <2>1. TypeOK' /\ StageOK' /\ CodingInv'
    BY <1>2, <1>a, TypeCommon, CodingCommon
  <2>2. Flow(0, T)' /\ T = nframes'
    BY <1>2, <1>a, <1>b, <1>1, FlowCommon, CommonDecodesNothing
  <2>3. QED
    BY <2>1, <2>2 DEF TwoPassInv
<1>3. CASE BufferFrame
  <2>1. TypeOK' /\ StageOK'
    BY <1>3, <1>a, BufferFrameType DEF StageOK
  <2>2. CodingInv'
    BY <1>3, <1>a, BufferFrameType
    DEF CodingInv, EncoderInv, FrameInv, FullInv, SwrEmptied, BeforeSend
  <2>3. Flow(0, nframes)'
    <3>1. PICK k \in Nat : k = Head(dec)
      BY <1>3, <1>a, BufferFrameType
    <3>2. nframes' = T + k /\ NextSamples = Run(0 + T, k)
      BY <1>1, <1>3, <3>1 DEF BufferFrame, NextSamples, Run
    <3>3. CASE at' = "destroy"
      BY <3>3 DEF Flow, Moving, BeforeSend
    <3>4. CASE at' = "receive_frame" /\ fifo' = fifo \o NextSamples
      <4>1. /\ at = "receive_frame" /\ at' = "receive_frame"
            /\ fifo' = fifo \o Run(0 + T, k)
            /\ enc' = enc /\ drop' = drop /\ file'.packets = file.packets
        BY <1>3, <1>a, <3>2, <3>4, BufferFrameType
      <4>2. Flow(0, T + k)'
        BY <1>a, <1>b, <4>1, FlowAccepts
      <4>3. QED
        BY <3>2, <4>2
    <3>5. QED
      BY <1>3, <1>a, <3>3, <3>4, BufferFrameType
  <2>4. QED
    BY <2>1, <2>2, <2>3 DEF TwoPassInv
<1>4. CASE PacketBuffered \/ InputBuffered \/ Drained
  <2>1. TypeOK' /\ StageOK'
    BY <1>4, <1>a
    DEF PacketBuffered, InputBuffered, Drained, TypeOK, StageOK, Goto, Drop, Labels,
        own, conv, out
  <2>2. CodingInv'
    BY <1>4, <1>a
    DEF PacketBuffered, InputBuffered, Drained, Goto, conv, out,
        CodingInv, EncoderInv, FrameInv, FullInv, SwrEmptied, BeforeSend
  <2>3. Flow(0, T)'
    BY <1>4, <1>b, FlowStays
    DEF PacketBuffered, InputBuffered, Drained, Goto, Sending, BeforeSend, conv, out
  <2>4. T = nframes'
    BY <1>1, <1>4 DEF PacketBuffered, InputBuffered, Drained, conv
  <2>5. QED
    BY <2>1, <2>2, <2>3, <2>4 DEF TwoPassInv
<1>5. QED
  BY <1>2, <1>3, <1>4 DEF TwoPassStep

\* It holds at first.
LEMMA TwoPassInit == Init => TwoPassInv
<1> SUFFICES ASSUME Init PROVE TwoPassInv
  OBVIOUS
<1>1. nframes = 0 /\ Flow(0, 0)
  BY FlowInit DEF Init
<1>2. QED
  BY <1>1, TypeInit, CodingInit DEF TwoPassInv

-------------------------------------------------------------------------------
(* The refinement.                                                           *)

\* The labels at which the input is sealed, and the steps between them.
LEMMA InputPhases ==
  /\ TypeOK => (InputEnded <=> Phase # "input")
  /\ TypeOK' => (InputEnded' <=> Phase' # "input")
  BY DEF InputEnded, Phase, TypeOK, Labels

\* Every step of either tool is one of the transcoder.
LEMMA TwoPassPromiseStep ==
  ASSUME TwoPassInv, TwoPassStep
  PROVE  [TwoPassPromise!TNext]_(TwoPassPromise!tvars)
<1>a. TypeOK /\ StageOK /\ CodingInv /\ Flow(0, nframes) /\ nframes \in Nat
  BY DEF TwoPassInv, TypeOK
<1>b. TypeOK' /\ Flow(0, nframes)'
  BY TwoPassInductive DEF TwoPassInv
<1>c. (InputEnded <=> Phase # "input") /\ (InputEnded' <=> Phase' # "input")
  BY <1>a, <1>b, InputPhases
<1>d. InputEnded \in BOOLEAN /\ InputEnded' \in BOOLEAN
  BY DEF InputEnded
<1>1. CASE Common
  <2>0. nframes' = nframes
    BY <1>1, CommonDecodesNothing
  <2>1. PICK T \in Nat : T = nframes
    BY <1>a
  <2>2. PICK n \in Nat : n = Len(file.packets)
    BY <1>a DEF TypeOK, File
  <2> DEFINE k == n + 1
             w == n * FrameSize
             left == T - (k - 1) * FrameSize
  <2>3. /\ (k - 1) * FrameSize = w /\ k * FrameSize = w + FrameSize /\ w \in Nat
        /\ w < T =>
             [i \in 1 .. (IF left < FrameSize THEN left ELSE FrameSize) |->
                (k - 1) * FrameSize + i] = Coded(0, w, T)
    BY BlockIsCoded
  <2>4. NothingWritten \/ GivenUp \/ CutOff \/ Completed(T) \/ Written(0, T)
    BY <1>1, <1>a, <2>1, OutputCommon
  <2>5. CASE NothingWritten
    BY <1>c, <1>d, <2>0, <2>5 DEF NothingWritten, TwoPassPromise!tvars
  <2>6. CASE GivenUp
    BY <1>a, <1>d, <2>0, <2>6 DEF GivenUp, TwoPassPromise!TNext, TwoPassPromise!GiveUp
  <2>c. CASE CutOff
    <3>1. InputEnded /\ InputEnded' = InputEnded
      BY <1>c, <1>d, <2>c DEF CutOff
    <3>2. QED
      BY <2>0, <2>c, <3>1
      DEF CutOff, TwoPassPromise!TNext, TwoPassPromise!Break, TwoPassPromise!FinishBroken
  <2>7. CASE Completed(T)
    <3>1. InputEnded /\ InputEnded' = InputEnded
      BY <1>c, <1>d, <2>7 DEF Completed
    <3>2. QED
      BY <2>0, <2>1, <2>7, <3>1
      DEF Completed, TwoPassPromise!TNext, TwoPassPromise!Finish
  <2>8. CASE Written(0, T)
    <3>1. file'.packets = Append(file.packets, Coded(0, w, T)) /\ w < Sent(T) /\ Sent(T) <= T
          /\ Status = "open" /\ Status' = "open" /\ Phase' = Phase /\ Phase # "input"
      BY <2>2, <2>8 DEF Written
    <3>2. InputEnded /\ InputEnded' = InputEnded
      BY <1>c, <1>d, <3>1
    <3>3. w < T
      <4>1. Sent(T) \in Int
        BY <1>a, <2>1 DEF Sent, TypeOK, Samples
      <4>2. QED
        BY <2>3, <3>1, <4>1
    <3>4. TwoPassPromise!Block(k) = Coded(0, w, T)
      <4>1. TwoPassPromise!BlockLen(k) = IF left < FrameSize THEN left ELSE FrameSize
        BY <2>1 DEF TwoPassPromise!BlockLen
      <4>2. QED
        BY <2>3, <3>3, <4>1 DEF TwoPassPromise!Block
    <3>5. (k - 1) * FrameSize < nframes
      BY <2>1, <2>3, <3>3
    <3> HIDE DEF w, left
    <3>6. TwoPassPromise!Emit
      BY <2>0, <2>2, <3>1, <3>2, <3>4, <3>5 DEF TwoPassPromise!Emit
    <3>7. QED
      BY <3>6 DEF TwoPassPromise!TNext
  <2>9. QED
    BY <2>4, <2>5, <2>6, <2>c, <2>7, <2>8
<1>2. at \in Moving /\ Phase = "input" => Status = "open" /\ ~InputEnded
  BY <1>a, <1>c, OpenStatus DEF Flow, InFile
<1>3. CASE BufferFrame
  <2>1. /\ nframes' = nframes + Head(dec) /\ Head(dec) \in Nat /\ Head(dec) > 0
        /\ at = "receive_frame" /\ enc' = enc /\ file' = file
        /\ (at' = "receive_frame" \/ (at' = "destroy" /\ ret' # 0))
    BY <1>3, <1>a, BufferFrameType
  <2>2. Status = "open" /\ ~InputEnded /\ nframes' \in Nat /\ nframes' > nframes
    BY <1>a, <1>2, <2>1 DEF Moving, BeforeSend, Phase
  <2>3. CASE at' = "receive_frame"
    <3>1. Status' = "open" /\ InputEnded' = InputEnded
      BY <1>b, <2>2, <2>3, OpenStatusNext DEF InputEnded, Moving, BeforeSend, Flow, InFile
    <3>2. QED
      BY <2>1, <2>2, <3>1 DEF TwoPassPromise!TNext, TwoPassPromise!Accept
  <2>4. CASE at' = "destroy" /\ ret' # 0
    <3>1. /\ Status = "open" /\ Status' = "failed" /\ InputEnded' \in BOOLEAN
          /\ file'.packets = file.packets
      BY <1>d, <2>1, <2>2, <2>4, OpenStatusNext
    <3>2. nframes' \in Nat /\ nframes' >= nframes
      BY <1>a, <2>2
    <3>3. QED
      BY <3>1, <3>2 DEF TwoPassPromise!TNext, TwoPassPromise!GiveUp
  <2>5. QED
    BY <2>1, <2>3, <2>4
<1>4. CASE PacketBuffered \/ Drained
  <2>1. /\ at \in Moving /\ at' \in Moving /\ InputEnded' = InputEnded
        /\ nframes' = nframes /\ file' = file /\ enc' = enc
    BY <1>4 DEF PacketBuffered, Drained, Goto, Moving, BeforeSend, InputEnded, out, conv
  <2>2. Status' = Status
    BY <1>a, <2>1, OpenStatus, OpenStatusNext DEF Flow, InFile
  <2>3. QED
    BY <2>1, <2>2 DEF TwoPassPromise!tvars
<1>5. CASE InputBuffered
  <2>1. /\ Status = "open" /\ ~InputEnded /\ InputEnded' = TRUE
        /\ nframes' = nframes /\ file' = file /\ enc' = enc /\ at' = "drain"
    BY <1>5, <1>2 DEF InputBuffered, Goto, Moving, BeforeSend, Phase, InputEnded, out, conv
  <2>2. Status' = "open"
    BY <1>b, <2>1, OpenStatusNext DEF Moving, BeforeSend, Flow, InFile
  <2>3. QED
    BY <2>1, <2>2 DEF TwoPassPromise!TNext, TwoPassPromise!Seal
<1>6. QED
  BY <1>1, <1>3, <1>4, <1>5 DEF TwoPassStep

\* Neither tool starts with a promise broken.
LEMMA TwoPassPromiseInit == Init => TwoPassPromise!TInit
  BY DEF Init, TwoPassPromise!TInit, Status, InputEnded, NewEncoder

\* audio_gradient keeps its samples in order.
LEMMA GradientInvariant == GSpec => []TwoPassInv
<1>1. GInit => TwoPassInv
  BY TwoPassInit DEF GInit
<1>2. TwoPassInv /\ [GNext]_gvars => TwoPassInv'
  BY GradientSteps, TwoPassInductive
<1>3. QED
  BY <1>1, <1>2, PTL DEF GSpec

\* So does audio_volume.
LEMMA VolumeInvariant == WSpec => []TwoPassInv
<1>1. WInit => TwoPassInv
  BY TwoPassInit DEF WInit
<1>2. TwoPassInv /\ [WNext]_wvars => TwoPassInv'
  BY VolumeSteps, TwoPassInductive
<1>3. QED
  BY <1>1, <1>2, PTL DEF WSpec

\* The file audio_gradient writes is a transcoding of the whole input: its
\* packets are the blocks of the samples that were buffered, in order, and run
\* returns 0 only if all of them are in it or the encoder reported an error in the
\* flush.
THEOREM GradientTranscodes == GSpec => TwoPassKeepsPromise
<1>1. GInit => TwoPassPromise!TInit
  BY TwoPassPromiseInit DEF GInit
<1>2. TwoPassInv /\ [GNext]_gvars => [TwoPassPromise!TNext]_(TwoPassPromise!tvars)
  BY GradientSteps, TwoPassPromiseStep
<1>3. QED
  BY <1>1, <1>2, GradientInvariant, PTL
  DEF GSpec, TwoPassKeepsPromise, TwoPassPromise!TSpec

\* So is the file audio_volume writes.
THEOREM VolumeTranscodes == WSpec => TwoPassKeepsPromise
<1>1. WInit => TwoPassPromise!TInit
  BY TwoPassPromiseInit DEF WInit
<1>2. TwoPassInv /\ [WNext]_wvars => [TwoPassPromise!TNext]_(TwoPassPromise!tvars)
  BY VolumeSteps, TwoPassPromiseStep
<1>3. QED
  BY <1>1, <1>2, VolumeInvariant, PTL
  DEF WSpec, TwoPassKeepsPromise, TwoPassPromise!TSpec

-------------------------------------------------------------------------------
(* What the file holds, and what it is tuned with.                           *)

\* The k-th packet of the file is the k-th block of the input.
PacketsInv ==
  /\ Phase = "input" => file.packets = << >>
  /\ \A k \in DOMAIN file.packets :
       file.packets[k] = Coded(0, (k - 1) * FrameSize, nframes)

\* The packet written next: its samples have left swr.
NextPacket ==
  LET w == Len(file.packets) * FrameSize
  IN  /\ Phase # "input" /\ Phase' = Phase /\ at \notin {"destroy", "end"} /\ at' \notin {"destroy", "end"}
      /\ file'.packets = Append(file.packets, Coded(0, w, nframes))
      /\ w < nframes - Len(fifo)

\* A step decodes before the first packet is written, or writes the next packet,
\* or neither.
LEMMA OutputStep ==
  ASSUME TwoPassInv, TwoPassStep
  PROVE  /\ Phase' = "input" => Phase = "input"
         /\ Phase # "input" => nframes' = nframes
         /\ file'.packets = file.packets \/ NextPacket
<1>a. TypeOK /\ StageOK /\ CodingInv /\ Flow(0, nframes) /\ nframes \in Nat
  BY DEF TwoPassInv, TypeOK
<1>b. TypeOK' /\ Flow(0, nframes)'
  BY TwoPassInductive DEF TwoPassInv
<1>1. CASE Common
  <2>0. nframes' = nframes
    BY <1>1, CommonDecodesNothing
  <2>1. PICK T \in Nat : T = nframes
    BY <1>a
  <2>2. NothingWritten \/ GivenUp \/ CutOff \/ Completed(T) \/ Written(0, T)
    BY <1>1, <1>a, <2>1, OutputCommon
  <2>3. CASE NothingWritten \/ CutOff \/ Completed(T)
    BY <2>0, <2>3 DEF NothingWritten, CutOff, Completed
  <2>4. CASE GivenUp
    <3>1. Status' = "failed" /\ file'.packets = file.packets
      BY <2>4 DEF GivenUp
    <3>2. Phase' # "input"
      BY <1>b, <3>1, OpenStatusNext DEF Phase, Flow, InFile, Moving, BeforeSend
    <3>3. QED
      BY <2>0, <3>1, <3>2
  <2>5. CASE Written(0, T)
    <3> DEFINE w == Len(file.packets) * FrameSize
    <3>1. /\ file'.packets = Append(file.packets, Coded(0, w, nframes))
          /\ Status = "open" /\ Status' = "open"
          /\ Phase' = Phase /\ Phase # "input" /\ w < Sent(nframes)
      BY <2>1, <2>5 DEF Written
    <3>2. at \notin {"destroy", "end"} /\ at' \notin {"destroy", "end"}
      BY <3>1 DEF Status
    <3>3. w \in Int
      <4>1. Len(file.packets) \in Nat
        BY <1>a DEF TypeOK, File
      <4>2. QED
        BY <4>1, OneMore
    <3>4. w < nframes - Len(fifo)
      <4>1. Len(fifo) \in Nat /\ Len(frame) \in Nat
        BY <1>a DEF TypeOK, Samples
      <4>2. Sent(nframes) = nframes - Len(fifo) \/ Sent(nframes) = nframes - Len(fifo) - Len(frame)
        BY <1>a, <4>1 DEF Sent
      <4> HIDE DEF w
      <4>3. QED
        BY <1>a, <3>1, <3>3, <4>1, <4>2
    <3>5. QED
      BY <2>0, <3>1, <3>2, <3>4 DEF NextPacket
  <2>6. QED
    BY <2>2, <2>3, <2>4, <2>5
<1>2. CASE BufferFrame
  <2>1. at = "receive_frame" /\ file' = file
    BY <1>2, <1>a, BufferFrameType
  <2>2. QED
    BY <2>1 DEF Phase
<1>3. CASE PacketBuffered \/ InputBuffered \/ Drained
  BY <1>3 DEF PacketBuffered, InputBuffered, Drained, Goto, Phase, out, conv
<1>4. QED
  BY <1>1, <1>2, <1>3 DEF TwoPassStep

\* Every step keeps what the file holds.
LEMMA PacketsInductive ==
  ASSUME TwoPassInv, PacketsInv, TwoPassStep
  PROVE  PacketsInv'
<1>a. nframes \in Nat /\ file.packets \in Seq(Samples)
  BY DEF TwoPassInv, TypeOK, File
<1>1. /\ Phase' = "input" => Phase = "input"
      /\ Phase # "input" => nframes' = nframes
      /\ file'.packets = file.packets \/ NextPacket
  BY OutputStep
<1>2. CASE Phase = "input"
  <2>1. file'.packets = << >>
    BY <1>1, <1>2 DEF PacketsInv, NextPacket
  <2>2. QED
    BY <2>1 DEF PacketsInv
<1>3. CASE Phase # "input" /\ file'.packets = file.packets
  BY <1>1, <1>3 DEF PacketsInv
<1>4. CASE NextPacket
  <2>1. PICK n \in Nat : n = Len(file.packets)
    BY <1>a
  <2>2. /\ file'.packets = Append(file.packets, Coded(0, n * FrameSize, nframes))
        /\ Phase # "input" /\ Phase' # "input"
    BY <1>4, <2>1 DEF NextPacket
  <2>3. ASSUME NEW k \in DOMAIN file'.packets
        PROVE  file'.packets[k] = Coded(0, (k - 1) * FrameSize, nframes)
    <3>1. /\ k \in 1 .. n + 1
          /\ k = n + 1 => file'.packets[k] = Coded(0, n * FrameSize, nframes)
          /\ k \in 1 .. n => file'.packets[k] = file.packets[k]
      BY <1>a, <2>1, <2>2, <2>3
    <3>2. CASE k = n + 1
      <4>1. k - 1 = n
        BY <2>1, <3>2
      <4>2. QED
        BY <3>1, <3>2, <4>1
    <3>3. CASE k \in 1 .. n
      BY <1>a, <2>1, <3>1, <3>3 DEF PacketsInv
    <3>4. QED
      BY <2>1, <3>1, <3>2, <3>3
  <2>4. QED
    BY <1>1, <2>2, <2>3 DEF PacketsInv
<1>5. QED
  BY <1>1, <1>2, <1>3, <1>4

\* Nothing is written at first.
LEMMA PacketsInit == Init => PacketsInv
  BY DEF Init, PacketsInv, Phase

\* Where run reads, and where it is after a frame was taken out of swr that may
\* be followed by another one.
Input == {"setup", "read", "send_packet", "receive_frame"}

Taking == {"drain", "send_frame", "receive_packet", "final"}

Finishing == {"final_send", "flush", "flush_receive", "trailer"}

Stopped == {"destroy", "end"}

\* The steps that take nothing out of swr and put nothing in.
LEMMA OthersKeep ==
  ASSUME TypeOK, Others
  PROVE  /\ Len(fifo') = Len(fifo) /\ nframes' = nframes /\ at # "end"
         /\ \/ at' \in Stopped
            \/ at \in Input /\ at' \in Input
            \/ at \in Taking /\ at' \in Taking
            \/ at \in Taking \cup Finishing /\ at' \in Finishing
<1> USE DEF Input, Taking, Finishing, Stopped, Goto, Return, conv
<1>1. CASE SetupOk \/ SetupFails \/ Reading \/ PacketBuffered \/ Drained
  BY <1>1 DEF SetupOk, SetupFails, Reading, ReadOther, ReadAudio, SendPacket,
              SendPacketFails, PacketBuffered, Drained
<1>2. CASE SendEncodeFrame \/ ReceivePacket \/ PacketsWritten
  BY <1>2 DEF SendEncodeFrame, ReceivePacket, PacketsWritten, Send, Receive, NoMorePackets
<1>3. CASE FinalConvert /\ fifo = << >>
  <2>1. fifo \in Samples /\ Len(fifo) = 0
    BY <1>3 DEF TypeOK
  <2>2. fifo' = << >>
    BY <1>3, <2>1, ConvertLengths, FrameSizeAssumption DEF FinalConvert
  <2>3. Len(fifo') = Len(fifo)
    BY <1>3, <2>2
  <2>4. nframes' = nframes /\ at = "final" /\ at' = "flush"
    BY <1>3 DEF FinalConvert, Convert
  <2>5. QED
    BY <2>3, <2>4
<1>4. CASE FinalSend \/ Flush \/ FlushReceive \/ FlushDone \/ FlushReceiveFails
  BY <1>4 DEF FinalSend, Flush, FlushReceive, FlushDone, FlushReceiveFails, Send,
              Receive, NoMorePackets
<1>5. CASE WriteTrailer \/ Release
  BY <1>5 DEF WriteTrailer, Release
<1>6. QED
  BY <1>1, <1>2, <1>3, <1>4, <1>5 DEF Others

-------------------------------------------------------------------------------
(* audio_gradient.                                                           *)

\* The j-th frame was tuned at the place it begins at in the input.  Up to the
\* last one the frames are full.
GradientInv ==
  /\ tuned \in Seq(Nat \X Nat) /\ pos \in Nat
  /\ Phase = "input" => tuned = << >> /\ pos = 0 /\ Len(fifo) = nframes
  /\ \A j \in DOMAIN tuned : tuned[j] = << (j - 1) * FrameSize, nframes >>
  /\ at \in Taking \cup Finishing =>
       pos = nframes - Len(fifo) /\ pos <= Len(tuned) * FrameSize
  /\ at \in Taking => pos = Len(tuned) * FrameSize
  /\ Len(file.packets) <= Len(tuned)

\* The labels are those of the phases.
LEMMA PhaseLabels ==
  /\ Phase = "input" <=> at \in Input
  /\ Phase' = "input" <=> at' \in Input
  /\ TypeOK => at \in Input \cup Taking \cup Finishing \cup Stopped
  BY DEF Phase, Input, Taking, Finishing, Stopped, TypeOK, Labels

\* A frame is taken out of swr.
LEMMA TakesFrame ==
  ASSUME TypeOK, Takes
  PROVE  /\ at \in {"drain", "final"} /\ at' \in {"send_frame", "final_send", "destroy"}
         /\ at' = "send_frame" => Len(frame') = FrameSize
         /\ Len(frame') \in 0 .. FrameSize /\ Len(fifo') = Len(fifo) - Len(frame')
         /\ nframes' = nframes /\ file' = file
<1>a. fifo \in Samples /\ dec \in Seq(Nat \ {0}) /\ nframes \in Nat /\ Convert
      /\ Len(fifo) \in Nat
  BY DEF TypeOK, Takes, DrainFrame, FinalConvert, Samples
<1>1. /\ Len(frame') = IF Len(fifo) < FrameSize THEN Len(fifo) ELSE FrameSize
      /\ Len(fifo') = Len(fifo) - Len(frame')
  BY <1>a, ConvertType
<1>2. Len(frame') \in 0 .. FrameSize
  BY <1>a, <1>1, FrameSizeAssumption
<1>3. at' = "send_frame" => Len(fifo) > FrameSize
  BY DEF Takes, DrainFrame, FinalConvert, Goto, Return
<1>4. /\ at \in {"drain", "final"} /\ nframes' = nframes /\ file' = file
      /\ at' \in {"send_frame", "final_send", "destroy"}
  BY DEF Takes, DrainFrame, FinalConvert, Goto, Return, Convert, out
<1>5. at' = "send_frame" => Len(frame') = FrameSize
  BY <1>a, <1>1, <1>3, FrameSizeAssumption
<1>6. QED
  BY <1>1, <1>2, <1>4, <1>5

\* Products with the size of a frame are ordered as their factors.
LEMMA BelowProduct ==
  ASSUME NEW m \in Nat, NEW n \in Nat, m * FrameSize < n * FrameSize
  PROVE  m + 1 <= n
<1>1. SUFFICES ASSUME n <= m PROVE FALSE
  OBVIOUS
<1>2. FrameSize \in Nat /\ m - n \in Nat
  BY <1>1, FrameSizeAssumption
<1>3. (m - n) * FrameSize \in Nat /\ m * FrameSize = n * FrameSize + (m - n) * FrameSize
  BY <1>2
<1>4. m * FrameSize \in Nat /\ n * FrameSize \in Nat
  BY <1>2
<1>5. QED
  BY <1>3, <1>4

\* Every step of audio_gradient keeps the frames in place.
LEMMA GradientInductive ==
  ASSUME TwoPassInv, GradientInv, [GNext]_gvars
  PROVE  GradientInv'
<1>a. /\ TypeOK /\ nframes \in Nat /\ Len(fifo) \in Nat /\ file.packets \in Seq(Samples)
      /\ Len(file.packets) \in Nat /\ FrameSize \in Nat /\ FrameSize > 0
  BY FrameSizeAssumption DEF TwoPassInv, TypeOK, Samples, File
<1>b. TypeOK'
  BY GradientSteps, TwoPassInductive DEF TwoPassInv
<1>c. /\ Phase' = "input" => Phase = "input"
      /\ Phase # "input" => nframes' = nframes
      /\ file'.packets = file.packets \/ NextPacket
  BY GradientSteps, OutputStep
<1>d. /\ tuned \in Seq(Nat \X Nat) /\ pos \in Nat /\ Len(tuned) \in Nat
      /\ Phase = "input" => tuned = << >> /\ pos = 0 /\ Len(fifo) = nframes
      /\ \A j \in DOMAIN tuned : tuned[j] = << (j - 1) * FrameSize, nframes >>
      /\ at \in Taking \cup Finishing =>
           pos = nframes - Len(fifo) /\ pos <= Len(tuned) * FrameSize
      /\ at \in Taking => pos = Len(tuned) * FrameSize
      /\ Len(file.packets) <= Len(tuned)
  BY DEF GradientInv
<1>1. CASE Takes /\ Tune
  <2>1. /\ at \in Taking /\ at' \in {"send_frame", "final_send", "destroy"}
        /\ at' = "send_frame" => Len(frame') = FrameSize
        /\ Len(frame') \in 0 .. FrameSize /\ Len(fifo') = Len(fifo) - Len(frame')
        /\ nframes' = nframes /\ file' = file
    BY <1>1, <1>a, TakesFrame DEF Taking
  <2>2. PICK n \in Nat : n = Len(tuned)
    BY <1>d
  <2>3. PICK l \in Nat : l = Len(frame') /\ l <= FrameSize
    BY <1>a, <2>1
  <2>4. tuned' = Append(tuned, << n * FrameSize, nframes >>) /\ pos' = n * FrameSize + l
    BY <1>1, <1>d, <2>1, <2>2, <2>3 DEF Tune
  <2>5. n * FrameSize \in Nat /\ (n + 1) * FrameSize = n * FrameSize + FrameSize
    BY OneMore
  <2>6. /\ << n * FrameSize, nframes >> \in Nat \X Nat
        /\ tuned' \in Seq(Nat \X Nat) /\ Len(tuned') = n + 1
        /\ tuned'[n + 1] = << n * FrameSize, nframes >>
        /\ \A j \in 1 .. n : tuned'[j] = tuned[j]
    BY <1>a, <1>d, <2>2, <2>4, <2>5
  <2>7. ASSUME NEW j \in DOMAIN tuned'
        PROVE  tuned'[j] = << (j - 1) * FrameSize, nframes >>
    <3>1. j \in 1 .. n + 1
      BY <2>6
    <3>2. CASE j = n + 1
      <4>1. j - 1 = n
        BY <2>2, <3>2
      <4>2. QED
        BY <2>6, <3>2, <4>1
    <3>3. CASE j \in 1 .. n
      BY <1>d, <2>2, <2>6, <3>3
    <3>4. QED
      BY <3>1, <3>2, <3>3
  <2>8. Phase' # "input"
    BY <2>1 DEF Phase
  <2>9. /\ pos' \in Nat /\ pos' = nframes' - Len(fifo')
        /\ pos' <= Len(tuned') * FrameSize
        /\ at' \in Taking => pos' = Len(tuned') * FrameSize
    <3>1. n * FrameSize = nframes - Len(fifo) /\ Len(fifo') = Len(fifo) - l
      BY <1>d, <2>1, <2>2, <2>3
    <3>2. Len(tuned') * FrameSize = n * FrameSize + FrameSize
      BY <2>5, <2>6
    <3>3. at' \in Taking => l = FrameSize
      BY <2>1, <2>3 DEF Taking
    <3> DEFINE m == n * FrameSize
    <3> HIDE DEF m
    <3>4. m \in Nat /\ m = nframes - Len(fifo) /\ pos' = m + l
          /\ Len(tuned') * FrameSize = m + FrameSize
      BY <2>4, <2>5, <3>1, <3>2 DEF m
    <3>5. pos' = nframes - (Len(fifo) - l)
      BY <1>a, <2>3, <3>4
    <3>6. QED
      BY <1>a, <2>1, <2>3, <3>1, <3>3, <3>4, <3>5
  <2>10. Len(file'.packets) <= Len(tuned')
    <3>1. Len(file'.packets) = Len(file.packets) /\ Len(file.packets) <= n
      BY <1>d, <2>1, <2>2
    <3>2. QED
      BY <1>a, <2>6, <3>1
  <2>11. QED
    BY <2>1, <2>6, <2>7, <2>8, <2>9, <2>10 DEF GradientInv
<1>2. ASSUME UNCHANGED << tuned, pos >>,
             at \in Taking \cup Finishing, at' \in Taking \cup Finishing,
             at' \in Taking => at \in Taking,
             Len(fifo') = Len(fifo), nframes' = nframes
      PROVE  GradientInv'
  <2>1. Phase # "input" /\ Phase' # "input"
    BY <1>2, PhaseLabels DEF Input, Taking, Finishing
  <2>2. Len(file'.packets) <= Len(tuned)
    <3>1. CASE file'.packets = file.packets
      BY <1>d, <3>1
    <3>2. CASE NextPacket
      <4>1. PICK n \in Nat : n = Len(file.packets)
        BY <1>a
      <4>2. PICK m \in Nat : m = Len(tuned)
        BY <1>d
      <4>3. /\ n * FrameSize < nframes - Len(fifo) /\ Len(file'.packets) = n + 1
        BY <1>a, <3>2, <4>1 DEF NextPacket
      <4>4. n * FrameSize < m * FrameSize
        <5> DEFINE u == n * FrameSize
                   v == m * FrameSize
        <5>1. u \in Nat /\ v \in Nat /\ u < pos /\ pos <= v
          BY <1>d, <1>2, <4>1, <4>2, <4>3, OneMore
        <5> HIDE DEF u, v
        <5>2. u < v
          BY <1>d, <5>1
        <5>3. QED
          BY <5>2 DEF u, v
      <4>5. n + 1 <= m
        BY <4>4, BelowProduct
      <4>6. QED
        BY <4>2, <4>3, <4>5
    <3>3. QED
      BY <1>c, <3>1, <3>2
  <2>3. QED
    BY <1>2, <1>d, <2>1, <2>2 DEF GradientInv
<1>3. ASSUME UNCHANGED << tuned, pos >>, at' \in Stopped
      PROVE  GradientInv'
  <2>1. Phase' # "input" /\ at' \notin Taking \cup Finishing
    BY <1>3 DEF Phase, Stopped, Taking, Finishing
  <2>2. file'.packets = file.packets
    BY <1>c, <1>3 DEF NextPacket, Stopped
  <2>3. tuned = << >> \/ nframes' = nframes
    BY <1>c, <1>d
  <2>4. QED
    BY <1>3, <1>d, <2>1, <2>2, <2>3 DEF GradientInv
<1>4. ASSUME UNCHANGED << tuned, pos >>, at \in Input, at' \in Input,
             Len(fifo') - nframes' = Len(fifo) - nframes, nframes' \in Nat,
             Len(fifo') \in Nat
      PROVE  GradientInv'
  <2>1. Phase = "input" /\ at' \notin Taking \cup Finishing
    BY <1>4, PhaseLabels DEF Input, Taking, Finishing
  <2>2. file'.packets = file.packets
    BY <1>c, <2>1 DEF NextPacket
  <2>3. tuned = << >> /\ pos = 0 /\ Len(fifo') = nframes'
    BY <1>a, <1>d, <1>4, <2>1
  <2>4. /\ tuned' = << >> /\ pos' = 0 /\ tuned' \in Seq(Nat \X Nat) /\ DOMAIN tuned' = {}
        /\ Len(file'.packets) <= Len(tuned')
    BY <1>4, <1>d, <2>2, <2>3
  <2>5. pos' \in Nat /\ at' \notin Taking
    BY <2>1, <2>4
  <2>6. QED
    BY <2>1, <2>3, <2>4, <2>5 DEF GradientInv
<1>5. nframes' \in Nat /\ Len(fifo') \in Nat
  BY <1>b DEF TypeOK, Samples
<1>6. CASE Others /\ UNCHANGED << tuned, pos >>
  <2>1. /\ Len(fifo') = Len(fifo) /\ nframes' = nframes
        /\ \/ at' \in Stopped
           \/ at \in Input /\ at' \in Input
           \/ at \in Taking /\ at' \in Taking
           \/ at \in Taking \cup Finishing /\ at' \in Finishing
    BY <1>a, <1>6, OthersKeep
  <2>2. at' \in Finishing => at' \notin Taking
    BY DEF Finishing, Taking
  <2>3. CASE at' \in Stopped
    BY <1>3, <1>6, <2>3
  <2>4. CASE at \in Input /\ at' \in Input
    BY <1>4, <1>5, <1>6, <2>1, <2>4
  <2>5. CASE at \in Taking \cup Finishing /\ at' \in Taking \cup Finishing
             /\ (at' \in Taking => at \in Taking)
    BY <1>2, <1>6, <2>1, <2>5
  <2>6. QED
    BY <2>1, <2>2, <2>3, <2>4, <2>5
<1>7. CASE BufferFrame /\ UNCHANGED << tuned, pos >>
  <2>1. /\ nframes' = nframes + Head(dec) /\ at \in Input /\ Head(dec) \in Nat
        /\ \/ at' \in Input /\ fifo' = fifo \o NextSamples
           \/ at' \in Stopped
        /\ NextSamples \in Seq(Nat) /\ Len(NextSamples) = Head(dec)
    BY <1>a, <1>7, BufferFrameType DEF Input, Stopped
  <2>2. CASE at' \in Stopped
    BY <1>3, <1>7, <2>2
  <2>3. CASE at' \in Input /\ fifo' = fifo \o NextSamples
    <3>1. fifo \in Seq(Nat)
      BY <1>a DEF TypeOK, Samples
    <3>2. Len(fifo') = Len(fifo) + Head(dec)
      BY <2>1, <2>3, <3>1, ConcatProperties
    <3>3. Len(fifo') - nframes' = Len(fifo) - nframes
      BY <1>a, <2>1, <3>2
    <3>4. QED
      BY <1>4, <1>5, <1>7, <2>1, <2>3, <3>3
  <2>4. QED
    BY <2>1, <2>2, <2>3
<1>8. CASE InputBuffered /\ UNCHANGED << tuned, pos >>
  <2>1. at = "read" /\ at' = "drain" /\ fifo' = fifo /\ nframes' = nframes /\ file' = file
    BY <1>8 DEF InputBuffered, Goto, conv, out
  <2>2. Phase = "input" /\ Phase' # "input"
    BY <2>1 DEF Phase
  <2>3. tuned = << >> /\ pos = 0 /\ Len(fifo) = nframes
    BY <1>d, <2>2
  <2>4. pos = nframes - Len(fifo) /\ pos = Len(tuned) * FrameSize
    BY <1>a, <2>3
  <2>5. QED
    BY <1>a, <1>8, <1>d, <2>1, <2>2, <2>4 DEF GradientInv
<1>9. CASE Exit /\ UNCHANGED << tuned, pos >>
  BY <1>3, <1>9 DEF Exit, Goto, Stopped
<1>10. CASE UNCHANGED gvars
  BY <1>10, <1>d DEF gvars, pvars, vars, GradientInv, Phase
<1>11. QED
  BY <1>1, <1>6, <1>7, <1>8, <1>9, <1>10 DEF GNext

\* Nothing is tuned at first.
LEMMA GradientInit == GInit => GradientInv
  BY DEF GInit, Init, GradientInv, Phase, Taking, Finishing

\* The invariant holds of every call of audio_gradient.
LEMMA GradientCorrect == GSpec => [](TwoPassInv /\ PacketsInv /\ GradientInv)
<1>1. GInit => PacketsInv
  BY PacketsInit DEF GInit
<1>2. TwoPassInv /\ PacketsInv /\ [GNext]_gvars => PacketsInv'
  BY GradientSteps, PacketsInductive
<1>3. TwoPassInv /\ GradientInv /\ [GNext]_gvars => GradientInv'
  BY GradientInductive
<1>4. QED
  BY <1>1, <1>2, <1>3, GradientInvariant, GradientInit, PTL DEF GSpec

\* audio_gradient scales every sample by the value of the function at the
\* sample's own time: the k-th packet begins with the sample after the position
\* the k-th frame was tuned at.
THEOREM TunedInPlaceAlways == GSpec => []TunedInPlace
<1>1. TwoPassInv /\ PacketsInv /\ GradientInv => TunedInPlace
  <2> SUFFICES ASSUME TwoPassInv, PacketsInv, GradientInv, NEW k \in DOMAIN file.packets
               PROVE  /\ k \in DOMAIN tuned /\ tuned[k][2] = nframes
                      /\ file.packets[k] # << >> => file.packets[k][1] = tuned[k][1] + 1
    BY DEF TunedInPlace
  <2>1. /\ file.packets \in Seq(Samples) /\ tuned \in Seq(Nat \X Nat)
        /\ Len(file.packets) <= Len(tuned) /\ nframes \in Nat
    BY DEF TwoPassInv, GradientInv, TypeOK, File
  <2>2. k \in Nat \ {0} /\ k \in DOMAIN tuned
    BY <2>1
  <2>3. tuned[k] = << (k - 1) * FrameSize, nframes >>
    BY <2>2 DEF GradientInv
  <2>4. file.packets[k] = Coded(0, (k - 1) * FrameSize, nframes)
    BY DEF PacketsInv
  <2>5. PICK b \in Nat : b = (k - 1) * FrameSize
    <3>1. k - 1 \in Nat
      BY <2>2
    <3>2. QED
      BY <3>1, OneMore
  <2>6. ASSUME file.packets[k] # << >>
        PROVE  file.packets[k][1] = b + 1
    <3>1. b < nframes
      BY <2>1, <2>4, <2>5, <2>6 DEF Coded, Silence
    <3>2. PICK n \in Nat \ {0} : file.packets[k] = Run(0 + b, n)
      <4>1. (IF nframes - b < FrameSize THEN nframes - b ELSE FrameSize) \in Nat \ {0}
        BY <2>1, <3>1, FrameSizeAssumption
      <4>2. QED
        BY <2>1, <2>4, <2>5, <3>1, <4>1 DEF Coded
    <3>3. QED
      BY <3>2 DEF Run
  <2>7. QED
    BY <2>2, <2>3, <2>5, <2>6
<1>2. QED
  BY <1>1, GradientCorrect, PTL

-------------------------------------------------------------------------------
(* audio_volume.                                                             *)

\* Every sample decoded was counted, and the mean is taken after the last one.
GainInv ==
  /\ at # "end" => histogram = Run(0, nframes)
  /\ at \in Taking \cup Finishing => to_d = Run(0, nframes)
  /\ tuned \in Seq(Samples)
  /\ Phase = "input" => tuned = << >>
  /\ \A k \in DOMAIN tuned : tuned[k] = Run(0, nframes)

\* Every step of audio_volume keeps the histogram complete and the gain that of
\* the whole input.
LEMMA GainInductive ==
  ASSUME TwoPassInv, GainInv, [WNext]_wvars
  PROVE  GainInv'
<1>a. TypeOK /\ nframes \in Nat
  BY DEF TwoPassInv, TypeOK
<1>b. TypeOK'
  BY VolumeSteps, TwoPassInductive DEF TwoPassInv
<1>c. /\ Phase' = "input" => Phase = "input"
      /\ Phase # "input" => nframes' = nframes
  BY VolumeSteps, OutputStep
<1>d. /\ at # "end" => histogram = Run(0, nframes)
      /\ at \in Taking \cup Finishing => to_d = Run(0, nframes)
      /\ tuned \in Seq(Samples)
      /\ Phase = "input" => tuned = << >>
      /\ \A k \in DOMAIN tuned : tuned[k] = Run(0, nframes)
  BY DEF GainInv
<1>e. PICK T \in Nat : T = nframes
  BY <1>a
<1>1. ASSUME UNCHANGED tuned,
             at' # "end" => histogram' = Run(0, nframes'),
             at' \in Taking \cup Finishing => to_d' = Run(0, nframes')
      PROVE  GainInv'
  <2>1. tuned = << >> \/ nframes' = nframes
    BY <1>c, <1>d
  <2>2. \A k \in DOMAIN tuned' : tuned'[k] = Run(0, nframes')
    BY <1>1, <1>d, <2>1
  <2>3. tuned' \in Seq(Samples) /\ (Phase' = "input" => tuned' = << >>)
    BY <1>1, <1>c, <1>d
  <2>4. QED
    BY <1>1, <2>2, <2>3 DEF GainInv, Run
<1>2. CASE Takes /\ WTune
  <2>1. at \in Taking /\ at # "end" /\ at' \notin Input \cup {"end"} /\ nframes' = nframes
    BY <1>2, <1>a, TakesFrame DEF Taking, Input
  <2>2. histogram = Run(0, T) /\ to_d = Run(0, T) /\ nframes' = T
    BY <1>d, <1>e, <2>1
  <2>3. tuned' = Append(tuned, Run(0, T)) /\ histogram' = Run(0, T) /\ to_d' = Run(0, T)
    BY <1>2, <2>2 DEF WTune
  <2>4. PICK R \in Samples : R = Run(0, T)
    BY RunType DEF Samples
  <2>5. /\ tuned' \in Seq(Samples) /\ \A k \in DOMAIN tuned' : tuned'[k] = R
    BY <1>d, <1>e, <2>3, <2>4
  <2>6. Phase' # "input"
    BY <2>1, PhaseLabels
  <2>7. histogram' = Run(0, nframes') /\ to_d' = Run(0, nframes') /\ R = Run(0, nframes')
    BY <2>2, <2>3, <2>4
  <2>8. QED
    BY <2>5, <2>6, <2>7 DEF GainInv, Run
<1>3. CASE CountFrame
  <2>1. /\ nframes' = nframes + Head(dec) /\ Head(dec) \in Nat /\ at = "receive_frame"
        /\ at' \in Input \cup Stopped
    BY <1>3, <1>a, BufferFrameType DEF CountFrame, Input, Stopped
  <2>2. PICK h \in Nat : h = Head(dec)
    BY <2>1
  <2>3. NextSamples = Run(0 + T, h)
    BY <1>e, <2>2 DEF NextSamples, Run
  <2>4. histogram' = Run(0, T) \o Run(0 + T, h)
    BY <1>3, <1>d, <1>e, <2>1, <2>3 DEF CountFrame
  <2>5. histogram' = Run(0, T + h) /\ nframes' = T + h
    BY <1>e, <2>1, <2>2, <2>4, RunJoin
  <2>6. at' \notin Taking \cup Finishing
    BY <2>1 DEF Input, Stopped, Taking, Finishing
  <2>7. tuned' = tuned /\ histogram' = Run(0, nframes')
    BY <1>3, <2>5 DEF CountFrame
  <2>8. QED
    BY <1>1, <2>6, <2>7
<1>4. CASE PrintStats
  <2>1. at = "read" /\ at' = "drain" /\ nframes' = nframes /\ tuned' = tuned
        /\ histogram' = histogram /\ to_d' = histogram
    BY <1>4 DEF PrintStats, InputBuffered, Goto, conv
  <2>2. histogram' = Run(0, nframes') /\ to_d' = Run(0, nframes')
    BY <1>d, <2>1
  <2>3. QED
    BY <1>1, <2>1, <2>2
<1>5. CASE WExit
  <2>1. at' = "end" /\ tuned' = tuned
    BY <1>5 DEF WExit, Exit, Goto
  <2>2. QED
    BY <1>1, <2>1 DEF Taking, Finishing
<1>6. CASE Others /\ UNCHANGED << tuned, histogram, to_d >>
  <2>1. /\ nframes' = nframes /\ at # "end"
        /\ \/ at' \in Stopped
           \/ at \in Input /\ at' \in Input
           \/ at \in Taking /\ at' \in Taking
           \/ at \in Taking \cup Finishing /\ at' \in Finishing
    BY <1>a, <1>6, OthersKeep
  <2>2. at' \in Taking \cup Finishing => at \in Taking \cup Finishing
    BY <2>1 DEF Stopped, Input, Taking, Finishing
  <2>3. /\ histogram' = Run(0, nframes')
        /\ at' \in Taking \cup Finishing => to_d' = Run(0, nframes')
    BY <1>6, <1>d, <2>1, <2>2
  <2>4. QED
    BY <1>1, <1>6, <2>3
<1>7. CASE UNCHANGED wvars
  BY <1>7, <1>d DEF wvars, pvars, vars, GainInv, Phase, Run
<1>8. QED
  BY <1>2, <1>3, <1>4, <1>5, <1>6, <1>7 DEF WNext

\* At first nothing is decoded and nothing counted.
LEMMA GainInit == WInit => GainInv
<1> SUFFICES ASSUME WInit PROVE GainInv
  OBVIOUS
<1>1. /\ at = "setup" /\ nframes = 0 /\ tuned = << >> /\ histogram = << >>
  BY DEF WInit, Init
<1>2. histogram = Run(0, nframes)
  BY <1>1 DEF Run
<1>3. tuned \in Seq(Samples) /\ DOMAIN tuned = {}
  BY <1>1
<1>4. QED
  BY <1>1, <1>2, <1>3 DEF GainInv, Taking, Finishing

\* The invariant holds of every call of audio_volume.
LEMMA GainCorrect == WSpec => [](TwoPassInv /\ PacketsInv /\ GainInv)
<1>1. WInit => PacketsInv
  BY PacketsInit DEF WInit
<1>2. TwoPassInv /\ PacketsInv /\ [WNext]_wvars => PacketsInv'
  BY VolumeSteps, PacketsInductive
<1>3. TwoPassInv /\ GainInv /\ [WNext]_wvars => GainInv'
  BY GainInductive
<1>4. QED
  BY <1>1, <1>2, <1>3, VolumeInvariant, GainInit, PTL DEF WSpec

\* audio_volume raises every sample of the file by a gain that all the samples
\* of the file, and no others, were counted for.
THEOREM GainOfWholeAlways == WSpec => []GainOfWhole
<1>1. TwoPassInv /\ PacketsInv /\ GainInv => GainOfWhole
  <2> SUFFICES ASSUME TwoPassInv, PacketsInv, GainInv, NEW k \in DOMAIN tuned
               PROVE  /\ tuned[k] = [i \in 1 .. nframes |-> i]
                      /\ \A p \in DOMAIN file.packets :
                           \A i \in DOMAIN file.packets[p] :
                             file.packets[p][i] \in 1 .. Len(tuned[k])
    BY DEF GainOfWhole
  <2>1. PICK T \in Nat : T = nframes
    BY DEF TwoPassInv, TypeOK
  <2>2. tuned[k] = Run(0, T)
    BY <2>1 DEF GainInv
  <2>3. Run(0, T) = [i \in 1 .. T |-> i]
    BY DEF Run
  <2>4. Len(tuned[k]) = T
    BY <2>2, RunType
  <2>5. ASSUME NEW p \in DOMAIN file.packets, NEW i \in DOMAIN file.packets[p]
        PROVE  file.packets[p][i] \in 1 .. T
    <3>1. file.packets \in Seq(Samples)
      BY DEF TwoPassInv, TypeOK, File
    <3>2. p - 1 \in Nat
      BY <3>1
    <3>3. PICK b \in Nat : b = (p - 1) * FrameSize
      BY <3>2, OneMore
    <3>4. file.packets[p] = Coded(0, b, T)
      BY <2>1, <3>3 DEF PacketsInv
    <3>5. b < T
      BY <2>1, <2>5, <3>4 DEF Coded, Silence
    <3>6. PICK n \in Nat : n = IF T - b < FrameSize THEN T - b ELSE FrameSize
      <4>1. (IF T - b < FrameSize THEN T - b ELSE FrameSize) \in Nat
        BY <2>1, <3>3, <3>5, FrameSizeAssumption
      <4>2. QED
        BY <4>1
    <3>7. file.packets[p] = Run(0 + b, n) /\ n <= T - b
      BY <2>1, <3>4, <3>5, <3>6, FrameSizeAssumption DEF Coded
    <3>8. i \in 1 .. n /\ file.packets[p][i] = b + i
      BY <2>5, <3>7 DEF Run
    <3>9. QED
      BY <3>7, <3>8
  <2>6. QED
    BY <2>1, <2>2, <2>3, <2>4, <2>5
<1>2. QED
  BY <1>1, GainCorrect, PTL

-------------------------------------------------------------------------------
(* The types of what the two tools keep beside run.                          *)

\* The position never leaves the input.
PosInv == pos <= nframes

\* A frame taken out moves it no further than to the samples left in swr.
LEMMA PosInductive ==
  ASSUME TwoPassInv, GradientInv, PosInv, [GNext]_gvars
  PROVE  PosInv'
<1>a. TypeOK /\ nframes \in Nat /\ Len(fifo) \in Nat /\ pos \in Nat /\ pos <= nframes
  BY DEF TwoPassInv, TypeOK, Samples, GradientInv, PosInv
<1>b. TypeOK' /\ nframes' \in Nat /\ Len(fifo)' \in Nat
  BY GradientSteps, TwoPassInductive DEF TwoPassInv, TypeOK, Samples
<1>1. CASE Takes /\ Tune
  <2>1. /\ at \in Taking /\ Len(frame') \in Nat /\ Len(fifo') = Len(fifo) - Len(frame')
        /\ nframes' = nframes /\ pos' = pos + Len(frame')
    BY <1>1, <1>a, TakesFrame DEF Taking, Tune
  <2>2. pos = nframes - Len(fifo)
    BY <2>1 DEF GradientInv
  <2>3. QED
    BY <1>a, <1>b, <2>1, <2>2 DEF PosInv
<1>2. CASE Others /\ UNCHANGED << tuned, pos >>
  BY <1>2, <1>a, OthersKeep DEF PosInv
<1>3. CASE BufferFrame /\ UNCHANGED << tuned, pos >>
  <2>1. Len(dec) > DecoderDelay /\ nframes' = nframes + Head(dec)
    BY <1>3 DEF BufferFrame
  <2>2. Head(dec) \in Nat
    BY <1>a, <2>1, FrameOfDecoder
  <2>3. QED
    BY <1>3, <1>a, <2>1, <2>2 DEF PosInv
<1>4. CASE (InputBuffered \/ Exit) /\ UNCHANGED << tuned, pos >>
  BY <1>4 DEF InputBuffered, Exit, conv, PosInv
<1>5. CASE UNCHANGED gvars
  BY <1>5 DEF gvars, pvars, vars, PosInv
<1>6. QED
  BY <1>1, <1>2, <1>3, <1>4, <1>5 DEF GNext

\* Every variable of audio_gradient keeps its type, and the position it tunes a
\* frame for is one of the input.
THEOREM GradientTyped == GSpec => []GTypeOK
<1>1. GInit => PosInv
  BY DEF GInit, Init, PosInv
<1>2. TwoPassInv /\ GradientInv /\ PosInv /\ [GNext]_gvars => PosInv'
  BY PosInductive
<1>3. TwoPassInv /\ GradientInv /\ PosInv => GTypeOK
  BY DEF TwoPassInv, GradientInv, PosInv, GTypeOK, TypeOK
<1>4. QED
  BY <1>1, <1>2, <1>3, GradientCorrect, PTL DEF GSpec

\* What was counted and what the gain was computed from are samples.
CountedInv == histogram \in Samples /\ to_d \in Samples

\* A step of audio_volume counts samples only.
LEMMA CountedInductive ==
  ASSUME TwoPassInv, GainInv, CountedInv, [WNext]_wvars
  PROVE  CountedInv'
<1>1. nframes' \in Nat
  BY VolumeSteps, TwoPassInductive DEF TwoPassInv, TypeOK
<1>2. histogram' \in Samples
  <2>1. CASE at' # "end"
    <3>1. histogram' = Run(0, nframes')
      BY <2>1, GainInductive DEF GainInv, Run
    <3>2. QED
      BY <1>1, <3>1, RunType DEF Samples
  <2>2. CASE at' = "end"
    <3>1. histogram' = histogram \/ histogram' = << >>
      <4>1. CASE CountFrame
        BY <2>2, <4>1 DEF CountFrame, BufferFrame, Goto, Return
      <4>2. CASE WExit
        BY <4>2 DEF WExit
      <4>3. CASE ~ CountFrame /\ ~ WExit
        BY <4>3 DEF WNext, WTune, PrintStats, wvars
      <4>4. QED
        BY <4>1, <4>2, <4>3
    <3>2. << >> \in Samples
      BY DEF Samples
    <3>3. QED
      BY <3>1, <3>2 DEF CountedInv
  <2>3. QED
    BY <2>1, <2>2
<1>3. to_d' \in Samples
  <2>1. to_d' = to_d \/ to_d' = histogram
    BY DEF WNext, WTune, CountFrame, PrintStats, WExit, wvars
  <2>2. QED
    BY <2>1 DEF CountedInv
<1>4. QED
  BY <1>2, <1>3 DEF CountedInv

\* Every variable of audio_volume keeps its type, and every decoded sample is
\* counted once.
THEOREM VolumeTyped == WSpec => []WTypeOK
<1>1. WInit => CountedInv
  BY DEF WInit, CountedInv, Samples
<1>2. TwoPassInv /\ GainInv /\ CountedInv /\ [WNext]_wvars => CountedInv'
  BY CountedInductive
<1>3. TwoPassInv /\ GainInv /\ CountedInv => WTypeOK
  <2> SUFFICES ASSUME TwoPassInv, GainInv, CountedInv PROVE WTypeOK
    OBVIOUS
  <2>1. TypeOK /\ nframes \in Nat
    BY DEF TwoPassInv, TypeOK
  <2>2. at # "end" => Len(histogram) = nframes
    BY <2>1, RunType DEF GainInv
  <2>3. QED
    BY <2>1, <2>2 DEF WTypeOK, GainInv, CountedInv
<1>4. QED
  BY <1>1, <1>2, <1>3, GainCorrect, PTL DEF WSpec
=============================================================================
