---------------------------- MODULE DecoderProofs ----------------------------
(***************************************************************************)
(* Theorems about Decoder for every set of packets, however many units     *)
(* they have, every number of frames held back and every length of input.  *)
(***************************************************************************)
EXTENDS Decoder, Integers, FiniteSetTheorems, SequenceTheorems, TLAPS

-------------------------------------------------------------------------------
(* Induction over the natural numbers, for a set instead of an operator: the *)
(* strict subset order on finite sets is well-founded.                       *)

\* A nonempty set of natural numbers has a least element.
LEMMA LeastNat ==
  ASSUME NEW T \in SUBSET Nat, T # {}
  PROVE  \E n \in T : \A m \in T : n <= m
<1> DEFINE U == { 1 .. n : n \in T }
<1>1. U \subseteq FiniteSubsetsOf(Nat)
  <2>1. \A n \in T : IsFiniteSet(1 .. n) /\ 1 .. n \subseteq Nat
    BY FS_Interval
  <2>2. QED
    BY <2>1 DEF FiniteSubsetsOf
<1>2. U # {}
  OBVIOUS
<1>3. IsWellFoundedOn(StrictSubsetOrdering(Nat), FiniteSubsetsOf(Nat))
  BY FS_StrictSubsetOrderingWellFounded
<1>4. \E x \in U : \A y \in U : ~ (<< y, x >> \in StrictSubsetOrdering(Nat))
  <2> HIDE DEF U
  <2>1. QED
    BY <1>1, <1>2, <1>3, WFMin
<1>5. PICK n \in T : \A m \in T : ~ (<< 1 .. m, 1 .. n >> \in StrictSubsetOrdering(Nat))
  BY <1>4
<1>6. ASSUME NEW m \in T, m < n PROVE FALSE
  <2>1. 1 .. m \in SUBSET Nat /\ 1 .. n \in SUBSET Nat
    OBVIOUS
  <2>2. 1 .. m \subseteq 1 .. n /\ n \in 1 .. n /\ n \notin 1 .. m
    BY <1>6
  <2>3. << 1 .. m, 1 .. n >> \in StrictSubsetOrdering(Nat)
    BY <2>1, <2>2 DEF StrictSubsetOrdering
  <2>4. QED
    BY <1>5, <2>3
<1>7. QED
  BY <1>6

\* A set of natural numbers that holds 0 and with every number the next one is
\* the set of all.
LEMMA AllNat ==
  ASSUME NEW S \in SUBSET Nat, 0 \in S, \A n \in S : n + 1 \in S
  PROVE  S = Nat
<1>1. SUFFICES ASSUME Nat \ S # {} PROVE FALSE
  OBVIOUS
<1>2. PICK n \in Nat \ S : \A m \in Nat \ S : n <= m
  BY <1>1, LeastNat
<1>3. n - 1 \in Nat /\ n - 1 \in S
  BY <1>2
<1>4. QED
  BY <1>2, <1>3

-------------------------------------------------------------------------------
(* The frames of a packet.                                                   *)

\* The recursive definition of FramesOf as a condition on a function.
Defines(f, p, n) ==
  \A k \in 0 .. n : f[k] = IF k = 0 THEN << >> ELSE Before(p[Len(p) - k + 1], f[k - 1])

\* Two packets end in the same n units.
SameEnd(p, q, n) == \A k \in 1 .. n : p[Len(p) - k + 1] = q[Len(q) - k + 1]

\* Two functions agree up to n.
Agree(f, g, n) == \A k \in 0 .. n : f[k] = g[k]

\* A unit leaves a sequence of frames.
LEMMA BeforeType ==
  ASSUME NEW unit \in [is : Outcome, id : Frame], NEW s \in Seq(Frame)
  PROVE  /\ Before(unit, s) \in Seq(Frame)
         /\ unit.is = "frame" => Before(unit, s) = << unit.id >> \o s
         /\ unit.is = "none" => Before(unit, s) = s
         /\ unit.is = "error" => Before(unit, s) = << >>
  BY DEF Before, Outcome

\* The function exists.
LEMMA FramesExist ==
  ASSUME NEW p \in Packet, NEW n \in 0 .. Len(p)
  PROVE  \E f \in [0 .. n -> Seq(Frame)] : Defines(f, p, n)
<1> DEFINE S == {i \in Nat : i <= Len(p) => \E f \in [0 .. i -> Seq(Frame)] : Defines(f, p, i)}
<1>1. 0 \in S
  <2>1. [k \in 0 .. 0 |-> << >>] \in [0 .. 0 -> Seq(Frame)]
    OBVIOUS
  <2>2. Defines([k \in 0 .. 0 |-> << >>], p, 0)
    BY DEF Defines
  <2>3. QED
    BY <2>1, <2>2
<1>2. ASSUME NEW i \in S PROVE i + 1 \in S
  <2>1. SUFFICES ASSUME i + 1 <= Len(p)
                 PROVE  \E g \in [0 .. i + 1 -> Seq(Frame)] : Defines(g, p, i + 1)
    BY <1>2
  <2>2. Len(p) \in Nat /\ i \in Nat
    BY DEF Packet
  <2>3. PICK f \in [0 .. i -> Seq(Frame)] : Defines(f, p, i)
    BY <2>1, <2>2
  <2>4. PICK unit \in [is : Outcome, id : Frame] : unit = p[Len(p) - (i + 1) + 1]
    <3>1. Len(p) - (i + 1) + 1 \in 1 .. Len(p)
      BY <2>1, <2>2
    <3>2. p \in Seq([is : Outcome, id : Frame])
      BY DEF Packet
    <3>3. p[Len(p) - (i + 1) + 1] \in [is : Outcome, id : Frame]
      BY <3>1, <3>2, ElementOfSeq
    <3>4. QED
      BY <3>3
  <2> DEFINE last == Before(unit, f[i])
             g == [k \in 0 .. i + 1 |-> IF k = i + 1 THEN last ELSE f[k]]
  <2>5. last \in Seq(Frame)
    <3>1. f[i] \in Seq(Frame)
      BY <2>2
    <3>2. QED
      BY <3>1, BeforeType
  <2>6. g \in [0 .. i + 1 -> Seq(Frame)]
    <3> HIDE DEF last
    <3>1. QED
      BY <2>2, <2>5
  <2>7. ASSUME NEW k \in 0 .. i + 1
        PROVE  g[k] = IF k = 0 THEN << >> ELSE Before(p[Len(p) - k + 1], g[k - 1])
    <3>1. CASE k = i + 1
      <4>1. k # 0 /\ k - 1 = i /\ k - 1 \in 0 .. i + 1 /\ k - 1 # i + 1
        BY <2>2, <3>1
      <4>2. g[k] = last /\ g[k - 1] = f[i]
        BY <3>1, <4>1
      <4>3. QED
        BY <2>4, <3>1, <4>1, <4>2
    <3>2. CASE k \in 0 .. i
      <4>1. g[k] = f[k] /\ (k # 0 => g[k - 1] = f[k - 1])
        BY <2>2, <3>2
      <4> HIDE DEF g
      <4>2. QED
        BY <2>3, <3>2, <4>1 DEF Defines
    <3>3. QED
      BY <2>2, <3>1, <3>2
  <2>8. Defines(g, p, i + 1)
    <3> HIDE DEF g
    <3>1. QED
      BY <2>7 DEF Defines
  <2>9. QED
    BY <2>6, <2>8
<1>3. S = Nat
  <2>1. S \in SUBSET Nat
    OBVIOUS
  <2> HIDE DEF S
  <2>2. QED
    BY <1>1, <1>2, <2>1, AllNat
<1>4. QED
  BY <1>3 DEF Packet

\* It is the only one.
LEMMA FramesUnique ==
  ASSUME NEW n \in Nat, NEW p, NEW q, NEW f, NEW g,
         Defines(f, p, n), Defines(g, q, n), SameEnd(p, q, n)
  PROVE  Agree(f, g, n)
<1> DEFINE S == {k \in Nat : k <= n => f[k] = g[k]}
<1>1. 0 \in S
  BY DEF Defines
<1>2. ASSUME NEW k \in S PROVE k + 1 \in S
  <2>1. SUFFICES ASSUME k + 1 <= n PROVE f[k + 1] = g[k + 1]
    OBVIOUS
  <2>2. k \in Nat /\ f[k] = g[k] /\ k + 1 \in 0 .. n /\ k + 1 # 0 /\ k + 1 - 1 = k
        /\ k + 1 \in 1 .. n
    BY <2>1
  <2>3. f[k + 1] = Before(p[Len(p) - (k + 1) + 1], f[k])
    BY <2>2 DEF Defines
  <2>4. g[k + 1] = Before(q[Len(q) - (k + 1) + 1], g[k])
    BY <2>2 DEF Defines
  <2>5. QED
    BY <2>2, <2>3, <2>4 DEF SameEnd
<1>3. S = Nat
  <2>1. S \in SUBSET Nat
    OBVIOUS
  <2> HIDE DEF S
  <2>2. QED
    BY <1>1, <1>2, <2>1, AllNat
<1>4. QED
  BY <1>3 DEF Agree

\* FramesOf is the last value of that function.
LEMMA FramesDefined ==
  ASSUME NEW p \in Packet
  PROVE  \E f \in [0 .. Len(p) -> Seq(Frame)] :
           Defines(f, p, Len(p)) /\ FramesOf(p) = f[Len(p)]
<1> DEFINE body(f) == [k \in 0 .. Len(p) |->
                         IF k = 0 THEN << >> ELSE Before(p[Len(p) - k + 1], f[k - 1])]
           h == CHOOSE f : f = body(f)
<1>1. Len(p) \in Nat
  BY DEF Packet
<1>2. PICK f \in [0 .. Len(p) -> Seq(Frame)] : Defines(f, p, Len(p))
  BY <1>1, FramesExist
<1>3. f = body(f)
  BY <1>2 DEF Defines
<1>4. h = body(h)
  BY <1>3
<1>5. FramesOf(p) = h[Len(p)]
  BY DEF FramesOf
<1>6. Defines(h, p, Len(p))
  <2> HIDE DEF h
  <2>1. QED
    BY <1>4 DEF Defines
<1>7. \A k \in 0 .. Len(p) : f[k] = h[k]
  <2> HIDE DEF h
  <2>1. SameEnd(p, p, Len(p))
    BY DEF SameEnd
  <2>2. QED
    BY <1>1, <1>2, <1>6, <2>1, FramesUnique DEF Agree
<1>8. h = f
  <2> HIDE DEF h
  <2>1. QED
    BY <1>2, <1>3, <1>4, <1>7
<1>9. QED
  BY <1>2, <1>5, <1>8

\* What is decoded from a packet is what its first unit gives, then what the
\* rest of it gives.
LEMMA FramesOfPacket ==
  ASSUME NEW p \in Packet
  PROVE  /\ FramesOf(p) \in Seq(Frame)
         /\ p = << >> => FramesOf(p) = << >>
         /\ p # << >> => /\ Head(p) \in [is : Outcome, id : Frame] /\ Tail(p) \in Packet
                         /\ FramesOf(p) = Before(Head(p), FramesOf(Tail(p)))
<1>1. PICK n \in Nat : n = Len(p)
  BY DEF Packet
<1>2. PICK f \in [0 .. n -> Seq(Frame)] : Defines(f, p, n) /\ FramesOf(p) = f[n]
  BY <1>1, FramesDefined
<1>3. FramesOf(p) \in Seq(Frame)
  BY <1>1, <1>2
<1>4. ASSUME p = << >> PROVE FramesOf(p) = << >>
  <2>1. n = 0
    BY <1>1, <1>4
  <2>2. QED
    BY <1>2, <2>1 DEF Defines
<1>5. ASSUME p # << >>
      PROVE  /\ Head(p) \in [is : Outcome, id : Frame] /\ Tail(p) \in Packet
             /\ FramesOf(p) = Before(Head(p), FramesOf(Tail(p)))
  <2>1. /\ n > 0 /\ Head(p) = p[1] /\ Head(p) \in [is : Outcome, id : Frame]
        /\ Tail(p) \in Packet /\ Len(Tail(p)) = n - 1
        /\ \A i \in 1 .. n - 1 : Tail(p)[i] = p[i + 1]
    <3>1. p \in Seq([is : Outcome, id : Frame])
      BY DEF Packet
    <3>2. n > 0 /\ Head(p) = p[1]
      BY <1>1, <1>5, <3>1
    <3>3. /\ Head(p) \in [is : Outcome, id : Frame]
          /\ Tail(p) \in Seq([is : Outcome, id : Frame]) /\ Len(Tail(p)) = Len(p) - 1
          /\ \A i \in 1 .. Len(Tail(p)) : Tail(p)[i] = p[i + 1]
      BY <1>5, <3>1, HeadTailProperties
    <3>4. QED
      BY <1>1, <3>2, <3>3 DEF Packet
  <2>2. PICK m \in Nat : m = n - 1
    BY <2>1
  <2>3. PICK g \in [0 .. m -> Seq(Frame)] : Defines(g, Tail(p), m) /\ FramesOf(Tail(p)) = g[m]
    BY <2>1, <2>2, FramesDefined
  <2>4. Defines(f, p, m)
    <3>1. 0 .. m \subseteq 0 .. n
      BY <2>2
    <3>2. QED
      BY <1>2, <3>1 DEF Defines
  <2>5. \A k \in 1 .. m : p[Len(p) - k + 1] = Tail(p)[Len(Tail(p)) - k + 1]
    <3>1. ASSUME NEW k \in 1 .. m
          PROVE  p[Len(p) - k + 1] = Tail(p)[Len(Tail(p)) - k + 1]
      <4>1. m - k + 1 \in 1 .. n - 1 /\ n - k + 1 = (m - k + 1) + 1
        BY <2>2
      <4>2. QED
        BY <1>1, <2>1, <2>2, <4>1
    <3>2. QED
      BY <3>1
  <2>6. f[m] = g[m]
    <3>1. PICK q \in Packet : q = Tail(p)
      BY <2>1
    <3>2. Defines(g, q, m) /\ SameEnd(p, q, m)
      BY <2>3, <2>5, <3>1 DEF SameEnd
    <3>3. Agree(f, g, m)
      BY <2>2, <2>4, <3>2, FramesUnique
    <3>4. QED
      BY <2>2, <3>3 DEF Agree
  <2>7. f[n] = Before(p[Len(p) - n + 1], f[n - 1])
    BY <1>2, <2>1 DEF Defines
  <2>8. Len(p) - n + 1 = 1
    BY <1>1
  <2>9. QED
    BY <1>2, <2>1, <2>2, <2>3, <2>6, <2>7, <2>8
<1>6. QED
  BY <1>3, <1>4, <1>5

-------------------------------------------------------------------------------
(* The loop.                                                                 *)

\* A packet of the input, and the frames it is promised to give.
LEMMA InputPacket ==
  ASSUME DecoderTypeOK, NEW p \in Input, NEW n \in Nat
  PROVE  /\ Numbered(p, n) \in Packet /\ Numbered(p, n) # << >>
         /\ delay > 0 => Len(Numbered(p, n)) = 1
<1>1. p \in Seq(Outcome) /\ p # << >> /\ (delay > 0 => Len(p) = 1)
  BY PacketsAssumption DEF Input
<1>2. DOMAIN p = 1 .. Len(p) /\ Len(p) \in Nat /\ Len(p) > 0
  BY <1>1
<1>3. Numbered(p, n) \in [1 .. Len(p) -> [is : Outcome, id : Frame]]
  BY <1>1, <1>2 DEF Numbered, Frame
<1>4. Numbered(p, n) \in Seq([is : Outcome, id : Frame]) /\ Len(Numbered(p, n)) = Len(p)
  <2>1. PICK m \in Nat : m = Len(p)
    BY <1>2
  <2>2. PICK input \in [1 .. m -> [is : Outcome, id : Frame]] : input = Numbered(p, n)
    BY <1>3, <2>1
  <2>3. input \in Seq([is : Outcome, id : Frame]) /\ Len(input) = m
    <3> DEFINE U == [is : Outcome, id : Frame]
    <3>1. input \in [1 .. m -> U]
      OBVIOUS
    <3> HIDE DEF U
    <3>2. input \in Seq(U)
      BY <3>1, SeqDef
    <3>3. Len(input) = m
      BY <3>1, <3>2, LenProperties
    <3>4. QED
      BY <3>2, <3>3 DEF U
  <2>4. QED
    BY <2>1, <2>2, <2>3
<1>5. QED
  BY <1>1, <1>2, <1>4 DEF Packet

\* What is in the four buffers, in the order in which it will be received.
Held == buffer_frame \o reorder \o FramesOf(Data)

\* The buffers are empty between packets, a frame is decoded ahead only for the
\* receive that follows, and then the codec holds back all it can; a packet
\* waits in the filter only when none is being decoded.
BufferInv ==
  /\ at \in {"read", "end"} => Data = << >> /\ buffer_frame = << >>
  /\ at = "decode" => buffer_frame = << >>
  /\ buffer_frame # << >> => Len(reorder) = delay
  /\ in_pkt # << >> => bsf = << >>
  /\ bsf # << >> => bsf[1] # << >>
  /\ delay > 0 => Len(Data) <= 1
  /\ got \o Held = promised

DecoderInv == DecoderTypeOK /\ BufferInv

\* The packet being decoded.
LEMMA DataType ==
  ASSUME DecoderInv
  PROVE  /\ Data \in Packet /\ FramesOf(Data) \in Seq(Frame)
         /\ Data = << >> => in_pkt = << >> /\ bsf = << >> /\ FramesOf(Data) = << >>
         /\ Data # << >> => /\ Head(Data) \in [is : Outcome, id : Frame]
                            /\ Tail(Data) \in Packet
                            /\ FramesOf(Data) = Before(Head(Data), FramesOf(Tail(Data)))
                            /\ delay > 0 => Tail(Data) = << >>
<1>1. bsf # << >> => bsf[1] \in Packet /\ bsf[1] # << >>
  BY DEF DecoderInv, BufferInv, DecoderTypeOK
<1>2. Data \in Packet
  BY <1>1 DEF Data, DecoderInv, DecoderTypeOK
<1>3. Data = << >> => in_pkt = << >> /\ bsf = << >>
  BY <1>1 DEF Data
<1>4. Data # << >> /\ delay > 0 => Tail(Data) = << >>
  <2>1. SUFFICES ASSUME Data # << >>, delay > 0 PROVE Tail(Data) = << >>
    OBVIOUS
  <2>2. Len(Data) <= 1
    BY <2>1 DEF DecoderInv, BufferInv
  <2>3. PICK d \in Seq([is : Outcome, id : Frame]) : d = Data
    BY <1>2 DEF Packet
  <2>4. d # << >> /\ Len(d) <= 1
    BY <2>1, <2>2, <2>3
  <2>5. Tail(d) = << >>
    <3> DEFINE U == [is : Outcome, id : Frame]
    <3>1. d \in Seq(U)
      OBVIOUS
    <3> HIDE DEF U
    <3>2. Len(d) \in Nat /\ Len(d) # 0
      BY <2>4, <3>1, EmptySeq, LenProperties
    <3>3. Tail(d) \in Seq(U) /\ Len(Tail(d)) = Len(d) - 1
      BY <2>4, <3>1, HeadTailProperties
    <3>4. Len(Tail(d)) = 0
      BY <2>4, <3>2, <3>3
    <3>5. QED
      BY <3>3, <3>4, EmptySeq
  <2>6. QED
    BY <2>3, <2>5
<1>5. QED
  BY <1>2, <1>3, <1>4, FramesOfPacket

\* A unit is decoded: the rest of its packet is what is being decoded.
LEMMA Consumed ==
  ASSUME DecoderInv, NEW outcome \in Outcome, Decodes(outcome),
         in_pkt' = Tail(Data) \/ in_pkt' = << >>
  PROVE  bsf' = << >> /\ Data' = in_pkt'
<1>1. bsf' = << >>
  BY DEF Decodes, DecoderInv, BufferInv
<1>2. QED
  BY <1>1 DEF Data

\* Sequences of frames in a row.
LEMMA Row ==
  ASSUME NEW S, NEW a \in Seq(S), NEW b \in Seq(S), NEW c \in Seq(S), NEW d \in Seq(S)
  PROVE  /\ (a \o b) \o c = a \o (b \o c)
         /\ a \o b \in Seq(S)
         /\ ((a \o b) \o c) \o d = (a \o b) \o (c \o d)
         /\ a \o << >> = a /\ << >> \o a = a
<1>1. a \o b \in Seq(S) /\ b \o c \in Seq(S)
  BY ConcatProperties
<1>2. (a \o b) \o c = a \o (b \o c)
  BY ConcatAssociative
<1>3. ((a \o b) \o c) \o d = (a \o b) \o (c \o d)
  BY <1>1, ConcatAssociative
<1>4. a \o << >> = a /\ << >> \o a = a
  BY ConcatEmptySeq
<1>5. QED
  BY <1>1, <1>2, <1>3, <1>4

\* The first frame is moved from one sequence to the end of another.
LEMMA MoveOne ==
  ASSUME NEW S, NEW a \in Seq(S), NEW e \in S, NEW b \in Seq(S)
  PROVE  Append(a, e) \o b = a \o (<< e >> \o b) /\ Append(a, e) \in Seq(S)
<1>1. << e >> \in Seq(S) /\ Append(a, e) = a \o << e >>
  BY AppendIsConcat
<1>2. QED
  BY <1>1, Row

\* A frame put at the end pushes out the first one.
LEMMA PushOut ==
  ASSUME NEW S, NEW a \in Seq(S), NEW e \in S
  PROVE  /\ Append(a, e) \in Seq(S) /\ Append(a, e) # << >>
         /\ Len(Append(a, e)) = Len(a) + 1
         /\ Head(Append(a, e)) \in S /\ Tail(Append(a, e)) \in Seq(S)
         /\ Len(Tail(Append(a, e))) = Len(a)
         /\ << Head(Append(a, e)) >> \o Tail(Append(a, e)) = Append(a, e)
<1>1. /\ Append(a, e) \in Seq(S) /\ Append(a, e) # << >>
      /\ Len(Append(a, e)) = Len(a) + 1
  BY AppendProperties
<1>2. PICK q \in Seq(S) : q = Append(a, e) /\ q # << >> /\ Len(q) = Len(a) + 1
  BY <1>1
<1>3. Head(q) \in S /\ Tail(q) \in Seq(S) /\ Len(Tail(q)) = Len(a)
  BY <1>2
<1>4. << Head(q) >> \o Tail(q) = q
  BY <1>2
<1>5. QED
  BY <1>1, <1>2, <1>3, <1>4

\* The frames in the buffers, each with its type; one at most was decoded ahead.
LEMMA StateTypes ==
  ASSUME DecoderInv
  PROVE  /\ delay \in Nat
         /\ got \in Seq(Frame) /\ reorder \in Seq(Frame) /\ buffer_frame \in Seq(Frame)
         /\ FramesOf(Data) \in Seq(Frame)
         /\ got \o (buffer_frame \o reorder \o FramesOf(Data)) = promised
         /\ buffer_frame # << >> => /\ buffer_frame = << buffer_frame[1] >>
                                    /\ buffer_frame[1] \in Frame
  <1>1. /\ delay \in Nat /\ got \in Seq(Frame) /\ reorder \in Seq(Frame)
        /\ buffer_frame \in Seq(Frame) /\ Len(buffer_frame) <= 1
    BY DelaysAssumption DEF DecoderInv, DecoderTypeOK
  <1>2. got \o (buffer_frame \o reorder \o FramesOf(Data)) = promised
    BY DEF DecoderInv, BufferInv, Held
  <1>3. buffer_frame # << >> => /\ buffer_frame = << buffer_frame[1] >>
                                /\ buffer_frame[1] \in Frame
    <2>1. PICK b \in Seq(Frame) : b = buffer_frame /\ Len(b) <= 1
      BY <1>1
    <2>2. ASSUME b # << >> PROVE b = << b[1] >> /\ b[1] \in Frame
      <3>1. Len(b) = 1
        <4>1. Len(b) \in Nat /\ Len(b) # 0
          BY <2>2, EmptySeq, LenProperties
        <4>2. PICK n \in Nat : n = Len(b)
          BY <4>1
        <4>3. n <= 1 /\ n # 0
          BY <2>1, <4>1, <4>2
        <4>4. QED
          BY <4>2, <4>3
      <3>2. b[1] \in Frame
        BY <3>1, ElementOfSeq
      <3>3. << b[1] >> \in Seq(Frame) /\ Len(<< b[1] >>) = 1 /\ << b[1] >>[1] = b[1]
        BY <3>2
      <3>4. QED
        BY <3>1, <3>2, <3>3, SeqEqual
    <2>3. QED
      BY <2>1, <2>2
  <1>4. QED
    BY <1>1, <1>2, <1>3, DataType

\* The loop starts with nothing in the buffers.
LEMMA DecoderStart == DecoderInit => DecoderInv
<1>1. SUFFICES ASSUME DecoderInit PROVE DecoderInv
  OBVIOUS
<1>2. << >> \in Packet /\ << >> \in Seq(Frame) /\ Len(<< >>) = 0
      /\ << >> \in Seq(Packet)
  BY DEF Packet
<1>3. Data = << >>
  BY <1>1 DEF DecoderInit, Data
<1>4. FramesOf(Data) = << >>
  BY <1>2, <1>3, FramesOfPacket
<1>5. << >> \o << >> = << >>
  OBVIOUS
<1>6. DecoderTypeOK
  BY <1>1, <1>2, MaxPacketsAssumption, DelaysAssumption DEF DecoderInit, DecoderTypeOK
<1>7. BufferInv
  BY <1>1, <1>2, <1>3, <1>4, <1>5, DelaysAssumption DEF DecoderInit, BufferInv, Held
<1>8. QED
  BY <1>6, <1>7 DEF DecoderInv

\* A packet that is sent is taken: nothing waits in the filter, and the codec
\* is ready to decode ahead.
LEMMA SendTaken ==
  ASSUME DecoderInv, SendPacket
  PROVE  \E p \in Packet :
           /\ p # << >> /\ (delay > 0 => Len(p) = 1)
           /\ bsf = << >> /\ buffer_frame = << >> /\ FramesOf(Data) = << >>
           /\ bsf' = << p >> /\ Data' = p /\ at' = "decode"
           /\ promised' = promised \o FramesOf(p)
<1>1. Data = << >> /\ buffer_frame = << >> /\ bsf = << >> /\ in_pkt = << >>
      /\ FramesOf(Data) = << >>
  BY DataType DEF SendPacket, DecoderInv, BufferInv
<1>2. PICK p \in Input : /\ promised' = promised \o FramesOf(Numbered(p, sent + 1))
                         /\ bsf' = << Numbered(p, sent + 1) >>
  BY <1>1 DEF SendPacket
<1>3. sent + 1 \in Nat
  BY MaxPacketsAssumption DEF DecoderInv, DecoderTypeOK
<1>4. PICK input : input = Numbered(p, sent + 1)
  OBVIOUS
<1>5. input \in Packet /\ input # << >> /\ (delay > 0 => Len(input) = 1)
  BY <1>3, <1>4, InputPacket DEF DecoderInv
<1>6. bsf' = << input >> /\ in_pkt' = << >>
  BY <1>1, <1>2, <1>4 DEF SendPacket
<1>7. Data' = input
  BY <1>6 DEF Data
<1>8. at' = "decode"
  BY <1>1 DEF SendPacket
<1>9. QED
  BY <1>1, <1>2, <1>4, <1>5, <1>6, <1>7, <1>8

\* What the loop's invariant says of the frames when a packet is being decoded.
LEMMA Decoding ==
  ASSUME DecoderInv, at = "decode"
  PROVE  /\ buffer_frame = << >> /\ buffer_frame \o reorder = reorder
         /\ got \o (reorder \o FramesOf(Data)) = promised
<1>1. buffer_frame = << >>
  BY DEF DecoderInv, BufferInv
<1>2. << >> \o reorder = reorder
  BY StateTypes, ConcatEmptySeq
<1>3. QED
  BY <1>1, <1>2, StateTypes

\* A frame that the codec keeps.
LEMMA KeepsFrame ==
  ASSUME DecoderInv, DecodeFrame, Len(Append(reorder, Head(Data).id)) <= delay
  PROVE  /\ reorder' = Append(reorder, Head(Data).id)
         /\ UNCHANGED << at, buffer_frame, got >>
<1>1. Head(Data).id \in Frame
  BY DataType DEF DecodeFrame, Decodes
<1>2. PICK r \in Seq(Frame) : r = Append(reorder, Head(Data).id)
  BY <1>1, StateTypes, AppendProperties
<1>3. Len(r) \in Nat /\ delay \in Nat
  BY StateTypes, LenProperties
<1>4. ~ Len(r) > delay
  BY <1>2, <1>3
<1>5. QED
  BY <1>2, <1>4 DEF DecodeFrame

\* A frame that pushes out the first one, which waits for the receive that
\* follows a send.
LEMMA PushesFrame ==
  ASSUME DecoderInv, DecodeFrame, ~ Len(Append(reorder, Head(Data).id)) <= delay
  PROVE  /\ reorder' = Tail(Append(reorder, Head(Data).id))
         /\ at' = "receive"
         /\ Len(reorder) = delay /\ Len(reorder') = delay
         /\ call = "send" => /\ buffer_frame' = << Head(Append(reorder, Head(Data).id)) >>
                             /\ got' = got
         /\ call # "send" => /\ buffer_frame' = << >>
                             /\ got' = Append(got, Head(Append(reorder, Head(Data).id)))
<1>1. Head(Data).id \in Frame
  BY DataType DEF DecodeFrame, Decodes
<1>2. PICK id \in Frame : id = Head(Data).id
  BY <1>1
<1>3. PICK r \in Seq(Frame) : r = reorder
  BY StateTypes
<1>4. Len(Append(r, id)) = Len(r) + 1 /\ Len(Tail(Append(r, id))) = Len(r) /\ Len(r) \in Nat
  BY PushOut, LenProperties
<1>5. Len(r) <= delay /\ delay \in Nat
  BY <1>3, DelaysAssumption DEF DecoderInv, DecoderTypeOK
<1>6. Len(r) = delay
  BY <1>2, <1>3, <1>4, <1>5
<1>7. QED
  BY <1>2, <1>3, <1>4, <1>6 DEF DecodeFrame

\* A unit that gives a frame gives it before all that follows.
LEMMA FrameDecoded ==
  ASSUME DecoderInv, DecodeFrame
  PROVE  /\ at = "decode" /\ Head(Data).id \in Frame
         /\ bsf' = << >> /\ Data' = Tail(Data) /\ Data' \in Packet
         /\ FramesOf(Data') \in Seq(Frame)
         /\ FramesOf(Data) = << Head(Data).id >> \o FramesOf(Data')
         /\ reorder \o FramesOf(Data) = Append(reorder, Head(Data).id) \o FramesOf(Data')
<1>1. /\ at = "decode" /\ Data # << >> /\ Head(Data).is = "frame"
      /\ Decodes("frame") /\ in_pkt' = Tail(Data)
  BY DEF DecodeFrame, Decodes
<1>2. bsf' = << >> /\ Data' = Tail(Data)
  BY <1>1, Consumed DEF Outcome
<1>3. /\ Head(Data) \in [is : Outcome, id : Frame] /\ Tail(Data) \in Packet
      /\ FramesOf(Data) = Before(Head(Data), FramesOf(Tail(Data)))
  BY <1>1, DataType
<1>4. FramesOf(Tail(Data)) \in Seq(Frame)
  BY <1>3, FramesOfPacket
<1>5. PICK unit \in [is : Outcome, id : Frame] : unit = Head(Data)
  BY <1>3
<1>6. PICK rest \in Seq(Frame) : rest = FramesOf(Tail(Data))
  BY <1>4
<1>7. Before(unit, rest) = << unit.id >> \o rest /\ unit.id \in Frame
  BY <1>1, <1>5, BeforeType
<1>8. PICK r \in Seq(Frame) : r = reorder
  BY StateTypes
<1>9. r \o (<< unit.id >> \o rest) = Append(r, unit.id) \o rest
  BY <1>7, MoveOne
<1>10. FramesOf(Data') = rest
  BY <1>2, <1>6
<1>11. QED
  BY <1>1, <1>2, <1>3, <1>5, <1>6, <1>7, <1>8, <1>9, <1>10

\* Every step preserves the invariant: each moves frames from one buffer to the
\* next and keeps their order.
LEMMA DecoderInductive == DecoderInv /\ [DecoderNext]_dvars => DecoderInv'
<1>1. SUFFICES ASSUME DecoderInv, [DecoderNext]_dvars PROVE DecoderInv'
  OBVIOUS
<1>2. CASE ReadEnds /\ UNCHANGED delay
  <2>1. Data' = Data /\ Held' = Held
    BY <1>2 DEF ReadEnds, Data, Held, codec
  <2>2. DecoderTypeOK'
    BY <1>1, <1>2 DEF DecoderInv, DecoderTypeOK, ReadEnds, codec, history
  <2>3. BufferInv'
    BY <1>1, <1>2, <2>1 DEF DecoderInv, BufferInv, ReadEnds, codec, history
  <2>4. QED
    BY <2>2, <2>3 DEF DecoderInv
<1>3. CASE SendPacket /\ UNCHANGED delay
  <2>1. PICK p \in Packet :
           /\ p # << >> /\ (delay > 0 => Len(p) = 1)
           /\ bsf = << >> /\ buffer_frame = << >> /\ FramesOf(Data) = << >>
           /\ bsf' = << p >> /\ Data' = p /\ at' = "decode"
           /\ promised' = promised \o FramesOf(p)
    BY <1>1, <1>3, SendTaken
  <2>2. FramesOf(p) \in Seq(Frame)
    BY FramesOfPacket
  <2>3. PICK r \in Seq(Frame) : r = reorder
    BY <1>1, StateTypes
  <2>4. PICK g \in Seq(Frame) : g = got
    BY <1>1, StateTypes
  <2>5. g \o ((<< >> \o r) \o << >>) = g \o r
    BY ConcatEmptySeq
  <2>6. promised = g \o r
    BY <1>1, <2>1, <2>3, <2>4, <2>5, StateTypes
  <2>7. (g \o r) \o FramesOf(p) = g \o ((<< >> \o r) \o FramesOf(p))
    <3>1. PICK f \in Seq(Frame) : f = FramesOf(p)
      BY <2>2
    <3>2. (g \o r) \o f = g \o (r \o f) /\ << >> \o r = r
      BY Row
    <3>3. QED
      BY <3>1, <3>2
  <2>8. UNCHANGED << in_pkt, reorder, buffer_frame, got, delay >> /\ call' = "send"
        /\ sent' = sent + 1 /\ sent < MaxPackets
    BY <1>3 DEF SendPacket
  <2>9. got' \o Held' = promised'
    BY <2>1, <2>3, <2>4, <2>6, <2>7, <2>8 DEF Held
  <2>10. DecoderTypeOK'
    <3>1. promised' \in Seq(Frame)
      BY <1>1, <2>1, <2>2, ConcatProperties DEF DecoderInv, DecoderTypeOK
    <3>2. << p >> \in Seq(Packet) /\ Len(<< p >>) <= 1
      OBVIOUS
    <3>3. sent' \in 0 .. MaxPackets
      BY <1>1, <2>8, MaxPacketsAssumption DEF DecoderInv, DecoderTypeOK
    <3>4. QED
      BY <1>1, <2>1, <2>8, <3>1, <3>2, <3>3 DEF DecoderInv, DecoderTypeOK
  <2>11. BufferInv'
    <3>1. in_pkt = << >>
      BY <1>1, <1>3, DataType DEF SendPacket, DecoderInv, BufferInv
    <3>2. << p >> # << >> /\ << p >>[1] = p
      OBVIOUS
    <3>3. delay > 0 => Len(p) <= 1
      <4>1. SUFFICES ASSUME delay > 0 PROVE Len(p) <= 1
        OBVIOUS
      <4>2. Len(p) = 1
        BY <2>1, <4>1
      <4>3. QED
        BY <4>2
    <3>4. QED
      BY <2>1, <2>8, <2>9, <3>1, <3>2, <3>3 DEF BufferInv
  <2>12. QED
    BY <2>10, <2>11 DEF DecoderInv
<1>4. CASE ReceiveBuffered /\ UNCHANGED delay
  <2>1. /\ at = "receive" /\ buffer_frame # << >> /\ got' = Append(got, buffer_frame[1])
        /\ buffer_frame' = << >> /\ UNCHANGED << at, call, history, bsf, in_pkt, reorder >>
    BY <1>4 DEF ReceiveBuffered
  <2>2. PICK b \in Frame : b = buffer_frame[1] /\ buffer_frame = << b >>
    BY <1>1, <2>1, StateTypes
  <2>3. PICK g \in Seq(Frame) : g = got
    BY <1>1, StateTypes
  <2>4. PICK r \in Seq(Frame) : r = reorder
    BY <1>1, StateTypes
  <2>5. PICK f \in Seq(Frame) : f = FramesOf(Data)
    BY <1>1, StateTypes
  <2>6. Data' = Data
    BY <2>1 DEF Data
  <2>7. r \o f \in Seq(Frame) /\ << b >> \in Seq(Frame)
    BY Row
  <2>8. Append(g, b) \o (r \o f) = g \o ((<< b >> \o r) \o f)
    BY <2>7, MoveOne, Row
  <2>9. << >> \o r = r
    BY Row
  <2>10. got' \o Held' = promised'
    <3>1. Held' = r \o f
      BY <2>1, <2>4, <2>5, <2>6, <2>9 DEF Held
    <3>2. promised = g \o ((<< b >> \o r) \o f)
      BY <1>1, <2>2, <2>3, <2>4, <2>5, StateTypes
    <3>3. QED
      BY <2>1, <2>2, <2>3, <2>8, <3>1, <3>2 DEF history
  <2>11. DecoderTypeOK'
    <3>1. got' \in Seq(Frame)
      BY <2>1, <2>2, <2>3, MoveOne, EmptySeq
    <3>2. << >> \in Seq(Frame) /\ Len(<< >>) <= 1
      OBVIOUS
    <3>3. QED
      BY <1>1, <1>4, <2>1, <3>1, <3>2 DEF DecoderInv, DecoderTypeOK, history
  <2>12. BufferInv'
    BY <1>1, <1>4, <2>1, <2>6, <2>10 DEF DecoderInv, BufferInv
  <2>13. QED
    BY <2>11, <2>12 DEF DecoderInv
<1>5. CASE ReceiveFrame /\ UNCHANGED delay
  <2>1. Data' = Data /\ Held' = Held
    BY <1>5 DEF ReceiveFrame, Data, Held, codec
  <2>2. DecoderTypeOK'
    BY <1>1, <1>5 DEF DecoderInv, DecoderTypeOK, ReceiveFrame, codec, history
  <2>3. BufferInv'
    BY <1>1, <1>5, <2>1 DEF DecoderInv, BufferInv, ReceiveFrame, codec, history
  <2>4. QED
    BY <2>2, <2>3 DEF DecoderInv
<1>6. CASE DecodeNothing /\ UNCHANGED delay
  <2>1. Data' = Data /\ Held' = Held /\ Data = << >>
    BY <1>6 DEF DecodeNothing, Data, Held, codec
  <2>2. DecoderTypeOK'
    BY <1>1, <1>6 DEF DecoderInv, DecoderTypeOK, DecodeNothing, codec, history
  <2>3. BufferInv'
    BY <1>1, <1>6, <2>1 DEF DecoderInv, BufferInv, DecodeNothing, codec, history
  <2>4. QED
    BY <2>2, <2>3 DEF DecoderInv
<1>7. CASE DecodeNone /\ UNCHANGED delay
  <2>1. /\ at = "decode" /\ Data # << >> /\ Head(Data).is = "none" /\ Decodes("none")
        /\ in_pkt' = Tail(Data)
        /\ UNCHANGED << at, call, history, reorder, buffer_frame, got >>
    BY <1>7 DEF DecodeNone, Decodes
  <2>2. bsf' = << >> /\ Data' = Tail(Data)
    BY <1>1, <2>1, Consumed DEF Outcome
  <2>3. Tail(Data) \in Packet /\ (delay > 0 => Tail(Data) = << >>)
    BY <1>1, <2>1, DataType
  <2>4. FramesOf(Data') = FramesOf(Data)
    BY <1>1, <2>1, <2>2, DataType DEF Before
  <2>5. Held' = Held
    BY <2>1, <2>4 DEF Held
  <2>6. << >> \in Seq(Packet) /\ Len(<< >>) = 0
    OBVIOUS
  <2>7. DecoderTypeOK'
    BY <1>1, <1>7, <2>1, <2>2, <2>3, <2>6 DEF DecoderInv, DecoderTypeOK, history
  <2>8. BufferInv'
    BY <1>1, <1>7, <2>1, <2>2, <2>3, <2>5, <2>6 DEF DecoderInv, BufferInv, history
  <2>9. QED
    BY <2>7, <2>8 DEF DecoderInv
<1>8. CASE DecodeFrame /\ UNCHANGED delay
  <2>1. PICK id \in Frame : id = Head(Data).id
    BY <1>1, <1>8, FrameDecoded
  <2>2. PICK r \in Seq(Frame) : r = reorder
    BY <1>1, StateTypes
  <2>3. PICK g \in Seq(Frame) : g = got
    BY <1>1, StateTypes
  <2>4. /\ at = "decode" /\ bsf' = << >> /\ Data' = Tail(Data) /\ Data' \in Packet
        /\ in_pkt' = Data' /\ Data # << >>
        /\ r \o FramesOf(Data) = Append(r, id) \o FramesOf(Data')
        /\ UNCHANGED << call, sent, promised, delay >>
    BY <1>1, <1>8, <2>1, <2>2, FrameDecoded DEF DecodeFrame, Decodes, history
  <2>5. PICK f \in Seq(Frame) : f = FramesOf(Data')
    BY <1>1, <1>8, FrameDecoded
  <2>6. buffer_frame = << >> /\ promised = g \o (Append(r, id) \o f)
    BY <1>1, <2>2, <2>3, <2>4, <2>5, Decoding
  <2>7. delay > 0 => Data' = << >>
    BY <1>1, <2>4, DataType
  <2>8. << >> \in Seq(Packet) /\ Len(<< >>) = 0 /\ << >> \in Seq(Frame) /\ 0 <= 1
    OBVIOUS
  <2>9. PICK moved \in Seq(Frame) : moved = Append(r, id)
    BY PushOut
  <2>10. CASE Len(moved) <= delay
    <3>1. reorder' = moved /\ at' = "decode" /\ buffer_frame' = << >> /\ got' = g
      BY <1>1, <1>8, <2>1, <2>2, <2>3, <2>4, <2>6, <2>9, <2>10, KeepsFrame
    <3>2. DecoderTypeOK'
      BY <1>1, <2>3, <2>4, <2>8, <2>10, <3>1 DEF DecoderInv, DecoderTypeOK
    <3>3. got' \o Held' = promised'
      <4>1. << >> \o moved = moved
        BY Row
      <4>2. QED
        BY <2>4, <2>5, <2>6, <2>9, <3>1, <4>1 DEF Held
    <3>4. BufferInv'
      BY <1>1, <2>4, <2>7, <2>8, <3>1, <3>3 DEF BufferInv
    <3>5. QED
      BY <3>2, <3>4 DEF DecoderInv
  <2>11. CASE ~ Len(moved) <= delay
    <3>1. /\ reorder' = Tail(moved) /\ at' = "receive" /\ Len(reorder') = delay
          /\ call = "send" => buffer_frame' = << Head(moved) >> /\ got' = g
          /\ call # "send" => buffer_frame' = << >> /\ got' = Append(g, Head(moved))
      BY <1>1, <1>8, <2>1, <2>2, <2>3, <2>9, <2>11, PushesFrame
    <3>2. /\ Head(moved) \in Frame /\ Tail(moved) \in Seq(Frame)
          /\ << Head(moved) >> \o Tail(moved) = moved
      BY <2>9, PushOut
    <3>3. PICK h \in Frame : h = Head(moved)
      BY <3>2
    <3>4. PICK t \in Seq(Frame) : t = Tail(moved)
      BY <3>2
    <3>5. << h >> \in Seq(Frame) /\ Len(<< h >>) <= 1 /\ Append(g, h) \in Seq(Frame)
          /\ << >> \o t = t /\ t \o f \in Seq(Frame)
      BY MoveOne, Row
    <3>6. Append(g, h) \o (t \o f) = g \o ((<< h >> \o t) \o f)
      <4>1. Append(g, h) \o (t \o f) = g \o (<< h >> \o (t \o f))
        BY <3>5, MoveOne
      <4>2. (<< h >> \o t) \o f = << h >> \o (t \o f)
        BY <3>5, ConcatAssociative
      <4>3. QED
        BY <4>1, <4>2
    <3>7. DecoderTypeOK'
      <4>1. buffer_frame' \in Seq(Frame) /\ Len(buffer_frame') <= 1 /\ got' \in Seq(Frame)
        BY <2>3, <2>8, <3>1, <3>3, <3>5
      <4>2. reorder' \in Seq(Frame) /\ Len(reorder') <= delay
        BY <1>1, <3>1, <3>2, StateTypes
      <4>3. QED
        BY <1>1, <2>4, <2>8, <3>1, <4>1, <4>2 DEF DecoderInv, DecoderTypeOK
    <3>8. got' \o Held' = promised'
      BY <2>4, <2>5, <2>6, <2>9, <3>1, <3>2, <3>3, <3>4, <3>5, <3>6 DEF Held
    <3>9. BufferInv'
      BY <1>1, <2>4, <2>7, <2>8, <3>1, <3>8 DEF BufferInv
    <3>10. QED
      BY <3>7, <3>9 DEF DecoderInv
  <2>12. QED
    BY <2>10, <2>11
<1>9. CASE DecodeError /\ UNCHANGED delay
  <2>1. /\ at = "decode" /\ Data # << >> /\ Head(Data).is = "error" /\ Decodes("error")
        /\ in_pkt' = << >> /\ at' = "read"
        /\ UNCHANGED << call, history, reorder, buffer_frame, got >>
    BY <1>9 DEF DecodeError, Decodes
  <2>2. bsf' = << >> /\ Data' = << >>
    BY <1>1, <2>1, Consumed DEF Outcome
  <2>3. << >> \in Packet /\ << >> \in Seq(Packet) /\ Len(<< >>) = 0
    BY DEF Packet
  <2>4. FramesOf(Data) = << >> /\ FramesOf(Data') = << >>
    <3>1. FramesOf(Data) = << >>
      BY <1>1, <2>1, DataType DEF Before
    <3>2. QED
      BY <2>2, <2>3, <3>1, FramesOfPacket
  <2>5. Held' = Held
    BY <2>1, <2>4 DEF Held
  <2>6. buffer_frame = << >>
    BY <1>1, <2>1, Decoding
  <2>7. DecoderTypeOK'
    BY <1>1, <1>9, <2>1, <2>2, <2>3 DEF DecoderInv, DecoderTypeOK, history
  <2>8. BufferInv'
    BY <1>1, <1>9, <2>1, <2>2, <2>3, <2>5, <2>6 DEF DecoderInv, BufferInv, history
  <2>9. QED
    BY <2>7, <2>8 DEF DecoderInv
<1>10. CASE UNCHANGED dvars
  <2>1. Data' = Data /\ Held' = Held
    BY <1>10 DEF dvars, Data, Held, codec
  <2>2. QED
    BY <1>1, <1>10, <2>1 DEF DecoderInv, DecoderTypeOK, BufferInv, dvars, codec, history
<1>11. QED
  BY <1>1, <1>2, <1>3, <1>4, <1>5, <1>6, <1>7, <1>8, <1>9, <1>10 DEF DecoderNext

\* Hence it always holds.
LEMMA DecoderCorrect == DecoderSpec => []DecoderInv
<1>1. DecoderInit => DecoderInv
  BY DecoderStart
<1>2. DecoderInv /\ [DecoderNext]_dvars => DecoderInv'
  BY DecoderInductive
<1>3. QED
  BY <1>1, <1>2, PTL DEF DecoderSpec

\* Every variable of the decoder has its type, whatever the packets are: the
\* filter holds one packet at most and the codec no more frames than it is
\* declared to hold back (avcodec_send_packet, avcodec_receive_frame).
THEOREM DecoderTyped == DecoderSpec => []DecoderTypeOK
<1>1. DecoderInv => DecoderTypeOK
  BY DEF DecoderInv
<1>2. QED
  BY <1>1, DecoderCorrect, PTL

\* Between two packets, what was received and what the codec holds back are all
\* the frames of the packets sent, in order: for every set of packets, an error in
\* the middle of one included, and every delay of the codec.
THEOREM NothingSkippedAlways == DecoderSpec => []NothingSkipped
<1>1. DecoderInv => NothingSkipped
  <2>1. SUFFICES ASSUME DecoderInv, at \in {"read", "end"}
                 PROVE  got \o reorder = promised
    BY DEF NothingSkipped
  <2>2. Data = << >> /\ buffer_frame = << >>
    BY <2>1 DEF DecoderInv, BufferInv
  <2>3. FramesOf(Data) = << >>
    BY <2>1, <2>2, DataType
  <2>4. PICK r \in Seq(Frame) : r = reorder
    BY <2>1, StateTypes
  <2>5. (<< >> \o r) \o << >> = r
    BY ConcatEmptySeq
  <2>6. QED
    BY <2>1, <2>2, <2>3, <2>4, <2>5, StateTypes
<1>2. QED
  BY <1>1, DecoderCorrect, PTL

-------------------------------------------------------------------------------
(* The loop is a queue of frames.                                            *)

\* The phase and the queue of the abstract decoder.
Phase == IF at \in {"read", "end"} \/ Sending THEN "packets" ELSE "frames"

Queue == buffer_frame \o reorder \o (IF Sending THEN << >> ELSE FramesOf(Data))

\* A sequence with more put after it begins with that sequence.
LEMMA KeepsPrefix ==
  ASSUME NEW S, NEW a \in Seq(S), NEW e \in S, NEW b \in Seq(S)
  PROVE  /\ SubSeq(a, 1, Len(a)) = a
         /\ SubSeq(Append(a, e) \o b, 1, Len(a)) = a
         /\ Len(Append(a, e) \o b) > Len(a)
<1>1. Append(a, e) \in Seq(S) /\ Len(a) \in Nat /\ Len(b) \in Nat /\ Len(Append(a, e)) = Len(a) + 1
  BY AppendProperties, LenProperties
<1>2. << e >> \in Seq(S) /\ << e >> \o b \in Seq(S) /\ Append(a, e) = a \o << e >>
  BY ConcatProperties, AppendIsConcat
<1>3. Append(a, e) \o b = a \o (<< e >> \o b)
  BY <1>2, ConcatAssociative
<1>4. SubSeq(a, 1, Len(a)) = a
  BY <1>1, SubSeqFull
<1>5. SubSeq(a \o (<< e >> \o b), 1, Len(a)) = a
  <2>1. PICK c \in Seq(S) : c = << e >> \o b
    BY <1>2
  <2>2. SubSeq(a \o c, 1, Len(a)) = a
    <3>1. /\ a \o c \in Seq(S) /\ Len(a \o c) = Len(a) + Len(c) /\ Len(c) \in Nat
          /\ \A i \in 1 .. Len(a) + Len(c) :
               (a \o c)[i] = IF i <= Len(a) THEN a[i] ELSE c[i - Len(a)]
      BY ConcatProperties, LenProperties
    <3>2. /\ SubSeq(a \o c, 1, Len(a)) \in Seq(S)
          /\ Len(SubSeq(a \o c, 1, Len(a))) = Len(a)
          /\ \A i \in 1 .. Len(a) : SubSeq(a \o c, 1, Len(a))[i] = (a \o c)[i]
      BY <1>1, <3>1
    <3>3. \A i \in 1 .. Len(a) : SubSeq(a \o c, 1, Len(a))[i] = a[i]
      BY <1>1, <3>1, <3>2
    <3>4. QED
      BY <3>2, <3>3, SeqEqual
  <2>3. QED
    BY <2>1, <2>2
<1>6. Len(Append(a, e) \o b) > Len(a)
  BY <1>1, ConcatProperties
<1>7. QED
  BY <1>3, <1>4, <1>5, <1>6

\* The first element of a sequence put after one element is that element.
LEMMA TakeOne ==
  ASSUME NEW S, NEW b \in S, NEW x \in Seq(S)
  PROVE  /\ Head(<< b >> \o x) = b /\ Tail(<< b >> \o x) = x
         /\ Len(<< b >> \o x) = Len(x) + 1
<1>1. << b >> \in Seq(S) /\ Len(<< b >>) = 1 /\ Len(x) \in Nat
  BY LenProperties
<1>2. PICK y \in Seq(S) : y = << b >> \o x
  BY <1>1, ConcatProperties
<1>3. /\ Len(y) = Len(x) + 1 /\ y[1] = b
      /\ \A i \in 1 .. Len(x) : y[i + 1] = x[i]
  <2>1. /\ Len(y) = 1 + Len(x)
        /\ \A i \in 1 .. 1 + Len(x) : y[i] = IF i <= 1 THEN << b >>[i] ELSE x[i - 1]
    BY <1>1, <1>2, ConcatProperties
  <2>2. QED
    BY <1>1, <2>1
<1>4. Head(y) = b
  BY <1>1, <1>3
<1>5. /\ Tail(y) \in Seq(S) /\ Len(Tail(y)) = Len(x)
      /\ \A i \in 1 .. Len(Tail(y)) : Tail(y)[i] = y[i + 1]
  <2>1. y # << >>
    BY <1>1, <1>3
  <2>2. Tail(y) \in Seq(S) /\ Len(Tail(y)) = Len(y) - 1
        /\ \A i \in 1 .. Len(Tail(y)) : Tail(y)[i] = y[i + 1]
    BY <2>1, HeadTailProperties
  <2>3. QED
    BY <1>1, <1>3, <2>2
<1>6. Tail(y) = x
  BY <1>3, <1>5, SeqEqual
<1>7. QED
  BY <1>2, <1>3, <1>4, <1>6

\* Nothing decodes to nothing.
LEMMA NothingLeft == FramesOf(<< >>) = << >>
<1>1. << >> \in Packet
  BY DEF Packet
<1>2. QED
  BY <1>1, FramesOfPacket

\* What the two are in the states of the loop.
LEMMA QueueIs ==
  ASSUME DecoderInv
  PROVE  /\ Sending => Phase = "packets" /\ Queue = reorder
         /\ ~ Sending => Queue = buffer_frame \o reorder \o FramesOf(Data)
         /\ at \in {"read", "end"} => Phase = "packets"
         /\ ~ Sending /\ at \notin {"read", "end"} => Phase = "frames"
<1>1. Sending => Queue = reorder
  <2>1. SUFFICES ASSUME Sending PROVE Queue = reorder
    OBVIOUS
  <2>2. buffer_frame = << >>
    BY <2>1, Decoding DEF Sending
  <2>3. PICK r \in Seq(Frame) : r = reorder
    BY StateTypes
  <2>4. (<< >> \o r) \o << >> = r
    BY ConcatEmptySeq
  <2>5. QED
    BY <2>1, <2>2, <2>3, <2>4 DEF Queue
<1>2. QED
  BY <1>1 DEF Queue, Phase

\* The steps of the queue, said of the two.
Accepts ==
  /\ Phase = "packets" /\ SubSeq(Queue', 1, Len(Queue)) = Queue
  /\ Phase' = "frames" /\ delay' = delay /\ got' = got

Delivers ==
  /\ Phase = "frames" /\ Len(Queue) > delay
  /\ got' = Append(got, Head(Queue)) /\ Queue' = Tail(Queue)
  /\ delay' = delay /\ Phase' = Phase

Exhausts ==
  /\ Phase = "frames" /\ Len(Queue) <= delay
  /\ Phase' = "packets" /\ Queue' = Queue /\ delay' = delay /\ got' = got

Stutters == Phase' = Phase /\ Queue' = Queue /\ delay' = delay /\ got' = got

\* The four are the steps of the abstract specification.
LEMMA SourceSteps ==
  ASSUME Accepts \/ Delivers \/ Exhausts \/ Stutters
  PROVE  [Source!FNext]_Source!fvars
<1>1. CASE Accepts
  BY <1>1 DEF Accepts, Source!FNext, Source!Accept, Phase, Queue
<1>2. CASE Delivers
  BY <1>2 DEF Delivers, Source!FNext, Source!Deliver, Phase, Queue
<1>3. CASE Exhausts
  BY <1>3 DEF Exhausts, Source!FNext, Source!Exhausted, Phase, Queue
<1>4. CASE Stutters
  BY <1>4 DEF Stutters, Source!fvars, Phase, Queue
<1>5. QED
  BY <1>1, <1>2, <1>3, <1>4

\* Every step of the loop is one of them, or none the queue notices: a send is
\* accepted when its first unit is decoded, and not when it is taken.
LEMMA SourceStep ==
  ASSUME DecoderInv, DecoderInv', [DecoderNext]_dvars
  PROVE  Accepts \/ Delivers \/ Exhausts \/ Stutters
<1>1. CASE ReadEnds /\ UNCHANGED delay
  <2>1. Stutters
    BY <1>1 DEF ReadEnds, Stutters, Phase, Queue, Sending, Data, codec
  <2>2. QED
    BY <2>1
<1>2. CASE SendPacket /\ UNCHANGED delay
  <2>1. /\ at = "read" /\ at' = "decode" /\ call' = "send" /\ Data' # << >>
        /\ buffer_frame = << >> /\ FramesOf(Data) = << >>
        /\ UNCHANGED << reorder, got, delay, buffer_frame >>
    BY <1>2, SendTaken DEF SendPacket
  <2>2. ~ Sending /\ Sending'
    BY <2>1 DEF Sending
  <2>3. Phase = "packets" /\ Phase' = "packets" /\ Queue' = Queue
    BY <2>1, <2>2 DEF Phase, Queue
  <2>4. QED
    BY <2>1, <2>3 DEF Stutters
<1>3. CASE ReceiveBuffered /\ UNCHANGED delay
  <2>1. /\ at = "receive" /\ buffer_frame # << >> /\ got' = Append(got, buffer_frame[1])
        /\ buffer_frame' = << >>
        /\ UNCHANGED << at, call, history, bsf, in_pkt, reorder, delay >>
    BY <1>3 DEF ReceiveBuffered
  <2>2. PICK b \in Frame : b = buffer_frame[1] /\ buffer_frame = << b >>
    BY <2>1, StateTypes
  <2>3. PICK r \in Seq(Frame) : r = reorder
    BY StateTypes
  <2>4. PICK f \in Seq(Frame) : f = FramesOf(Data)
    BY StateTypes
  <2>5. Data' = Data /\ ~ Sending /\ ~ Sending' /\ Phase = "frames" /\ Phase' = "frames"
    BY <2>1 DEF Data, Sending, Phase
  <2>6. Queue = << b >> \o (r \o f)
    <3>1. << b >> \in Seq(Frame)
      OBVIOUS
    <3>2. (<< b >> \o r) \o f = << b >> \o (r \o f)
      BY <3>1, ConcatAssociative
    <3>3. QED
      BY <2>2, <2>3, <2>4, <2>5, <3>2 DEF Queue
  <2>7. Queue' = r \o f
    <3>1. << >> \o r = r
      BY ConcatEmptySeq
    <3>2. QED
      BY <2>1, <2>3, <2>4, <2>5, <3>1 DEF Queue
  <2>8. r \o f \in Seq(Frame)
    BY ConcatProperties
  <2>9. Head(Queue) = b /\ Tail(Queue) = r \o f /\ Len(Queue) = Len(r \o f) + 1
    BY <2>6, <2>8, TakeOne
  <2>10. Len(Queue) > delay
    <3>1. Len(r) = delay /\ Len(r) \in Nat /\ Len(f) \in Nat
      BY <2>1, <2>3, LenProperties DEF DecoderInv, BufferInv
    <3>2. Len(r \o f) = Len(r) + Len(f)
      BY ConcatProperties
    <3>3. QED
      BY <2>9, <3>1, <3>2
  <2>11. Delivers
    BY <2>1, <2>2, <2>5, <2>7, <2>9, <2>10 DEF Delivers
  <2>12. QED
    BY <2>11
<1>4. CASE ReceiveFrame /\ UNCHANGED delay
  <2>1. at = "receive" /\ at' = "decode" /\ call' = "receive" /\ UNCHANGED << codec, got, delay >>
    BY <1>4 DEF ReceiveFrame
  <2>2. Data' = Data /\ ~ Sending /\ ~ Sending'
    BY <2>1 DEF Data, Sending, codec
  <2>3. QED
    BY <2>1, <2>2 DEF Stutters, Phase, Queue, codec
<1>5. CASE DecodeNothing /\ UNCHANGED delay
  <2>1. /\ at = "decode" /\ Data = << >> /\ UNCHANGED << call, codec, got, delay >>
        /\ at' = IF call = "send" THEN "receive" ELSE "read"
    BY <1>5 DEF DecodeNothing
  <2>2. Data' = Data /\ ~ Sending /\ ~ Sending'
    BY <2>1 DEF Data, Sending, codec
  <2>3. Phase = "frames" /\ Queue' = Queue
    BY <2>1, <2>2 DEF Phase, Queue, codec
  <2>4. CASE call = "send"
    BY <2>1, <2>2, <2>3, <2>4 DEF Stutters, Phase
  <2>5. CASE call # "send"
    <3>1. Phase' = "packets"
      BY <2>1, <2>5 DEF Phase
    <3>2. Queue = reorder
      <4>1. PICK r \in Seq(Frame) : r = reorder
        BY StateTypes
      <4>2. (<< >> \o r) \o << >> = r
        BY ConcatEmptySeq
      <4>3. buffer_frame = << >> /\ FramesOf(Data) = << >>
        BY <2>1, Decoding, DataType
      <4>4. QED
        BY <2>2, <4>1, <4>2, <4>3 DEF Queue
    <3>3. Len(Queue) <= delay
      BY <3>2 DEF DecoderInv, DecoderTypeOK
    <3>4. Exhausts
      BY <2>1, <2>3, <3>1, <3>3 DEF Exhausts
    <3>5. QED
      BY <3>4
  <2>6. QED
    BY <2>4, <2>5
<1>6. CASE DecodeNone /\ UNCHANGED delay
  <2>1. /\ at = "decode" /\ Data # << >> /\ Head(Data).is = "none" /\ Decodes("none")
        /\ in_pkt' = Tail(Data)
        /\ UNCHANGED << at, call, history, reorder, buffer_frame, got, delay >>
    BY <1>6 DEF DecodeNone, Decodes
  <2>2. FramesOf(Data') = FramesOf(Data)
    <3>1. Data' = Tail(Data)
      BY <2>1, Consumed DEF Outcome
    <3>2. QED
      BY <2>1, <3>1, DataType DEF Before
  <2>3. CASE call # "send"
    BY <2>1, <2>2, <2>3 DEF Stutters, Phase, Queue, Sending
  <2>4. CASE call = "send" /\ Data' # << >>
    BY <2>1, <2>4 DEF Stutters, Phase, Queue, Sending
  <2>5. CASE call = "send" /\ Data' = << >>
    <3>1. Phase = "packets" /\ Phase' = "frames" /\ ~ Sending'
      BY <2>1, <2>5 DEF Phase, Sending
    <3>2. PICK r \in Seq(Frame) : r = reorder
      BY StateTypes
    <3>3. Queue = r
      BY <2>1, <2>5, <3>2, QueueIs DEF Sending
    <3>4. Queue' = r
      <4>1. FramesOf(Data') = << >>
        BY <2>5, NothingLeft
      <4>2. buffer_frame' = << >> /\ reorder' = r
        BY <2>1, <3>2, Decoding
      <4>3. (<< >> \o r) \o << >> = r
        BY ConcatEmptySeq
      <4>4. QED
        BY <3>1, <4>1, <4>2, <4>3 DEF Queue
    <3>5. SubSeq(r, 1, Len(r)) = r
      BY SubSeqFull
    <3>6. Accepts
      BY <2>1, <3>1, <3>3, <3>4, <3>5 DEF Accepts
    <3>7. QED
      BY <3>6
  <2>6. QED
    BY <2>3, <2>4, <2>5
<1>7. CASE DecodeFrame /\ UNCHANGED delay
  <2>1. PICK id \in Frame : id = Head(Data).id
    BY <1>7, FrameDecoded
  <2>2. PICK r \in Seq(Frame) : r = reorder
    BY StateTypes
  <2>3. PICK g \in Seq(Frame) : g = got
    BY StateTypes
  <2>4. PICK f \in Seq(Frame) : f = FramesOf(Data')
    BY <1>7, FrameDecoded
  <2>5. PICK moved \in Seq(Frame) : moved = Append(r, id)
    BY PushOut
  <2>6. /\ at = "decode" /\ Data # << >> /\ Data' = Tail(Data) /\ buffer_frame = << >>
        /\ r \o FramesOf(Data) = moved \o f
        /\ UNCHANGED << call, delay >>
    BY <1>7, <2>1, <2>2, <2>4, <2>5, FrameDecoded, Decoding DEF DecodeFrame, Decodes
  <2>7. Sending => call = "send" /\ Phase = "packets" /\ Queue = r
    BY <2>2, QueueIs DEF Sending
  <2>8. ~ Sending => call # "send" /\ Phase = "frames" /\ Queue = moved \o f
    <3>1. << >> \o r = r
      BY ConcatEmptySeq
    <3>2. ~ Sending => Queue = (<< >> \o r) \o FramesOf(Data)
      BY <2>2, <2>6, QueueIs
    <3>3. ~ Sending => call # "send" /\ Phase = "frames"
      BY <2>6, QueueIs DEF Sending
    <3>4. QED
      BY <2>6, <3>1, <3>2, <3>3
  <2>9. SubSeq(moved \o f, 1, Len(r)) = r
    BY <2>5, KeepsPrefix
  <2>10. CASE Len(moved) <= delay
    <3>1. reorder' = moved /\ at' = "decode" /\ buffer_frame' = << >> /\ got' = g
      BY <1>7, <2>1, <2>2, <2>3, <2>5, <2>6, <2>10, KeepsFrame
    <3>2. Data' = << >>
      <4>1. Len(moved) = Len(r) + 1 /\ Len(r) \in Nat
        BY <2>5, PushOut, LenProperties
      <4>2. delay > 0
        BY <2>10, <4>1, StateTypes
      <4>3. QED
        BY <2>6, <4>2, DataType
    <3>3. ~ Sending' /\ Phase' = "frames"
      BY <3>1, <3>2 DEF Sending, Phase
    <3>4. Queue' = moved \o f
      <4>1. << >> \o moved = moved
        BY ConcatEmptySeq
      <4>2. QED
        BY <2>4, <3>1, <3>3, <4>1 DEF Queue
    <3>5. CASE Sending
      BY <2>3, <2>6, <2>7, <2>9, <3>1, <3>3, <3>4, <3>5 DEF Accepts
    <3>6. CASE ~ Sending
      BY <2>3, <2>6, <2>8, <3>1, <3>3, <3>4, <3>6 DEF Stutters
    <3>7. QED
      BY <3>5, <3>6
  <2>11. CASE ~ Len(moved) <= delay
    <3>1. /\ reorder' = Tail(moved) /\ at' = "receive"
          /\ call = "send" => buffer_frame' = << Head(moved) >> /\ got' = g
          /\ call # "send" => buffer_frame' = << >> /\ got' = Append(g, Head(moved))
      BY <1>7, <2>1, <2>2, <2>3, <2>5, <2>11, PushesFrame
    <3>2. /\ Head(moved) \in Frame /\ Tail(moved) \in Seq(Frame)
          /\ << Head(moved) >> \o Tail(moved) = moved
      BY <2>5, PushOut
    <3>3. PICK h \in Frame : h = Head(moved)
      BY <3>2
    <3>4. PICK t \in Seq(Frame) : t = Tail(moved)
      BY <3>2
    <3>5. ~ Sending' /\ Phase' = "frames"
      BY <3>1 DEF Sending, Phase
    <3>6. CASE Sending
      <4>1. Queue' = moved \o f
        BY <2>4, <2>7, <3>1, <3>2, <3>5, <3>6 DEF Queue
      <4>2. QED
        BY <2>3, <2>6, <2>7, <2>9, <3>1, <3>5, <3>6, <4>1 DEF Accepts
    <3>7. CASE ~ Sending
      <4>1. Queue' = t \o f
        <5>1. << >> \o t = t
          BY ConcatEmptySeq
        <5>2. QED
          BY <2>4, <2>8, <3>1, <3>4, <3>5, <3>7, <5>1 DEF Queue
      <4>2. << h >> \in Seq(Frame) /\ t \o f \in Seq(Frame)
        BY ConcatProperties
      <4>3. moved \o f = << h >> \o (t \o f)
        BY <3>2, <3>3, <3>4, <4>2, ConcatAssociative
      <4>4. Head(Queue) = h /\ Tail(Queue) = t \o f
        BY <2>8, <3>7, <4>2, <4>3, TakeOne
      <4>5. Len(Queue) > delay
        <5>1. Len(moved) \in Nat /\ Len(f) \in Nat /\ Len(moved \o f) = Len(moved) + Len(f)
          BY LenProperties, ConcatProperties
        <5>2. QED
          BY <2>8, <2>11, <3>7, <5>1, StateTypes
      <4>6. QED
        BY <2>3, <2>6, <2>8, <3>1, <3>3, <3>5, <3>7, <4>1, <4>4, <4>5 DEF Delivers
    <3>8. QED
      BY <3>6, <3>7
  <2>12. QED
    BY <2>10, <2>11
<1>8. CASE DecodeError /\ UNCHANGED delay
  <2>1. /\ at = "decode" /\ Data # << >> /\ Head(Data).is = "error" /\ at' = "read"
        /\ Decodes("error") /\ in_pkt' = << >>
        /\ UNCHANGED << call, reorder, buffer_frame, got, delay >>
    BY <1>8 DEF DecodeError, Decodes
  <2>2. buffer_frame = << >> /\ FramesOf(Data) = << >> /\ FramesOf(Data') = << >>
    <3>1. FramesOf(Data) = << >>
      BY <2>1, DataType DEF Before
    <3>2. Data' = << >>
      BY <2>1, Consumed DEF Outcome
    <3>3. QED
      BY <2>1, <3>1, <3>2, NothingLeft, Decoding
  <2>3. PICK r \in Seq(Frame) : r = reorder
    BY StateTypes
  <2>4. (<< >> \o r) \o << >> = r
    BY ConcatEmptySeq
  <2>5. Queue = r /\ Queue' = r /\ Phase' = "packets"
    BY <2>1, <2>2, <2>3, <2>4 DEF Queue, Phase
  <2>6. Len(r) <= delay
    BY <2>3 DEF DecoderInv, DecoderTypeOK
  <2>7. CASE Sending
    BY <2>1, <2>5, <2>7, QueueIs DEF Stutters
  <2>8. CASE ~ Sending
    <3>1. Phase = "frames"
      BY <2>1, <2>8, QueueIs
    <3>2. QED
      BY <2>1, <2>5, <2>6, <3>1 DEF Exhausts
  <2>9. QED
    BY <2>7, <2>8
<1>9. CASE UNCHANGED dvars
  BY <1>9 DEF dvars, codec, Stutters, Phase, Queue, Sending, Data
<1>10. QED
  BY <1>1, <1>2, <1>3, <1>4, <1>5, <1>6, <1>7, <1>8, <1>9 DEF DecoderNext

\* The loops of the tools see a queue of frames, whatever the packets are: each
\* packet adds its frames in order, the receives after it take all but the frames
\* held back, and none is left behind for the next packet.
THEOREM DecodesAsQueue == DecoderSpec => IsFrameSource
<1>1. DecoderInit => Source!FInit
  <2>1. SUFFICES ASSUME DecoderInit PROVE Source!FInit
    OBVIOUS
  <2>2. DecoderInv
    BY <2>1, DecoderStart
  <2>3. Phase = "packets" /\ delay \in Nat /\ got = << >>
    BY <2>1, <2>2, StateTypes DEF DecoderInit, Phase
  <2>4. Queue = << >>
    <3>1. Data = << >> /\ ~ Sending
      BY <2>1 DEF DecoderInit, Data, Sending
    <3>2. FramesOf(Data) = << >>
      BY <3>1, NothingLeft
    <3>3. (<< >> \o << >>) \o << >> = << >>
      OBVIOUS
    <3>4. QED
      BY <2>1, <3>1, <3>2, <3>3 DEF DecoderInit, Queue
  <2>5. QED
    BY <2>3, <2>4 DEF Source!FInit, Phase, Queue
<1>2. DecoderInv /\ DecoderInv' /\ [DecoderNext]_dvars => [Source!FNext]_Source!fvars
  BY SourceStep, SourceSteps
<1>3. QED
  BY <1>1, <1>2, DecoderCorrect, PTL DEF DecoderSpec, IsFrameSource, Source!FSpec
===============================================================================
