------------------------- MODULE VideoThumbnailProofs -------------------------
(***************************************************************************)
(* Theorems about VideoThumbnail for all files, all requests, every number *)
(* of frames the decoder holds back, with and without resizing.            *)
(***************************************************************************)
EXTENDS VideoThumbnail, FiniteSetTheorems, SequenceTheorems, TLAPS

-------------------------------------------------------------------------------
(* The places a CHOOSE of the model means.                                   *)

\* A finite set of integers has a greatest element.
LEMMA GreatestOf ==
  ASSUME NEW S \in SUBSET Int, IsFiniteSet(S), S # {}
  PROVE  \E x \in S : \A y \in S : y <= x
<1> DEFINE Above(x) == { y \in S : y > x }
           U == { Above(x) : x \in S }
<1>1. U \subseteq FiniteSubsetsOf(S) /\ U # {}
  <2>1. \A x \in S : Above(x) \subseteq S
    OBVIOUS
  <2>2. \A x \in S : Above(x) \in FiniteSubsetsOf(S)
    <3> HIDE DEF Above
    <3>1. QED
      BY <2>1, FS_Subset DEF FiniteSubsetsOf
  <2>3. QED
    BY <2>2
<1>2. \E u \in U : \A v \in U : ~ (<< v, u >> \in StrictSubsetOrdering(S))
  <2>1. IsWellFoundedOn(StrictSubsetOrdering(S), FiniteSubsetsOf(S))
    BY FS_StrictSubsetOrderingWellFounded
  <2> HIDE DEF U
  <2>2. QED
    BY <1>1, <2>1, WFMin
<1>3. PICK x \in S : \A y \in S : ~ (<< Above(y), Above(x) >> \in StrictSubsetOrdering(S))
  BY <1>2
<1>4. ASSUME NEW y \in S, y > x PROVE FALSE
  <2>1. Above(y) \subseteq Above(x)
    <3>1. \A z \in S : z > y => z > x
      BY <1>4
    <3>2. QED
      BY <3>1
  <2>a. y \in Above(x) /\ y \notin Above(y) /\ Above(x) \subseteq S
    BY <1>4
  <2>2. << Above(y), Above(x) >> \in StrictSubsetOrdering(S)
    <3> HIDE DEF Above
    <3>1. QED
      BY <2>1, <2>a DEF StrictSubsetOrdering
  <2>3. QED
    BY <1>3, <2>2
<1>5. QED
  BY <1>4

\* And a least one.
LEMMA LeastOf ==
  ASSUME NEW S \in SUBSET Int, IsFiniteSet(S), S # {}
  PROVE  \E x \in S : \A y \in S : x <= y
<1> DEFINE T == { -x : x \in S }
<1>1. T \in SUBSET Int /\ T # {}
  <2>1. \A x \in S : -x \in Int
    OBVIOUS
  <2>2. QED
    BY <2>1
<1>2. IsFiniteSet(T)
  <2> DEFINE f == [x \in S |-> -x]
  <2>1. f \in Surjection(S, T)
    BY DEF Surjection
  <2>2. QED
    BY <2>1, FS_Surjection
<1>3. PICK m \in T : \A y \in T : y <= m
  <2> HIDE DEF T
  <2>1. QED
    BY <1>1, <1>2, GreatestOf
<1>4. PICK x \in S : m = -x
  OBVIOUS
<1>5. ASSUME NEW y \in S PROVE x <= y
  <2>1. -y \in T
    OBVIOUS
  <2>2. -y <= m
    BY <1>3, <2>1
  <2>3. QED
    BY <1>4, <2>2
<1>6. QED
  BY <1>5

\* The time run seeks to is no later than any request in time of the video.
LEMMA EarliestIs ==
  ASSUME tms \in Seq(Int) \ {<< >>}
  PROVE  /\ minof \in Int
         /\ Earliest \in {tms[r] : r \in 1 .. tms_len}
         /\ \A r \in 1 .. tms_len : Earliest <= tms[r]
<1> DEFINE S == {tms[r] : r \in 1 .. tms_len}
<1>1. tms_len \in Nat \ {0} /\ \A r \in 1 .. tms_len : tms[r] \in Int
  BY EmptySeq DEF tms_len
<1>2. S \in SUBSET Int /\ S # {} 
  BY <1>1
<1>3. IsFiniteSet(S)
  <2> DEFINE f == [r \in 1 .. tms_len |-> tms[r]]
  <2>1. f \in Surjection(1 .. tms_len, S)
    BY DEF Surjection
  <2>2. IsFiniteSet(1 .. tms_len)
    BY <1>1, FS_Interval
  <2>3. QED
    BY <2>1, <2>2, FS_Surjection
<1>4. \E t \in S : \A u \in S : t <= u
  <2> HIDE DEF S
  <2>1. QED
    BY <1>2, <1>3, LeastOf
<1>5. Earliest \in S /\ \A r \in 1 .. tms_len : Earliest <= tms[r]
  BY <1>4 DEF Earliest
<1>6. Earliest \in Int
  BY <1>2, <1>5
<1>7. minof \in Int
  BY <1>6, MsAssumption DEF minof
<1>8. QED
  BY <1>5, <1>7

\* The seek lands on a packet: the last keyframe up to the time, if there is one.
LEMMA SeekLands ==
  ASSUME stream \in Seq(Packet), NEW t \in Int
  PROVE  /\ SeekTo(t) \in 1 .. Len(stream) + 1
         /\ \/ SeekTo(t) = 1
            \/ SeekTo(t) \in KeysUntil(t)
<1>1. CASE KeysUntil(t) = {}
  BY <1>1 DEF SeekTo
<1>2. CASE KeysUntil(t) # {}
  <2>1. KeysUntil(t) \in SUBSET (1 .. Len(stream))
    BY DEF KeysUntil
  <2>2. IsFiniteSet(KeysUntil(t))
    BY <2>1, FS_Interval, FS_Subset
  <2>3. \E k \in KeysUntil(t) : \A l \in KeysUntil(t) : l <= k
    BY <1>2, <2>1, <2>2, GreatestOf
  <2>4. SeekTo(t) \in KeysUntil(t)
    BY <1>2, <2>3 DEF SeekTo
  <2>5. QED
    BY <2>1, <2>4
<1>3. QED
  BY <1>1, <1>2

-------------------------------------------------------------------------------
(* Types, and the count of the requests that were served.                    *)

Served == { r \in 1 .. tms_len : ~need_write[r] }

\* A packet is there while its frames are received; the count is right, and the
\* requests the fallback has passed, or all at the end, are served.
CountInv ==
  /\ at \in {"receive", "match"} => pos \in DOMAIN stream
  /\ have_write = Cardinality(Served)
  /\ at = "try" => \A r \in 1 .. tms_len : r < idx => ~need_write[r]
  /\ at = "finish" => have_write = tms_len
  /\ at \in {"destroy", "end"} /\ ret = 0 => have_write = tms_len

TypeInv == TypeOK /\ CountInv

\* There are as many requests served as there are requests when all are.
LEMMA ServedCount ==
  ASSUME TypeOK
  PROVE  /\ IsFiniteSet(Served) /\ Cardinality(Served) \in 0 .. tms_len
         /\ (\A r \in 1 .. tms_len : ~need_write[r]) => Cardinality(Served) = tms_len
<1>1. tms_len \in Nat
  BY DEF TypeOK, tms_len
<1>2. IsFiniteSet(1 .. tms_len) /\ Cardinality(1 .. tms_len) = tms_len
  BY <1>1, FS_Interval
<1>3. Served \subseteq 1 .. tms_len
  BY DEF Served
<1>4. IsFiniteSet(Served) /\ Cardinality(Served) \in Nat /\ Cardinality(Served) <= tms_len
  BY <1>2, <1>3, FS_Subset, FS_CardinalityType
<1>5. ASSUME \A r \in 1 .. tms_len : ~need_write[r] PROVE Served = 1 .. tms_len
  BY <1>5 DEF Served
<1>6. QED
  BY <1>1, <1>2, <1>4, <1>5

\* A write serves one request more, and leaves the others.
LEMMA WriteServes ==
  ASSUME TypeInv, Write, idx <= tms_len, need_write[idx], UNCHANGED args
  PROVE  /\ need_write' \in [1 .. tms_len -> BOOLEAN]
         /\ have_write' \in 0 .. tms_len
         /\ have_write' = Cardinality(Served')
         /\ \A r \in 1 .. tms_len : need_write'[r] <=> need_write[r] /\ r # idx
<1>1. /\ need_write \in [1 .. tms_len -> BOOLEAN] /\ idx \in 1 .. tms_len
      /\ tms_len \in Nat /\ tms_len' = tms_len
  BY DEF TypeInv, TypeOK, tms_len, args
<1>2. need_write' = [need_write EXCEPT ![idx] = FALSE]
  BY DEF Write
<1>3. /\ need_write' \in [1 .. tms_len -> BOOLEAN]
      /\ \A r \in 1 .. tms_len : need_write'[r] <=> need_write[r] /\ r # idx
  BY <1>1, <1>2
<1>4. Served' = Served \cup {idx} /\ idx \notin Served
  BY <1>1, <1>3 DEF Served
<1>5. IsFiniteSet(Served) /\ have_write = Cardinality(Served)
  BY ServedCount DEF TypeInv, CountInv
<1>6. have_write' = Cardinality(Served')
  BY <1>4, <1>5, FS_AddElement, FS_CardinalityType DEF Write
<1>7. Cardinality(Served') \in 0 .. tms_len
  <2>1. IsFiniteSet(1 .. tms_len) /\ Cardinality(1 .. tms_len) = tms_len
    BY <1>1, FS_Interval
  <2>2. Served' \subseteq 1 .. tms_len
    BY <1>1 DEF Served
  <2>3. IsFiniteSet(Served') /\ Cardinality(Served') <= Cardinality(1 .. tms_len)
    BY <2>1, <2>2, FS_Subset
  <2>4. Cardinality(Served') \in Nat
    BY <2>3, FS_CardinalityType
  <2>5. QED
    BY <1>1, <2>1, <2>3, <2>4
<1>8. QED
  BY <1>3, <1>6, <1>7

\* The call starts in its types with nothing served.
LEMMA InitTypes == Init => TypeInv
<1> SUFFICES ASSUME Init PROVE TypeInv
  OBVIOUS
<1>1. stream \in Seq(Packet) /\ tms \in Seq(Int) \ {<< >>} /\ tms_len \in Nat \ {0}
  BY StreamsAssumption, RequestsAssumption, EmptySeq DEF Init, tms_len
<1>2. TypeOK
  <2>1. Len(stream) \in Nat /\ 1 \in 1 .. Len(stream) + 1 /\ 1 \in 1 .. tms_len + 1
    BY <1>1
  <2>2. Frames = {0} /\ decoded = << >> /\ dec = << >>
    BY DEF Init, Frames
  <2>3. /\ dec \in Seq(DOMAIN stream)
        /\ decoded \in Seq([packet : DOMAIN stream, pts : Int])
    BY <2>2
  <2>4. /\ need_write \in [1 .. tms_len -> BOOLEAN]
        /\ picture \in [1 .. tms_len -> Frames \cup {Unwritten, Failed}]
        /\ ref_frame \in Frames /\ resize_frame \in Frames
        /\ have_write \in 0 .. tms_len
    BY <1>1, <2>2 DEF Init, Nothing
  <2>5. /\ need_resize \in BOOLEAN /\ graph \in BOOLEAN /\ process \in BOOLEAN
        /\ at \in Labels /\ encode_frame \in {"ref", "resize"}
    BY DEF Init, Labels
  <2>6. /\ pos \in 1 .. Len(stream) + 1 /\ idx \in 1 .. tms_len + 1
        /\ ret \in Int
    BY <2>1 DEF Init
  <2>7. QED
    BY <1>1, <2>3, <2>4, <2>5, <2>6 DEF TypeOK
<1>3. Served = {}
  BY DEF Init, Served
<1>4. CountInv
  BY <1>3, FS_EmptySet DEF Init, CountInv
<1>5. QED
  BY <1>2, <1>4 DEF TypeInv

\* A frame delivered is a packet of the stream and the time of the one read last.
LEMMA Delivered ==
  ASSUME TypeInv, ReceiveFrame
  PROVE  /\ dec' \in Seq(DOMAIN stream)
         /\ decoded' \in Seq([packet : DOMAIN stream, pts : Int])
         /\ Len(decoded') = Len(decoded) + 1 /\ Len(decoded) \in Nat
         /\ decoded'[Len(decoded')].pts = stream[pos].pts
         /\ \A f \in 1 .. Len(decoded) : decoded'[f] = decoded[f]
<1>1. /\ dec \in Seq(DOMAIN stream) /\ dec # << >>
      /\ decoded \in Seq([packet : DOMAIN stream, pts : Int])
  <2>1. Len(dec) > DecoderDelay /\ DecoderDelay \in Nat
    BY DelayAssumption DEF ReceiveFrame
  <2>2. QED
    BY <2>1 DEF TypeInv, TypeOK
<1>2. Head(dec) \in DOMAIN stream /\ Tail(dec) \in Seq(DOMAIN stream)
  BY <1>1, HeadTailProperties
<1>3. stream[pos].pts \in Int
  <2>1. stream \in Seq(Packet) /\ pos \in DOMAIN stream
    BY DEF TypeInv, TypeOK, CountInv, ReceiveFrame
  <2>2. stream[pos] \in Packet
    BY <2>1
  <2>3. QED
    BY <2>2 DEF Packet
<1> DEFINE new == [packet |-> Head(dec), pts |-> stream[pos].pts]
           T == [packet : DOMAIN stream, pts : Int]
<1>4. new \in T /\ new.pts = stream[pos].pts
  BY <1>2, <1>3
<1>5. decoded' = Append(decoded, new) /\ dec' = Tail(dec)
  BY DEF ReceiveFrame
<1>6. decoded \in Seq(T)
  BY <1>1
<1> HIDE DEF new, T
<1>7. /\ decoded' \in Seq(T) /\ Len(decoded') = Len(decoded) + 1 /\ Len(decoded) \in Nat
      /\ decoded'[Len(decoded')] = new
      /\ \A f \in 1 .. Len(decoded) : decoded'[f] = decoded[f]
  BY <1>4, <1>5, <1>6
<1>8. QED
  BY <1>2, <1>4, <1>5, <1>7 DEF T

\* Every step keeps the types and the count.
LEMMA StepTypes == TypeInv /\ [Next]_vars => TypeInv'
<1> SUFFICES ASSUME TypeInv, [Next]_vars PROVE TypeInv'
  OBVIOUS
<1> USE DEF args, input, loop, bufs, done, Goto, Return, TypeInv
<1>t. /\ tms_len \in Nat /\ Len(stream) \in Nat /\ DOMAIN stream = 1 .. Len(stream)
      /\ Nothing = 0 /\ have_write \in Nat
      /\ Len(decoded) \in Nat /\ Nothing \in Frames
  BY DEF TypeOK, tms_len, Nothing, Frames
<1>1. CASE Open
  BY <1>1, <1>t DEF Open, TypeOK, CountInv, Served, tms_len, Labels, Frames
<1>2. CASE OpenFails
  BY <1>2, <1>t DEF OpenFails, TypeOK, CountInv, Served, tms_len, Labels, Frames
<1>3. CASE Seek
  <2>1. minof \in Int
    BY EarliestIs DEF TypeOK
  <2>2. SeekTo(minof) \in 1 .. Len(stream) + 1
    BY <2>1, SeekLands DEF TypeOK
  <2>3. pos' \in 1 .. Len(stream) + 1
    BY <1>3, <2>2 DEF Seek, TypeOK
  <2>4. QED
    BY <1>3, <1>t, <2>3 DEF Seek, TypeOK, CountInv, Served, tms_len, Labels, Frames
<1>4. CASE ReadOther
  BY <1>4, <1>t DEF ReadOther, TypeOK, CountInv, Served, tms_len, Labels, Frames
<1>5. CASE SendPacket
  <2>1. pos \in DOMAIN stream /\ dec' \in Seq(DOMAIN stream)
    <3>1. pos \in DOMAIN stream /\ dec \in Seq(DOMAIN stream)
      BY <1>5, <1>t DEF SendPacket, TypeOK
    <3>2. dec' = Append(dec, pos) \/ dec' = dec
      BY <1>5 DEF SendPacket
    <3>3. QED
      BY <3>1, <3>2, AppendProperties
  <2>2. \/ at' = "receive" /\ ret' = ret
        \/ at' = "destroy" /\ ret' = -600
    BY <1>5 DEF SendPacket
  <2>3. UNCHANGED << args, graph, pos, decoded, loop, bufs, done >>
    BY <1>5 DEF SendPacket
  <2>4. TypeOK'
    BY <2>1, <2>2, <2>3 DEF TypeOK, tms_len, Labels, Frames
  <2>5. QED
    BY <2>1, <2>2, <2>3, <2>4 DEF CountInv, Served, tms_len
<1>6. CASE ReadEnds
  <2>1. have_write < tms_len \/ have_write = tms_len
    BY <1>t DEF TypeOK
  <2>2. QED
    BY <1>6, <1>t, <2>1 DEF ReadEnds, TypeOK, CountInv, Served, tms_len, Labels, Frames
<1>7. CASE ReceiveFrame
  <2>1. /\ dec' \in Seq(DOMAIN stream)
        /\ decoded' \in Seq([packet : DOMAIN stream, pts : Int])
        /\ Len(decoded') = Len(decoded) + 1 /\ Len(decoded) \in Nat
    BY <1>7, Delivered
  <2>2. Frames \subseteq Frames' /\ ref_frame' \in Frames'
    BY <1>7, <2>1 DEF ReceiveFrame, Frames
  <2>3. picture' \in [1 .. tms_len -> Frames' \cup {Unwritten, Failed}]
    BY <1>7, <2>2 DEF ReceiveFrame, TypeOK
  <2>a. resize_frame' \in Frames' /\ idx' \in 1 .. tms_len + 1
    BY <1>7, <1>t, <2>2 DEF ReceiveFrame, TypeOK
  <2>4. process' \in BOOLEAN
    BY <1>7 DEF ReceiveFrame
  <2>5. UNCHANGED << args, ret, graph, pos, encode_frame, done >> /\ at' = "match"
        /\ pos \in DOMAIN stream
    BY <1>7 DEF ReceiveFrame, CountInv
  <2>6. TypeOK'
    BY <1>t, <2>1, <2>2, <2>3, <2>a, <2>4, <2>5 DEF TypeOK, tms_len, Labels
  <2>7. QED
    BY <2>5, <2>6 DEF CountInv, Served, tms_len
<1>8. CASE NoMoreFrames
  BY <1>8, <1>t DEF NoMoreFrames, TypeOK, CountInv, Served, tms_len, Labels, Frames
<1>9. CASE SkipRequest
  BY <1>9, <1>t DEF SkipRequest, TypeOK, CountInv, Served, tms_len, Labels, Frames
<1>f. ASSUME Filter
      PROVE  ref_frame' \in Frames /\ resize_frame' \in Frames
             /\ encode_frame' \in {"ref", "resize"}
  BY <1>f, <1>t DEF Filter, TypeOK, Frames
<1>10. CASE ProcessFrame
  BY <1>10, <1>f, <1>t DEF ProcessFrame, TypeOK, CountInv, Served, tms_len, Labels, Frames
<1>11. CASE FilterFails
  <2>1. \/ at' = "destroy" /\ ret' \in Int /\ ret' # 0
        \/ at' = "crashed" /\ ret' = ret
    BY <1>11 DEF FilterFails
  <2>2. UNCHANGED << args, graph, input, loop, bufs, done >>
    BY <1>11 DEF FilterFails
  <2>3. QED
    BY <2>1, <2>2, <1>t DEF TypeOK, CountInv, Served, tms_len, Labels, Frames
<1>w. ASSUME Write, UNCHANGED decoded, tms' = tms
      PROVE  picture' \in [1 .. tms_len -> Frames \cup {Unwritten, Failed}]
  <2>1. Source \in Frames
    BY DEF Source, TypeOK
  <2>2. QED
    BY <1>w, <2>1 DEF Write, TypeOK
<1>12. CASE WriteMatch
  <2>1. Write /\ need_write[idx] /\ idx <= tms_len /\ UNCHANGED args /\ UNCHANGED decoded
    BY <1>12 DEF WriteMatch, Reached
  <2>2. /\ need_write' \in [1 .. tms_len -> BOOLEAN]
        /\ have_write' \in 0 .. tms_len /\ have_write' = Cardinality(Served')
        /\ picture' \in [1 .. tms_len -> Frames \cup {Unwritten, Failed}]
    BY <2>1, <1>w, WriteServes
  <2>3. QED
    BY <1>12, <1>t, <2>2 DEF WriteMatch, TypeOK, CountInv, tms_len, Labels, Frames
<1>13. CASE MatchDone
  BY <1>13, <1>t DEF MatchDone, TypeOK, CountInv, Served, tms_len, Labels, Frames
<1>14. CASE Fallback
  BY <1>14, <1>f, <1>t DEF Fallback, TypeOK, CountInv, Served, tms_len, Labels, Frames
<1>15. CASE TryWrite
  <2>1. CASE need_write[idx] /\ Write
    <3>1. Write /\ need_write[idx] /\ idx <= tms_len /\ UNCHANGED args /\ UNCHANGED decoded
      BY <1>15, <2>1 DEF TryWrite
    <3>2. /\ need_write' \in [1 .. tms_len -> BOOLEAN]
          /\ have_write' \in 0 .. tms_len /\ have_write' = Cardinality(Served')
          /\ \A r \in 1 .. tms_len : need_write'[r] <=> need_write[r] /\ r # idx
          /\ picture' \in [1 .. tms_len -> Frames \cup {Unwritten, Failed}]
      BY <3>1, <1>w, WriteServes
    <3>3. \A r \in 1 .. tms_len : r < idx + 1 => ~need_write'[r]
      BY <1>15, <1>t, <3>2 DEF TryWrite, CountInv, TypeOK
    <3>4. QED
      BY <1>15, <1>t, <3>2, <3>3 DEF TryWrite, TypeOK, CountInv, tms_len, Labels, Frames
  <2>2. CASE ~need_write[idx] /\ UNCHANGED done
    <3>1. \A r \in 1 .. tms_len : r < idx + 1 => ~need_write'[r]
      BY <1>15, <1>t, <2>2 DEF TryWrite, CountInv, TypeOK
    <3>2. QED
      BY <1>15, <1>t, <2>2, <3>1 DEF TryWrite, TypeOK, CountInv, Served, tms_len, Labels, Frames
  <2>3. QED
    BY <1>15, <2>1, <2>2 DEF TryWrite
<1>16. CASE TryDone
  <2>1. \A r \in 1 .. tms_len : ~need_write[r]
    BY <1>16, <1>t DEF TryDone, CountInv, TypeOK
  <2>2. have_write = tms_len
    BY <2>1, ServedCount DEF CountInv
  <2>3. QED
    BY <1>16, <1>t, <2>2 DEF TryDone, TypeOK, CountInv, Served, tms_len, Labels, Frames
<1>17. CASE Finish
  BY <1>17, <1>t DEF Finish, TypeOK, CountInv, Served, tms_len, Labels, Frames
<1>18. CASE Destroy
  <2>1. /\ dec' = << >> /\ ref_frame' = Nothing /\ resize_frame' = Nothing
        /\ graph' = FALSE /\ at = "destroy" /\ at' = "end" /\ ret' = ret
        /\ UNCHANGED << args, pos, decoded, encode_frame, loop, done >>
    BY <1>18 DEF Destroy
  <2>2. dec' \in Seq(DOMAIN stream)
    BY <2>1
  <2>a. graph' \in BOOLEAN
    BY <2>1
  <2>3. TypeOK'
    BY <1>t, <2>1, <2>2, <2>a DEF TypeOK, tms_len, Labels, Frames
  <2>4. QED
    BY <2>1, <2>3 DEF CountInv, Served, tms_len
<1>19. CASE UNCHANGED vars
  BY <1>19 DEF vars, TypeOK, CountInv, Served, tms_len, Frames
<1>20. QED
  BY <1>1, <1>2, <1>3, <1>4, <1>5, <1>6, <1>7, <1>8, <1>9, <1>10, <1>11, <1>12,
     <1>13, <1>14, <1>15, <1>16, <1>17, <1>18, <1>19 DEF Next

-------------------------------------------------------------------------------
(* The pictures.                                                             *)

\* f is the first frame that reaches the time of request r.
First(r, f) == f \in Reaching(r) /\ \A g \in Reaching(r) : f <= g

\* What run has of a request it served: the first frame that reaches it, the
\* last frame when none did, nothing (of a frame that was moved to the filter
\* for an earlier request), or a write that failed.
Shown(r) ==
  \/ picture[r] = Failed
  \/ First(r, picture[r])
  \/ /\ Reaching(r) = {} /\ picture[r] = Len(decoded)
     /\ at \in {"try", "finish", "destroy", "end"}
  \/ /\ picture[r] = Nothing /\ need_resize
     /\ \E q \in 1 .. r - 1, f \in DOMAIN decoded : First(q, f) /\ First(r, f)

\* What run has of one it did not: no frame before the one it looks at reaches it.
Awaited(r) ==
  /\ picture[r] = Unwritten
  /\ at \in {"open", "seek", "read", "receive", "fallback", "try"} => Reaching(r) = {}
  /\ at = "match" => Reaching(r) \subseteq {Len(decoded)}
  /\ at = "match" /\ r < idx => Reaching(r) = {}

PicturesInv ==
  \A r \in 1 .. tms_len : IF need_write[r] THEN Awaited(r) ELSE Shown(r)

\* The frames held between two frames: the last one delivered, unless it was
\* moved to the filter and released there.
HeldBetween ==
  /\ resize_frame = Nothing
  /\ ref_frame \in {Nothing, Len(decoded)}
  /\ ~need_resize => ref_frame = Len(decoded)

\* The frames held while the requests are matched with a frame: it is moved
\* once, for the first request it serves.
HeldInMatch ==
  /\ decoded # << >> /\ decoded[Len(decoded)].pts = stream[pos].pts
  /\ need_resize /\ process =>
       /\ encode_frame = "resize" /\ ref_frame = Nothing
       /\ resize_frame \in {Nothing, Len(decoded)}
       /\ resize_frame = Nothing =>
            \E q \in 1 .. tms_len : q < idx /\ First(q, Len(decoded))
       /\ resize_frame # Nothing => idx <= tms_len /\ Reached
  /\ ~(need_resize /\ process) =>
       resize_frame = Nothing /\ ref_frame = Len(decoded)
  /\ process /\ ~need_resize => encode_frame = "ref"

FramesInv ==
  /\ at \in {"open", "seek", "read", "receive", "fallback"} => HeldBetween
  /\ at = "match" => HeldInMatch
  /\ at = "try" => Source = Len(decoded)

\* All the frames delivered so far are before the next one.
LEMMA ReachingMore ==
  ASSUME TypeInv, ReceiveFrame, NEW r \in 1 .. tms_len
  PROVE  /\ Reaching(r)' \subseteq Reaching(r) \cup {Len(decoded')}
         /\ Reaching(r) \subseteq Reaching(r)'
         /\ \A f : First(r, f) => First(r, f)'
<1>1. /\ Len(decoded') = Len(decoded) + 1 /\ Len(decoded) \in Nat
      /\ DOMAIN decoded' = 1 .. Len(decoded') /\ DOMAIN decoded = 1 .. Len(decoded)
      /\ \A f \in 1 .. Len(decoded) : decoded'[f] = decoded[f]
      /\ tms' = tms
  BY Delivered DEF TypeInv, TypeOK, ReceiveFrame, args
<1>2. /\ \A f \in Reaching(r)' : f \in Reaching(r) \/ f = Len(decoded')
      /\ Reaching(r) \subseteq Reaching(r)'
      /\ Reaching(r) \subseteq 1 .. Len(decoded)
  BY <1>1 DEF Reaching
<1>3. ASSUME NEW f, First(r, f) PROVE First(r, f)'
  <2>1. f \in Reaching(r)' /\ f \in 1 .. Len(decoded)
    BY <1>2, <1>3 DEF First
  <2>2. \A g \in Reaching(r)' : f <= g
    BY <1>1, <1>2, <1>3, <2>1 DEF First
  <2>3. QED
    BY <2>1, <2>2 DEF First
<1>4. QED
  BY <1>2, <1>3

\* A step that delivers no frame and writes no picture keeps what is shown, as
\* long as the fallback is not left for the loop, which it never is.
LEMMA SamePictures ==
  ASSUME TypeInv, UNCHANGED << args, decoded, done >>,
         \/ at' \in {"try", "finish", "destroy", "end"}
         \/ at \notin {"try", "finish", "destroy", "end"},
         NEW r \in 1 .. tms_len
  PROVE  /\ Reaching(r)' = Reaching(r)
         /\ Shown(r) => Shown(r)'
         /\ \A f : First(r, f)' <=> First(r, f)
<1>1. \A q : Reaching(q)' = Reaching(q)
  BY DEF Reaching, args
<1>2. \A q, f : First(q, f)' <=> First(q, f)
  BY <1>1 DEF First
<1>3. Shown(r) => Shown(r)'
  BY <1>1, <1>2 DEF Shown, args, done
<1>4. QED
  BY <1>1, <1>2, <1>3

\* Neither do such steps outside the loop over the requests change what is known
\* of the requests.
LEMMA QuietPictures ==
  ASSUME TypeInv, PicturesInv, UNCHANGED << args, decoded, done >>,
         \/ at' \in {"try", "finish", "destroy", "end"}
         \/ at \notin {"try", "finish", "destroy", "end"},
         at' # "match",
         at' \in {"open", "seek", "read", "receive", "fallback", "try"} =>
           \A r \in 1 .. tms_len : need_write[r] => Reaching(r) = {}
  PROVE  PicturesInv'
<1>1. need_write' = need_write /\ picture' = picture /\ tms_len' = tms_len
  BY DEF args, done, tms_len
<1>2. ASSUME NEW r \in 1 .. tms_len
      PROVE  IF need_write'[r] THEN Awaited(r)' ELSE Shown(r)'
  <2>1. Reaching(r)' = Reaching(r) /\ (Shown(r) => Shown(r)')
    BY SamePictures
  <2>2. CASE need_write[r]
    BY <1>1, <2>1, <2>2 DEF PicturesInv, Awaited
  <2>3. CASE ~need_write[r]
    BY <1>1, <2>1, <2>3 DEF PicturesInv
  <2>4. QED
    BY <2>2, <2>3
<1>3. QED
  BY <1>1, <1>2 DEF PicturesInv

\* A frame is delivered: no request that waits was reached before it.
LEMMA PicturesOfFrame ==
  ASSUME TypeInv, PicturesInv, FramesInv, ReceiveFrame
  PROVE  PicturesInv' /\ FramesInv'
<1>1. /\ Len(decoded') = Len(decoded) + 1 /\ Len(decoded) \in Nat
      /\ decoded'[Len(decoded')].pts = stream[pos].pts
  BY Delivered
<1>2. /\ tms_len' = tms_len /\ need_write' = need_write /\ picture' = picture
      /\ need_resize' = need_resize /\ stream' = stream /\ pos' = pos
      /\ at = "receive" /\ at' = "match" /\ process' = FALSE /\ idx' = 1
      /\ ref_frame' = Len(decoded') /\ resize_frame' = resize_frame
  BY DEF ReceiveFrame, args, done, tms_len, Goto
<1>3. ASSUME NEW r \in 1 .. tms_len
      PROVE  IF need_write'[r] THEN Awaited(r)' ELSE Shown(r)'
  <2>1. /\ Reaching(r)' \subseteq Reaching(r) \cup {Len(decoded')}
        /\ \A f : First(r, f) => First(r, f)'
    BY ReachingMore
  <2>2. CASE need_write[r]
    <3>1. picture[r] = Unwritten /\ Reaching(r) = {}
      BY <1>2, <2>2 DEF PicturesInv, Awaited
    <3>2. ~(r < 1)
      OBVIOUS
    <3>3. QED
      BY <1>2, <2>1, <2>2, <3>1, <3>2 DEF Awaited
  <2>3. CASE ~need_write[r]
    <3>1. Shown(r)
      BY <2>3 DEF PicturesInv
    <3>2. ASSUME NEW q \in 1 .. r - 1, NEW f \in DOMAIN decoded, First(q, f), First(r, f)
          PROVE  First(q, f)' /\ First(r, f)' /\ f \in DOMAIN decoded'
      <4>1. q \in 1 .. tms_len
        BY DEF TypeInv, TypeOK, tms_len
      <4>2. First(q, f)' /\ First(r, f)'
        BY <2>1, <3>2, <4>1, ReachingMore
      <4>3. QED
        BY <4>2 DEF First, Reaching
    <3>3. PICK p : p = picture[r]
      OBVIOUS
    <3>4. picture'[r] = p
      BY <1>2, <3>3
    <3>5. ASSUME p = Failed PROVE Shown(r)'
      BY <3>4, <3>5 DEF Shown, Failed
    <3>6. ASSUME First(r, p) PROVE Shown(r)'
      <4>1. First(r, p)'
        BY <2>1, <3>6
      <4>2. First(r, picture[r])'
        BY <3>4, <4>1 DEF First
      <4>3. QED
        BY <4>2 DEF Shown
    <3>7. ASSUME p = Nothing, need_resize,
                 \E q \in 1 .. r - 1, f \in DOMAIN decoded : First(q, f) /\ First(r, f)
          PROVE  Shown(r)'
      <4>1. PICK q \in 1 .. r - 1, f \in DOMAIN decoded : First(q, f) /\ First(r, f)
        BY <3>7
      <4>2. First(q, f)' /\ First(r, f)' /\ f \in DOMAIN decoded'
        BY <3>2, <4>1
      <4>3. picture'[r] = Nothing /\ need_resize'
        BY <1>2, <3>4, <3>7
      <4>4. QED
        BY <4>2, <4>3 DEF Shown, Nothing
    <3>8. Shown(r)'
      <4>1. ~(at \in {"try", "finish", "destroy", "end"})
        BY <1>2
      <4>2. QED
        BY <3>1, <3>3, <3>5, <3>6, <3>7, <4>1 DEF Shown
    <3>9. QED
      BY <1>2, <2>3, <3>8
  <2>4. QED
    BY <2>2, <2>3
<1>4. PicturesInv'
  BY <1>2, <1>3 DEF PicturesInv
<1>5. resize_frame = Nothing
  BY <1>2 DEF FramesInv, HeldBetween
<1>6. decoded' # << >>
  BY <1>1
<1>7. QED
  BY <1>1, <1>2, <1>4, <1>5, <1>6 DEF FramesInv, HeldInMatch

\* The frame run looks at is the first that reaches a request it has to serve.
LEMMA FirstNow ==
  ASSUME TypeInv, PicturesInv, FramesInv, at = "match", idx <= tms_len, need_write[idx]
  PROVE  IF stream[pos].pts >= tms[idx] THEN First(idx, Len(decoded))
                                        ELSE Reaching(idx) = {}
<1>1. /\ idx \in 1 .. tms_len /\ Len(decoded) \in DOMAIN decoded
      /\ Len(decoded) \in Nat
      /\ decoded[Len(decoded)].pts = stream[pos].pts
  BY DEF TypeInv, TypeOK, tms_len, FramesInv, HeldInMatch
<1>2. Reaching(idx) \subseteq {Len(decoded)}
  BY <1>1 DEF PicturesInv, Awaited
<1>3. QED
  BY <1>1, <1>2 DEF First, Reaching

\* A request that is passed over waits for a later frame; one that is to be
\* served has the frame moved to the filter, when the pictures are resized.
LEMMA PicturesOfMatch ==
  ASSUME TypeInv, PicturesInv, FramesInv, SkipRequest \/ ProcessFrame
  PROVE  PicturesInv' /\ FramesInv'
<1>1. /\ UNCHANGED << args, decoded, done >> /\ pos' = pos
      /\ at = "match" /\ at' = "match" /\ idx <= tms_len
      /\ tms_len' = tms_len /\ need_write' = need_write /\ picture' = picture
      /\ need_resize' = need_resize /\ stream' = stream /\ tms' = tms
      /\ decoded' = decoded /\ Len(decoded) \in Nat /\ Nothing = 0
      /\ idx \in Nat /\ tms_len \in Nat
  BY DEF SkipRequest, ProcessFrame, args, input, done, tms_len, Goto, TypeInv, TypeOK, Nothing
<1>2. idx' = idx \/ (~Reached /\ idx' = idx + 1)
  BY DEF SkipRequest, ProcessFrame
<1>3. ASSUME NEW r \in 1 .. tms_len
      PROVE  IF need_write'[r] THEN Awaited(r)' ELSE Shown(r)'
  <2>1. Reaching(r)' = Reaching(r) /\ (Shown(r) => Shown(r)')
    BY <1>1, SamePictures
  <2>2. CASE need_write[r]
    <3>1. Awaited(r)
      BY <2>2 DEF PicturesInv
    <3>2. ASSUME r < idx' PROVE Reaching(r) = {}
      <4>1. CASE r < idx
        BY <1>1, <3>1, <4>1 DEF Awaited
      <4>2. CASE ~(r < idx)
        <5>1. r = idx /\ ~Reached
          BY <1>1, <1>2, <3>2, <4>2
        <5>2. QED
          BY <1>1, <2>2, <5>1, FirstNow DEF Reached
      <4>3. QED
        BY <4>1, <4>2
    <3>3. QED
      BY <1>1, <2>1, <2>2, <3>1, <3>2 DEF Awaited
  <2>3. CASE ~need_write[r]
    BY <1>1, <2>1, <2>3 DEF PicturesInv
  <2>4. QED
    BY <2>2, <2>3
<1>4. HeldInMatch
  BY <1>1 DEF FramesInv
<1>5. \A q \in 1 .. tms_len : \A f : First(q, f)' <=> First(q, f)
  BY <1>1, SamePictures
<1>6. CASE SkipRequest
  <2>1. ~Reached /\ idx' = idx + 1 /\ process' = process
        /\ UNCHANGED << ref_frame, resize_frame, encode_frame >>
    BY <1>6 DEF SkipRequest, bufs
  <2>2. PICK n : n = Len(decoded)
    OBVIOUS
  <2>3. ASSUME need_resize, process, resize_frame = Nothing
        PROVE  \E q \in 1 .. tms_len' : q < idx' /\ First(q, Len(decoded))'
    <3>1. PICK q \in 1 .. tms_len : q < idx /\ First(q, n)
      BY <1>4, <2>2, <2>3 DEF HeldInMatch
    <3>2. First(q, n)' /\ q < idx'
      BY <1>1, <1>5, <2>1, <3>1
    <3>3. First(q, Len(decoded))'
      BY <1>1, <2>2, <3>2 DEF First
    <3>4. QED
      BY <1>1, <3>2, <3>3
  <2>4. HeldInMatch'
    BY <1>1, <1>4, <2>1, <2>3 DEF HeldInMatch
  <2>5. QED
    BY <1>1, <1>3, <2>4 DEF PicturesInv, FramesInv
<1>7. CASE ProcessFrame
  <2>1. Reached /\ idx' = idx /\ process' = TRUE /\ ~process /\ Filter
    BY <1>7 DEF ProcessFrame
  <2>2. resize_frame = Nothing /\ ref_frame = Len(decoded)
    BY <1>4, <2>1 DEF HeldInMatch
  <2>3. Reached'
    BY <1>1, <2>1 DEF Reached
  <2>4. CASE ~need_resize
    BY <1>1, <1>3, <1>4, <2>1, <2>2, <2>4 DEF Filter, HeldInMatch, FramesInv, PicturesInv
  <2>5. CASE need_resize
    <3>1. /\ encode_frame' = "resize" /\ resize_frame' = Len(decoded) /\ ref_frame' = Nothing
          /\ resize_frame' # Nothing
      BY <2>1, <2>2, <2>5 DEF Filter
    <3>2. HeldInMatch'
      BY <1>1, <1>4, <2>1, <2>3, <2>5, <3>1 DEF HeldInMatch
    <3>3. QED
      BY <1>1, <1>3, <3>2 DEF FramesInv, PicturesInv
  <2>6. QED
    BY <2>4, <2>5
<1>8. QED
  BY <1>6, <1>7

\* A picture is written for the request at idx and for no other.
LEMMA WritesOne ==
  ASSUME TypeInv, Write, idx <= tms_len, need_write[idx], UNCHANGED << args, decoded >>,
         at' = at, NEW r \in 1 .. tms_len
  PROVE  /\ Reaching(r)' = Reaching(r)
         /\ \A f : First(r, f)' <=> First(r, f)
         /\ need_write'[r] <=> need_write[r] /\ r # idx
         /\ r # idx => picture'[r] = picture[r]
         /\ r = idx => picture'[r] = Failed \/ picture'[r] = Source
         /\ r # idx /\ Shown(r) => Shown(r)'
<1>1. \A q : Reaching(q)' = Reaching(q)
  BY DEF Reaching, args
<1>2. \A q, f : First(q, f)' <=> First(q, f)
  BY <1>1 DEF First
<1>3. need_write'[r] <=> need_write[r] /\ r # idx
  <2>1. UNCHANGED args
    BY DEF args
  <2>2. QED
    BY <2>1, WriteServes
<1>4. \E p \in {Failed, Source} : picture' = [picture EXCEPT ![idx] = p]
  BY DEF Write
<1>5. picture \in [1 .. tms_len -> Frames \cup {Unwritten, Failed}]
  BY DEF TypeInv, TypeOK
<1>6. /\ r # idx => picture'[r] = picture[r]
      /\ r = idx => picture'[r] = Failed \/ picture'[r] = Source
  BY <1>4, <1>5
<1>7. r # idx /\ Shown(r) => Shown(r)'
  BY <1>1, <1>2, <1>6 DEF Shown, args
<1>8. QED
  BY <1>1, <1>2, <1>3, <1>6, <1>7

\* A request that the frame reaches gets its picture, or what is left of it when
\* it was moved for an earlier one.
LEMMA PicturesOfWrite ==
  ASSUME TypeInv, PicturesInv, FramesInv, WriteMatch
  PROVE  PicturesInv' /\ FramesInv'
<1>1. /\ UNCHANGED << args, decoded >> /\ pos' = pos /\ process' = process /\ process
      /\ at = "match" /\ at' = "match" /\ idx <= tms_len /\ Write /\ Reached
      /\ need_write[idx] /\ tms_len' = tms_len /\ idx' = idx + 1
      /\ need_resize' = need_resize /\ stream' = stream /\ tms' = tms
      /\ resize_frame' = Nothing /\ ref_frame' = ref_frame /\ encode_frame' = encode_frame
      /\ Len(decoded) \in Nat /\ Nothing = 0
      /\ idx \in 1 .. tms_len /\ tms_len \in Nat
  BY DEF WriteMatch, Reached, args, input, tms_len, Goto, TypeInv, TypeOK, Nothing
<1>2. PICK i \in 1 .. tms_len, n \in Nat : i = idx /\ n = Len(decoded)
  BY <1>1
<1>3. First(i, n) /\ n \in DOMAIN decoded
  BY <1>1, <1>2, FirstNow DEF Reached, First, Reaching
<1>4. /\ HeldInMatch
      /\ \A r \in 1 .. tms_len : \A f : First(r, f)' <=> First(r, f)
      /\ decoded' = decoded
  BY <1>1, WritesOne DEF FramesInv
<1>5. ASSUME Source # n
      PROVE  Source = Nothing /\ need_resize /\ \E q \in 1 .. tms_len : q < i /\ First(q, n)
  BY <1>1, <1>2, <1>4, <1>5 DEF HeldInMatch, Source
<1>6. Shown(i)'
  <2>1. picture'[i] = Failed \/ picture'[i] = Source
    BY <1>1, <1>2, WritesOne
  <2>2. First(i, n)'
    BY <1>3, <1>4
  <2>3. CASE picture'[i] = Failed
    BY <2>3 DEF Shown, Failed
  <2>4. CASE picture'[i] = n
    <3>1. First(i, picture[i])'
      BY <2>2, <2>4 DEF First
    <3>2. QED
      BY <3>1 DEF Shown
  <2>5. CASE picture'[i] = Source /\ Source # n
    <3>1. PICK q \in 1 .. tms_len : q < i /\ First(q, n)
      BY <1>5, <2>5
    <3>2. First(q, n)' /\ q \in 1 .. i - 1 /\ n \in DOMAIN decoded'
      BY <1>3, <1>4, <3>1
    <3>3. picture'[i] = Nothing /\ need_resize'
      BY <1>1, <1>5, <2>5
    <3>4. QED
      BY <2>2, <3>2, <3>3 DEF Shown, Nothing
  <2>6. QED
    BY <2>1, <2>3, <2>4, <2>5
<1>7. ASSUME NEW r \in 1 .. tms_len
      PROVE  IF need_write'[r] THEN Awaited(r)' ELSE Shown(r)'
  <2>1. CASE r = i
    <3>1. ~need_write'[r]
      BY <1>1, <1>2, <2>1, WritesOne
    <3>2. Shown(r)'
      BY <1>6, <2>1
    <3>3. QED
      BY <3>1, <3>2
  <2>2. CASE r # i /\ ~need_write[r]
    <3>1. Shown(r)
      BY <2>2 DEF PicturesInv
    <3>2. ~need_write'[r] /\ Shown(r)'
      BY <1>1, <1>2, <2>2, <3>1, WritesOne
    <3>3. QED
      BY <3>2
  <2>3. CASE r # i /\ need_write[r]
    <3>1. Awaited(r)
      BY <2>3 DEF PicturesInv
    <3>2. need_write'[r] /\ Reaching(r)' = Reaching(r) /\ picture'[r] = picture[r]
      BY <1>1, <1>2, <2>3, WritesOne
    <3>3. r < idx' => r < idx
      BY <1>1, <1>2, <2>3
    <3>4. QED
      BY <1>1, <3>1, <3>2, <3>3 DEF Awaited
  <2>4. QED
    BY <2>1, <2>2, <2>3
<1>8. PicturesInv'
  BY <1>1, <1>7 DEF PicturesInv
<1>9. HeldInMatch'
  <2>1. First(i, n)' /\ i < idx'
    BY <1>1, <1>2, <1>3, <1>4
  <2>2. First(i, Len(decoded))'
    BY <1>2, <1>4, <2>1 DEF First
  <2>3. \E q \in 1 .. tms_len' : q < idx' /\ First(q, Len(decoded))'
    BY <1>1, <2>1, <2>2
  <2>4. QED
    BY <1>1, <1>4, <2>3 DEF HeldInMatch
<1>10. QED
  BY <1>1, <1>8, <1>9 DEF FramesInv

\* A request that no frame has reached gets the last one.
LEMMA PicturesOfTry ==
  ASSUME TypeInv, PicturesInv, FramesInv, TryWrite
  PROVE  PicturesInv' /\ FramesInv'
<1>1. /\ UNCHANGED << args, decoded >> /\ UNCHANGED bufs
      /\ at = "try" /\ at' = "try" /\ idx <= tms_len /\ tms_len' = tms_len
      /\ Len(decoded) \in Nat /\ idx \in 1 .. tms_len /\ tms_len \in Nat
  BY DEF TryWrite, args, input, tms_len, Goto, TypeInv, TypeOK
<1>2. Source = Len(decoded)
  BY <1>1 DEF FramesInv
<1>3. FramesInv'
  BY <1>1, <1>2 DEF FramesInv, Source, bufs
<1>4. CASE ~need_write[idx] /\ UNCHANGED done
  <2>1. \A r \in 1 .. tms_len : need_write[r] => Reaching(r) = {}
    BY <1>1 DEF PicturesInv, Awaited
  <2>2. PicturesInv'
    BY <1>1, <1>4, <2>1, QuietPictures
  <2>3. QED
    BY <1>3, <2>2
<1>5. CASE need_write[idx] /\ Write
  <2>1. ASSUME NEW r \in 1 .. tms_len
        PROVE  IF need_write'[r] THEN Awaited(r)' ELSE Shown(r)'
    <3>1. /\ Reaching(r)' = Reaching(r)
          /\ need_write'[r] <=> need_write[r] /\ r # idx
          /\ r # idx => picture'[r] = picture[r]
          /\ r = idx => picture'[r] = Failed \/ picture'[r] = Source
          /\ r # idx /\ Shown(r) => Shown(r)'
      BY <1>1, <1>5, WritesOne
    <3>2. CASE r = idx
      <4>1. Reaching(r) = {}
        BY <1>1, <1>5, <3>2 DEF PicturesInv, Awaited
      <4>2. picture'[r] = Failed \/ picture'[r] = Len(decoded)
        BY <1>2, <3>1, <3>2
      <4>3. Shown(r)'
        BY <1>1, <3>1, <4>1, <4>2 DEF Shown, Failed
      <4>4. QED
        BY <3>1, <3>2, <4>3
    <3>3. CASE r # idx /\ need_write[r]
      <4>1. Awaited(r)
        BY <3>3 DEF PicturesInv
      <4>2. QED
        BY <1>1, <3>1, <3>3, <4>1 DEF Awaited
    <3>4. CASE r # idx /\ ~need_write[r]
      BY <3>1, <3>4 DEF PicturesInv
    <3>5. QED
      BY <3>2, <3>3, <3>4
  <2>2. QED
    BY <1>1, <1>3, <2>1 DEF PicturesInv
<1>6. QED
  BY <1>4, <1>5 DEF TryWrite

\* The files and requests are those the call was given.
Inv ==
  /\ stream \in Streams /\ tms \in Requests
  /\ TypeInv /\ PicturesInv /\ FramesInv

\* The call starts with no frame and no picture.
LEMMA InitInv == Init => Inv
<1> SUFFICES ASSUME Init PROVE Inv
  OBVIOUS
<1>1. TypeInv
  BY InitTypes
<1>2. decoded = << >> /\ Len(decoded) = 0 /\ at = "open" /\ Nothing = 0
      /\ stream \in Streams /\ tms \in Requests
  BY DEF Init, Nothing
<1>3. \A r \in 1 .. tms_len : Reaching(r) = {} /\ need_write[r] /\ picture[r] = Unwritten
  BY <1>2 DEF Init, Reaching
<1>4. PicturesInv
  BY <1>2, <1>3 DEF PicturesInv, Awaited
<1>5. FramesInv
  BY <1>2 DEF Init, FramesInv, HeldBetween
<1>6. QED
  BY <1>1, <1>2, <1>4, <1>5 DEF Inv

\* Every step keeps the invariant.
LEMMA StepInv == Inv /\ [Next]_vars => Inv'
<1> SUFFICES ASSUME Inv, [Next]_vars PROVE Inv'
  OBVIOUS
<1>1. TypeInv /\ PicturesInv /\ FramesInv
  BY DEF Inv
<1>2. TypeInv'
  BY <1>1, StepTypes
<1>3. stream' \in Streams /\ tms' \in Requests
  <2>1. UNCHANGED args
    BY DEF Next, vars, Open, OpenFails, Seek, ReadOther, SendPacket, ReadEnds,
       ReceiveFrame, NoMoreFrames, SkipRequest, ProcessFrame, FilterFails, WriteMatch,
       MatchDone, Fallback, TryWrite, TryDone, Finish, Destroy
  <2>2. QED
    BY <2>1 DEF Inv, args
<1>4. Len(decoded) \in Nat /\ Nothing = 0 /\ tms_len \in Nat /\ idx \in 1 .. tms_len + 1
  BY <1>1 DEF TypeInv, TypeOK, Nothing, tms_len
<1>a. at \in {"open", "seek", "read", "receive", "fallback", "try"} =>
        \A r \in 1 .. tms_len : need_write[r] => Reaching(r) = {}
  BY <1>1 DEF PicturesInv, Awaited
<1>5. CASE Open \/ OpenFails \/ Seek \/ ReadOther \/ SendPacket \/ ReadEnds \/ NoMoreFrames
  <2>1. /\ UNCHANGED << args, decoded, done >> /\ UNCHANGED bufs
        /\ at \in {"open", "seek", "read", "receive"}
        /\ at' \in {"seek", "read", "receive", "destroy", "fallback", "finish"}
    BY <1>5 DEF Open, OpenFails, Seek, ReadOther, SendPacket, ReadEnds, NoMoreFrames,
       Goto, Return, input
  <2>2. PicturesInv'
    BY <1>1, <1>a, <2>1, QuietPictures
  <2>3. FramesInv'
    BY <1>1, <2>1 DEF FramesInv, HeldBetween, bufs, args
  <2>4. QED
    BY <1>2, <1>3, <2>2, <2>3 DEF Inv
<1>6. CASE ReceiveFrame
  BY <1>1, <1>2, <1>3, <1>6, PicturesOfFrame DEF Inv
<1>7. CASE SkipRequest \/ ProcessFrame
  BY <1>1, <1>2, <1>3, <1>7, PicturesOfMatch DEF Inv
<1>8. CASE WriteMatch
  BY <1>1, <1>2, <1>3, <1>8, PicturesOfWrite DEF Inv
<1>9. CASE MatchDone
  <2>1. /\ UNCHANGED << args, decoded, done >> /\ UNCHANGED << ref_frame, resize_frame >>
        /\ at = "match" /\ at' = "receive" /\ idx > tms_len
    BY <1>9 DEF MatchDone, Goto, input, bufs
  <2>2. \A r \in 1 .. tms_len : need_write[r] => Reaching(r) = {}
    BY <1>1, <1>4, <2>1 DEF PicturesInv, Awaited
  <2>3. PicturesInv'
    BY <1>1, <2>1, <2>2, QuietPictures
  <2>4. HeldBetween
    BY <1>1, <1>4, <2>1 DEF FramesInv, HeldInMatch, HeldBetween
  <2>5. FramesInv'
    BY <2>1, <2>4 DEF FramesInv, HeldBetween, args
  <2>6. QED
    BY <1>2, <1>3, <2>3, <2>5 DEF Inv
<1>10. CASE FilterFails
  <2>1. /\ UNCHANGED << args, decoded, done >>
        /\ at \in {"match", "fallback"} /\ at' \in {"destroy", "crashed"}
    BY <1>10 DEF FilterFails, Goto, Return, input
  <2>2. PicturesInv'
    BY <1>1, <2>1, QuietPictures
  <2>3. QED
    BY <1>2, <1>3, <2>1, <2>2 DEF Inv, FramesInv
<1>11. CASE Fallback
  <2>1. /\ UNCHANGED << args, decoded, done >>
        /\ at = "fallback" /\ at' = "try" /\ Filter
    BY <1>11 DEF Fallback, Goto, input
  <2>2. PicturesInv'
    BY <1>1, <1>a, <2>1, QuietPictures
  <2>3. HeldBetween
    BY <1>1, <2>1 DEF FramesInv
  <2>4. Source' = Len(decoded)
    BY <2>1, <2>3 DEF Filter, HeldBetween, Source
  <2>5. QED
    BY <1>2, <1>3, <2>1, <2>2, <2>4 DEF Inv, FramesInv
<1>12. CASE TryWrite
  BY <1>1, <1>2, <1>3, <1>12, PicturesOfTry DEF Inv
<1>13. CASE TryDone \/ Finish \/ Destroy
  <2>1. /\ UNCHANGED << args, decoded, done >>
        /\ at \in {"try", "finish", "destroy"} /\ at' \in {"finish", "destroy", "end"}
    BY <1>13 DEF TryDone, Finish, Destroy, Goto, Return, input
  <2>2. PicturesInv'
    BY <1>1, <2>1, QuietPictures
  <2>3. QED
    BY <1>2, <1>3, <2>1, <2>2 DEF Inv, FramesInv
<1>14. CASE UNCHANGED vars
  <2>1. UNCHANGED << args, decoded, done >> /\ UNCHANGED << at, pos, bufs, loop >>
    BY <1>14 DEF vars, input
  <2>2. CASE at = "match"
    <3>1. \A r : Reaching(r)' = Reaching(r)
      BY <2>1 DEF Reaching, args
    <3>2. \A r, f : First(r, f)' <=> First(r, f)
      BY <3>1 DEF First
    <3>3. PicturesInv'
      BY <1>1, <2>1, <3>1, <3>2
      DEF PicturesInv, Awaited, Shown, tms_len, args, done, loop, bufs
    <3>4. HeldInMatch'
      BY <1>1, <2>1, <2>2, <3>1, <3>2
      DEF FramesInv, HeldInMatch, Reached, First, Reaching, tms_len, args, done, loop, bufs
    <3>5. QED
      BY <1>2, <1>3, <2>1, <2>2, <3>3, <3>4 DEF Inv, FramesInv
  <2>3. CASE at # "match"
    <3>1. PicturesInv'
      BY <1>1, <1>a, <2>1, <2>3, QuietPictures
    <3>2. FramesInv'
      BY <1>1, <2>1, <2>3 DEF FramesInv, HeldBetween, Source, bufs, args
    <3>3. QED
      BY <1>2, <1>3, <3>1, <3>2 DEF Inv
  <2>4. QED
    BY <2>2, <2>3
<1>15. QED
  BY <1>5, <1>6, <1>7, <1>8, <1>9, <1>10, <1>11, <1>12, <1>13, <1>14 DEF Next

\* The invariant holds in every state of a call.
LEMMA Invariant == Spec => []Inv
BY InitInv, StepInv, PTL DEF Spec

\* Every variable of run keeps its type.
THEOREM TypeCorrect == Spec => []TypeOK
<1>1. Inv => TypeOK
  BY DEF Inv, TypeInv
<1>2. QED
  BY <1>1, Invariant, PTL

\* The count that ends the decode loop (line 519) agrees with the list, and run
\* returns 0 only once a write was tried for every request.
THEOREM AllServedAlways == Spec => []AllServed
<1>1. Inv => AllServed
  BY DEF Inv, TypeInv, CountInv, AllServed, Served
<1>2. QED
  BY <1>1, Invariant, PTL

\* Every picture written from a frame (lines 519-603) shows the first that
\* reached the requested time, or the last of the file when none did.
THEOREM FirstFrameReachedAlways == Spec => []FirstFrameReached
<1>1. ASSUME Inv PROVE FirstFrameReached
  <2>1. ASSUME NEW r \in 1 .. tms_len, Shows(r)
        PROVE  picture[r] = IF Reaching(r) = {} THEN Len(decoded) ELSE FirstReaching(r)
    <3>1. PICK p : p = picture[r]
      OBVIOUS
    <3>2. p \in 1 .. Len(decoded)
      BY <1>1, <2>1, <3>1 DEF Inv, TypeInv, TypeOK, Shows
    <3>3. Shown(r)
      BY <1>1, <3>1, <3>2 DEF Inv, PicturesInv, Awaited, Unwritten
    <3>4. CASE First(r, p)
      <4>1. Reaching(r) # {} /\ Reaching(r) \subseteq Int
        BY <1>1, <3>4 DEF First, Reaching, Inv, TypeInv, TypeOK
      <4>2. FirstReaching(r) = p
        BY <3>4, <4>1 DEF First, FirstReaching
      <4>3. QED
        BY <3>1, <4>1, <4>2
    <3>5. CASE Reaching(r) = {} /\ p = Len(decoded)
      BY <3>1, <3>5
    <3>6. QED
      BY <3>1, <3>2, <3>3, <3>4, <3>5 DEF Shown, Failed, Nothing
  <2>2. QED
    BY <2>1 DEF FirstFrameReached
<1>2. QED
  BY <1>1, Invariant, PTL

-------------------------------------------------------------------------------
(* The seek.                                                                 *)

\* Frames decoded before a keyframe are shown before it, so that decoding can
\* start at any keyframe.  They may be decoded in another order among themselves.
KeysApart(file) ==
  \A k \in DOMAIN file : file[k].video /\ file[k].key =>
    \A j \in 1 .. k - 1 : file[j].video => file[j].pts < file[k].pts

\* Cut to milliseconds, a time that is not negative is not made later.
LEMMA CutEarlier ==
  ASSUME tms \in Seq(Int) \ {<< >>}, \A r \in 1 .. tms_len : tms[r] >= 0
  PROVE  \A r \in 1 .. tms_len : minof <= tms[r]
<1>1. PICK e \in Int : e = Earliest /\ e >= 0 /\ \A r \in 1 .. tms_len : e <= tms[r]
  <2>1. \A r \in 1 .. tms_len : tms[r] \in Int
    BY DEF tms_len
  <2>2. Earliest \in Int /\ Earliest >= 0
    BY <2>1, EarliestIs
  <2>3. QED
    BY <2>2, EarliestIs
<1>2. e % Ms \in Nat
  BY <1>1, MsAssumption
<1>3. minof = e - (e % Ms)
  BY <1>1 DEF minof
<1>4. minof \in Int /\ minof <= e
  BY <1>1, <1>2, <1>3
<1>5. \A r \in 1 .. tms_len : tms[r] \in Int
  BY DEF tms_len
<1>6. QED
  BY <1>1, <1>4, <1>5

\* The seek before the decode loop (lines 507-515) passes over no frame later than a
\* request by as much as the keyframe it lands on is shown after it is decoded, in
\* files whose keyframes decoding can start at and for times in the video.
THEOREM SeekKeepsAlways ==
  ASSUME \A s \in Streams : KeysApart(s),
         \A ts \in Requests : \A r \in 1 .. Len(ts) : ts[r] >= 0
  PROVE  Spec => SeekKeeps
<1>1. ASSUME Inv, [Next]_vars, at = "seek", at' = "read",
             NEW k \in 1 .. pos' - 1, NEW r \in 1 .. tms_len, stream[k].video
      PROVE  stream[k].pts < tms[r] + Reordering(pos')
  <2>1. /\ stream \in Seq(Packet) /\ tms \in Seq(Int) \ {<< >>}
        /\ KeysApart(stream) /\ \A q \in 1 .. tms_len : tms[q] >= 0 /\ tms[q] \in Int
    BY <1>1 DEF Inv, TypeInv, TypeOK, tms_len
  <2>2. pos' = SeekTo(minof)
    BY <1>1 DEF Next, vars, Open, OpenFails, Seek, ReadOther, SendPacket, ReadEnds,
       ReceiveFrame, NoMoreFrames, SkipRequest, ProcessFrame, FilterFails, WriteMatch,
       MatchDone, Fallback, TryWrite, TryDone, Finish, Destroy, Goto, Return
  <2>3. minof \in Int /\ minof <= tms[r]
    BY <2>1, EarliestIs, CutEarlier
  <2>4. PICK p : p = pos'
    OBVIOUS
  <2>5. p \in KeysUntil(minof)
    <3>1. SeekTo(minof) = 1 \/ SeekTo(minof) \in KeysUntil(minof)
      BY <2>1, <2>3, SeekLands
    <3>2. p # 1
      BY <1>1, <2>4
    <3>3. QED
      BY <2>2, <2>4, <3>1, <3>2
  <2>6. /\ p \in DOMAIN stream /\ stream[p].video /\ stream[p].key
        /\ stream[p].dts <= minof
    BY <2>5 DEF KeysUntil
  <2>7. stream[k].pts < stream[p].pts
    BY <1>1, <2>1, <2>4, <2>6 DEF KeysApart
  <2>8. stream[p].pts \in Int /\ stream[p].dts \in Int /\ stream[k].pts \in Int /\ tms[r] \in Int
    <3>1. k \in DOMAIN stream
      BY <2>1, <2>4, <2>6
    <3>2. stream[p] \in Packet /\ stream[k] \in Packet
      BY <2>1, <2>6, <3>1
    <3>3. QED
      BY <2>1, <3>2 DEF Packet
  <2>9. stream[k].pts < tms[r] + Reordering(p)
    BY <2>3, <2>6, <2>7, <2>8 DEF Reordering
  <2>10. QED
    BY <2>4, <2>9
<1>2. Inv /\ [Next]_vars =>
        (at = "seek" /\ at' = "read" =>
           \A k \in 1 .. pos' - 1, r \in 1 .. tms_len :
             stream[k].video => stream[k].pts < tms[r] + Reordering(pos'))
  BY <1>1
<1>3. Inv /\ [Next]_vars =>
        [at = "seek" /\ at' = "read" =>
           \A k \in 1 .. pos' - 1, r \in 1 .. tms_len :
             stream[k].video => stream[k].pts < tms[r] + Reordering(pos')]_vars
  BY <1>2
<1>4. QED
  BY <1>3, Invariant, PTL DEF Spec, SeekKeeps
=============================================================================
