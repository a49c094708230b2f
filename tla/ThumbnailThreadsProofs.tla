------------------------ MODULE ThumbnailThreadsProofs ------------------------
(***************************************************************************)
(* Theorems about ThumbnailThreads and ThumbnailWriter for any number of   *)
(* requests, whatever the file, the pictures and the order of the threads. *)
(***************************************************************************)
EXTENDS ThumbnailThreads, FiniteSetTheorems, SequenceTheorems, TLAPS

-------------------------------------------------------------------------------
(* Least and greatest elements, and whole milliseconds.                      *)

\* A nonempty set of natural numbers has a least element.
LEMMA LeastNat ==
  ASSUME NEW T \in SUBSET Nat, T # {}
  PROVE  \E n \in T : \A m \in T : n <= m
<1> DEFINE U == { 1 .. n : n \in T }
<1>1. U \subseteq FiniteSubsetsOf(Nat)
  <2>1. \A n \in T : IsFiniteSet(1 .. n) /\ 1 .. n \subseteq Nat
    BY FS_Interval
  <2>2. QED
    BY <2>1 DEF FiniteSubsetsOf
<1>2. U # {}
  OBVIOUS
<1>3. IsWellFoundedOn(StrictSubsetOrdering(Nat), FiniteSubsetsOf(Nat))
  BY FS_StrictSubsetOrderingWellFounded
<1>4. \E x \in U : \A y \in U : ~ (<< y, x >> \in StrictSubsetOrdering(Nat))
  <2> HIDE DEF U
  <2>1. QED
    BY <1>1, <1>2, <1>3, WFMin
<1>5. PICK n \in T : \A m \in T : ~ (<< 1 .. m, 1 .. n >> \in StrictSubsetOrdering(Nat))
  BY <1>4
<1>6. ASSUME NEW m \in T, m < n PROVE FALSE
  <2>1. 1 .. m \in SUBSET Nat /\ 1 .. n \in SUBSET Nat
    OBVIOUS
  <2>2. 1 .. m \subseteq 1 .. n /\ n \in 1 .. n /\ n \notin 1 .. m
    BY <1>6
  <2>3. << 1 .. m, 1 .. n >> \in StrictSubsetOrdering(Nat)
    BY <2>1, <2>2 DEF StrictSubsetOrdering
  <2>4. QED
    BY <1>5, <2>3
<1>7. QED
  BY <1>6

\* A nonempty set of natural numbers with a bound has a greatest element.
LEMMA GreatestNat ==
  ASSUME NEW T \in SUBSET Nat, T # {}, NEW n \in Nat, \A m \in T : m <= n
  PROVE  \E g \in T : \A m \in T : m <= g
<1> DEFINE U == { n - m : m \in T }
<1>1. U \in SUBSET Nat /\ U # {}
  <2>1. \A m \in T : n - m \in Nat
    OBVIOUS
  <2>2. QED
    BY <2>1
<1>2. PICK u \in U : \A v \in U : u <= v
  <2> HIDE DEF U
  <2>1. QED
    BY <1>1, LeastNat
<1>3. PICK g \in T : u = n - g
  BY <1>2
<1>4. ASSUME NEW m \in T PROVE m <= g
  <2>1. u <= n - m
    BY <1>2, <1>4
  <2>2. QED
    BY <1>3, <1>4, <2>1
<1>5. QED
  BY <1>4

\* What Max and Min are of a nonempty set of numbers up to n.
LEMMA MaxMin ==
  ASSUME NEW n \in Nat, NEW T \in SUBSET (0 .. n), T # {}
  PROVE  /\ Max(T) \in T /\ \A m \in T : m <= Max(T)
         /\ Min(T) \in T /\ \A m \in T : Min(T) <= m
<1>1. T \in SUBSET Nat /\ \A m \in T : m <= n
  OBVIOUS
<1>2. \E g \in T : \A m \in T : m <= g
  BY <1>1, GreatestNat
<1>3. \E g \in T : \A m \in T : g <= m
  BY <1>1, LeastNat
<1>4. \E g \in T : \A m \in T : g >= m
  BY <1>1, <1>2
<1>5. Max(T) \in T /\ \A m \in T : Max(T) >= m
  BY <1>4 DEF Max
<1>6. Min(T) \in T /\ \A m \in T : Min(T) <= m
  BY <1>3 DEF Min
<1>7. QED
  BY <1>1, <1>5, <1>6

\* Times cut to whole milliseconds keep their order.
LEMMA WholeMs ==
  ASSUME NEW a \in Nat, NEW b \in Nat, a <= b
  PROVE  /\ a - (a % Ms) \in Nat
         /\ a - (a % Ms) <= b - (b % Ms)
<1>1. Ms \in Nat /\ Ms > 0
  BY MsAssumption
<1> DEFINE x == a \div Ms
           y == b \div Ms
<1>2. /\ x \in Int /\ a = Ms * x + (a % Ms) /\ a % Ms \in 0 .. Ms - 1
      /\ y \in Int /\ b = Ms * y + (b % Ms) /\ b % Ms \in 0 .. Ms - 1
  BY <1>1
<1> HIDE DEF x, y
<1>3. x >= 0
  <2>1. SUFFICES ASSUME x <= -1 PROVE FALSE
    BY <1>2
  <2>2. Ms * x <= -Ms
    <3>1. Ms * (x + 1) <= 0
      BY <1>1, <1>2, <2>1
    <3>2. Ms * (x + 1) = Ms * x + Ms
      BY <1>1, <1>2
    <3>3. QED
      BY <1>1, <1>2, <3>1, <3>2
  <2>3. QED
    BY <1>1, <1>2, <2>2
<1>4. x <= y
  <2>1. SUFFICES ASSUME y + 1 <= x PROVE FALSE
    BY <1>2
  <2>2. Ms * x >= Ms * y + Ms
    <3>1. PICK d \in Nat : x = y + 1 + d
      BY <1>2, <2>1
    <3>2. Ms * x = Ms * y + Ms + Ms * d
      BY <1>1, <1>2, <3>1
    <3>3. Ms * d >= 0
      BY <1>1, <3>1
    <3>4. QED
      BY <1>1, <1>2, <3>2, <3>3
  <2>3. QED
    BY <1>1, <1>2, <2>2
<1>5. Ms * x >= 0 /\ Ms * x <= Ms * y
  <2>1. PICK d \in Nat : y = x + d
    BY <1>2, <1>4
  <2>2. Ms * y = Ms * x + Ms * d /\ Ms * d >= 0 /\ Ms * x >= 0
    BY <1>1, <1>2, <1>3, <2>1
  <2>3. QED
    BY <1>1, <1>2, <2>2
<1>6. QED
  BY <1>1, <1>2, <1>5

\* So do times before the start of the file.
LEMMA MinofMonotone ==
  ASSUME NEW a \in Int, NEW b \in Int, a <= b
  PROVE  minof(a) \in Int /\ minof(b) \in Int /\ minof(a) <= minof(b)
<1>1. CASE a >= 0
  BY <1>1, WholeMs, MsAssumption DEF minof
<1>2. CASE b < 0
  <2>1. -b \in Nat /\ -a \in Nat /\ -b <= -a
    BY <1>2
  <2>2. (-b) - ((-b) % Ms) <= (-a) - ((-a) % Ms) /\ (-b) - ((-b) % Ms) \in Nat
    BY <2>1, WholeMs
  <2>3. (-a) - ((-a) % Ms) \in Nat
    BY <2>1, WholeMs
  <2>4. minof(a) = -((-a) - ((-a) % Ms)) /\ minof(b) = -((-b) - ((-b) % Ms))
    BY <1>2 DEF minof
  <2>5. QED
    BY <2>2, <2>3, <2>4
<1>3. CASE a < 0 /\ b >= 0
  <2>1. -a \in Nat /\ b \in Nat
    BY <1>3
  <2>2. (-a) - ((-a) % Ms) \in Nat /\ b - (b % Ms) \in Nat
    BY <2>1, WholeMs
  <2>3. minof(a) = -((-a) - ((-a) % Ms)) /\ minof(b) = b - (b % Ms)
    BY <1>3 DEF minof
  <2>4. QED
    BY <2>2, <2>3
<1>4. QED
  BY <1>1, <1>2, <1>3

\* The time a run seeks to is an integer.
LEMMA MinofType ==
  ASSUME NEW t \in Int
  PROVE  minof(t) \in Int
<1>1. t <= t
  OBVIOUS
<1>2. QED
  BY <1>1, MinofMonotone

-------------------------------------------------------------------------------
(* Types.                                                                    *)

\* A thread decodes from the packet its own time was sought to.
TypeInv ==
  /\ TypeOK
  /\ DOMAIN stmt = Indices
  /\ \A r \in Indices : thread[r] = "decode" => from[r] = SeekTo(minof(tms[r]))

\* The times asked for are a sequence of integers, as those of the packets are.
LEMMA RequestTypes ==
  ASSUME TypeOK
  PROVE  /\ Len(tms) \in Nat \ {0} /\ Len(stream) \in Nat
         /\ stream \in Seq(Packet) /\ tms \in Seq(Int)
         /\ \A r \in Indices : tms[r] \in Int
         /\ \A p \in 1 .. Len(stream) : stream[p] \in Packet
<1>1. tms \in Seq(Int) /\ tms # << >> /\ stream \in Seq(Packet)
  BY StreamsAssumption, RequestsAssumption DEF TypeOK
<1>2. Len(tms) \in Nat /\ Len(stream) \in Nat
  BY <1>1, LenProperties
<1>3. Len(tms) # 0
  BY <1>1, EmptySeq
<1>4. \A r \in Indices : tms[r] \in Int
  BY <1>1, ElementOfSeq DEF Indices
<1>5. \A p \in 1 .. Len(stream) : stream[p] \in Packet
  BY <1>1, ElementOfSeq
<1>6. QED
  BY <1>1, <1>2, <1>3, <1>4, <1>5

\* The packet a seek lands on is a packet of the file, or its first place.
LEMMA SeekType ==
  ASSUME TypeOK, NEW t \in Int
  PROVE  /\ SeekTo(t) \in 1 .. Len(stream) + 1
         /\ KeysUntil(t) # {} =>
              /\ SeekTo(t) \in KeysUntil(t)
              /\ \A k \in KeysUntil(t) : k <= SeekTo(t)
<1>1. Len(stream) \in Nat
  BY RequestTypes
<1>2. KeysUntil(t) \in SUBSET (0 .. Len(stream)) /\ KeysUntil(t) \in SUBSET (1 .. Len(stream))
  BY <1>1, RequestTypes, LenProperties DEF KeysUntil
<1>3. CASE KeysUntil(t) = {}
  BY <1>1, <1>3 DEF SeekTo
<1>4. CASE KeysUntil(t) # {}
  <2>1. Max(KeysUntil(t)) \in KeysUntil(t) /\ \A k \in KeysUntil(t) : k <= Max(KeysUntil(t))
    BY <1>1, <1>2, <1>4, MaxMin
  <2>2. QED
    BY <1>1, <1>2, <1>4, <2>1 DEF SeekTo
<1>5. QED
  BY <1>3, <1>4

\* The packets that give a run a frame, and the frames they give it.
LEMMA DeliveringType ==
  ASSUME TypeOK, NEW start \in Nat \ {0}, NEW last \in 0 .. Len(stream)
  PROVE  /\ Delivering(start, last) \in SUBSET (0 .. Len(stream))
         /\ \A p \in Delivering(start, last) :
              /\ p \in start .. last
              /\ Delivers(start, p) # {}
              /\ \A f \in Delivers(start, p) : f \in start .. p
<1>1. Len(stream) \in Nat
  BY RequestTypes
<1>2. \A p \in Delivering(start, last) : p \in start .. last /\ Delivers(start, p) # {}
  BY DEF Delivering
<1>3. \A p : \A f \in Delivers(start, p) : f \in start .. p
  BY DEF Delivers, Yielding
<1>4. start .. last \subseteq 0 .. Len(stream)
  BY <1>1
<1>5. Delivering(start, last) \in SUBSET (0 .. Len(stream))
  BY <1>2, <1>4
<1>6. QED
  BY <1>2, <1>3, <1>5

\* What a run shows, it was given at a packet it read: the first one that is due,
\* or else the last one that gave it a frame.
LEMMA ShownAt ==
  ASSUME TypeOK, NEW start \in Nat \ {0}, NEW last \in 0 .. Len(stream), NEW t \in Int,
         NEW f \in Shown(start, last, t)
  PROVE  \E p \in Delivering(start, last) :
           /\ f \in Delivers(start, p)
           /\ \/ Due(start, last, t) = {} /\ \A o \in Delivering(start, last) : o <= p
              \/ p \in Due(start, last, t) /\ \A o \in Due(start, last, t) : p <= o
<1>1. Len(stream) \in Nat
  BY RequestTypes
<1>2. Delivering(start, last) \in SUBSET (0 .. Len(stream))
  BY DeliveringType
<1>3. Due(start, last, t) \in SUBSET (0 .. Len(stream))
  BY <1>2 DEF Due
<1>4. CASE Due(start, last, t) # {}
  <2> DEFINE p == Min(Due(start, last, t))
  <2>1. p \in Due(start, last, t) /\ \A o \in Due(start, last, t) : p <= o
    BY <1>1, <1>3, <1>4, MaxMin
  <2>2. f \in Delivers(start, p)
    BY <1>4 DEF Shown
  <2>3. p \in Delivering(start, last)
    BY <2>1 DEF Due
  <2> HIDE DEF p
  <2>4. QED
    BY <2>1, <2>2, <2>3
<1>5. CASE Due(start, last, t) = {}
  <2> DEFINE p == Max(Delivering(start, last))
  <2>1. Delivering(start, last) # {} /\ f \in Delivers(start, p)
    BY <1>5 DEF Shown
  <2>2. p \in Delivering(start, last) /\ \A o \in Delivering(start, last) : o <= p
    BY <1>1, <1>2, <2>1, MaxMin
  <2> HIDE DEF p
  <2>3. QED
    BY <1>5, <2>1, <2>2
<1>6. QED
  BY <1>4, <1>5

\* A run shows a frame of the file.
LEMMA ShownType ==
  ASSUME TypeOK, NEW start \in Nat \ {0}, NEW last \in 0 .. Len(stream), NEW t \in Int
  PROVE  Shown(start, last, t) \subseteq 1 .. Len(stream)
<1>1. SUFFICES ASSUME NEW f \in Shown(start, last, t) PROVE f \in 1 .. Len(stream)
  OBVIOUS
<1>2. PICK p \in Delivering(start, last) : f \in Delivers(start, p)
  BY ShownAt
<1>3. p \in start .. last /\ f \in start .. p /\ Len(stream) \in Nat
  BY <1>2, DeliveringType, RequestTypes
<1>4. QED
  BY <1>3

\* The times asked for are never changed, nor is the file.
LEMMA ArgsKept == [Next]_vars => UNCHANGED args /\ Indices' = Indices
<1>1. [Next]_vars => UNCHANGED args
  BY DEF Next, Caller, Create, CreateThrows, AllCreated, Join, AllJoined, Delete,
         CallerReturns, Run, Open, Decode, WritePicture, RunFails, vars, args
<1>2. QED
  BY <1>1 DEF args, Indices

\* A statement of write keeps the types of its variables.
LEMMA WriteTypes ==
  ASSUME WTypeOK, NEW r \in Calls, Write(r)
  PROVE  WTypeOK' /\ DOMAIN stmt' = DOMAIN stmt
<1>1. frame' = frame /\ frame \in [Calls -> Pictures \cup {NoPicture}]
  BY DEF Write, AllocContext, OpenFile, OpenFileFails, NewStream, OpenEncoder, WriteHeader,
         NewPacket, Encode, EncodeFails, WriteFrame, WriteTrailer, Close, Goto, Return, WTypeOK
<1>2. frame[r].pixels \in Nat /\ frame[r].jpeg \in Nat
  BY <1>1, PicturesAssumption DEF NoPicture
<1>3. /\ DOMAIN stmt' = DOMAIN stmt
      /\ stmt' \in [Calls -> Statements]
      /\ result' \in [Calls -> Int]
  BY DEF Write, AllocContext, OpenFile, OpenFileFails, NewStream, OpenEncoder, WriteHeader,
         NewPacket, Encode, EncodeFails, WriteFrame, WriteTrailer, Close, Goto, Return,
         WTypeOK, Calls, Statements
<1>4. held' \subseteq UNION { Resources(q) : q \in Calls }
  <2>1. \A q : << r, q >> \in {<< r, "context" >>, << r, "handle" >>, << r, "packet" >>}
                 => << r, q >> \in UNION { Resources(p) : p \in Calls }
    BY DEF Resources
  <2>2. held \subseteq UNION { Resources(q) : q \in Calls }
    BY DEF WTypeOK
  <2>3. \/ held' \subseteq held
        \/ held' \subseteq held \cup
             {<< r, "context" >>, << r, "handle" >>, << r, "packet" >>}
    BY DEF Write, AllocContext, OpenFile, OpenFileFails, NewStream, OpenEncoder, WriteHeader,
           NewPacket, Encode, EncodeFails, WriteFrame, WriteTrailer, Close, Acquire
  <2>4. QED
    BY <2>1, <2>2, <2>3
<1>5. /\ packet' \in [Calls -> Nat]
      /\ ioerror' \subseteq Calls
  BY <1>2 DEF Write, AllocContext, OpenFile, OpenFileFails, NewStream, OpenEncoder, WriteHeader,
         NewPacket, Encode, EncodeFails, WriteFrame, WriteTrailer, Close, WTypeOK
<1>6. pending' \in [Calls -> Nat]
  BY DEF Write, AllocContext, OpenFile, OpenFileFails, NewStream, OpenEncoder, WriteHeader,
         NewPacket, Encode, EncodeFails, WriteFrame, WriteTrailer, Close, WTypeOK
<1>7. file' \in [Calls -> Nat \cup {-1}]
  <2>1. CASE WriteTrailer(r)
    <3>1. file[r] \in Nat \cup {-1} /\ pending[r] \in Nat
      BY DEF WTypeOK
    <3>2. file[r] + pending[r] \in Nat \cup {-1}
      BY <3>1
    <3>3. QED
      BY <2>1, <3>2 DEF WriteTrailer, WTypeOK
  <2>2. QED
    BY <2>1 DEF Write, AllocContext, OpenFile, OpenFileFails, NewStream, OpenEncoder,
           WriteHeader, NewPacket, Encode, EncodeFails, WriteFrame, Close, WTypeOK
<1>8. Calls' = Calls
  BY <1>3 DEF Calls
<1>9. QED
  BY <1>1, <1>3, <1>4, <1>5, <1>6, <1>7, <1>8 DEF WTypeOK

\* The types at the start.
LEMMA InitTypes == Init => TypeInv
<1> SUFFICES ASSUME Init PROVE TypeInv
  OBVIOUS
<1>1. Len(tms) \in Nat \ {0} /\ Len(stream) \in Nat
  <2>1. tms \in Seq(Int) /\ tms # << >> /\ stream \in Seq(Packet)
    BY StreamsAssumption, RequestsAssumption DEF Init
  <2>2. QED
    BY <2>1, LenProperties, EmptySeq
<1>2. WTypeOK /\ DOMAIN stmt = Indices
  BY DEF Init, WInit, WTypeOK, Calls, Statements, NotReturned, NoPicture
<1>3. QED
  BY <1>1, <1>2 DEF Init, TypeInv, TypeOK, Indices, Nothing

\* Every step of the caller and of a thread keeps the types.
LEMMA TypeStep == TypeInv /\ [Next]_vars => TypeInv'
<1> SUFFICES ASSUME TypeInv, [Next]_vars PROVE TypeInv'
  OBVIOUS
<1>1. UNCHANGED args /\ Indices' = Indices /\ stream' = stream /\ tms' = tms
  BY ArgsKept DEF args
<1>2. Len(tms) \in Nat \ {0} /\ Len(stream) \in Nat /\ \A r \in Indices : tms[r] \in Int
  BY RequestTypes DEF TypeInv
<1>3. \A t : SeekTo(minof(t))' = SeekTo(minof(t))
  BY <1>1 DEF SeekTo, KeysUntil, minof
<1>4. CASE Caller
  <2>1. UNCHANGED << wvars, from, picture, cut_short >>
    BY <1>4 DEF Caller, Create, CreateThrows, AllCreated, Join, AllJoined, Delete, CallerReturns
  <2>2. WTypeOK' /\ DOMAIN stmt' = Indices'
    BY <1>1, <2>1 DEF wvars, WTypeOK, Calls, TypeInv, TypeOK
  <2>3. idx' \in 1 .. Len(tms) + 1 /\ at' \in {"create", "join", "delete", "returned", "thrown"}
    BY <1>2, <1>4 DEF Caller, Create, CreateThrows, AllCreated, Join, AllJoined, Delete,
           CallerReturns, TypeInv, TypeOK
  <2>4. /\ object' \in [Indices -> {"none", "live", "deleted"}]
        /\ thread' \in [Indices -> {"none", "open", "decode", "write", "ended", "joined"}]
    BY <1>4 DEF Caller, Create, CreateThrows, AllCreated, Join, AllJoined, Delete,
           CallerReturns, TypeInv, TypeOK
  <2>5. \A r \in Indices : thread'[r] = "decode" => thread[r] = "decode"
    BY <1>4 DEF Caller, Create, CreateThrows, AllCreated, Join, AllJoined, Delete,
           CallerReturns, TypeInv, TypeOK
  <2>6. QED
    BY <1>1, <1>2, <1>3, <2>1, <2>2, <2>3, <2>4, <2>5 DEF TypeInv, TypeOK
<1>5. ASSUME NEW r \in Indices, Run(r) PROVE TypeInv'
  <2>1. UNCHANGED << at, idx, object >>
    BY <1>5 DEF Run, Open, Decode, WritePicture, RunFails
  <2>2. CASE Open(r)
    <3>1. SeekTo(minof(tms[r])) \in 1 .. Len(stream) + 1
      BY <1>2, SeekType, MinofType DEF TypeInv
    <3>2. WTypeOK' /\ DOMAIN stmt' = Indices'
      BY <1>1, <2>2 DEF Open, wvars, WTypeOK, Calls, TypeInv, TypeOK
    <3>3. QED
      BY <1>1, <1>2, <1>3, <2>1, <2>2, <3>1, <3>2 DEF Open, TypeInv, TypeOK
  <2>3. CASE RunFails(r)
    <3>1. WTypeOK' /\ DOMAIN stmt' = Indices'
      BY <1>1, <2>3 DEF RunFails, wvars, WTypeOK, Calls, TypeInv, TypeOK
    <3>2. QED
      BY <1>1, <1>2, <1>3, <2>1, <2>3, <3>1 DEF RunFails, TypeInv, TypeOK
  <2>4. CASE Decode(r)
    <3>1. from[r] = SeekTo(minof(tms[r])) /\ from[r] \in 1 .. Len(stream) + 1
      <4>1. from[r] = SeekTo(minof(tms[r]))
        BY <2>4 DEF Decode, TypeInv
      <4>2. SeekTo(minof(tms[r])) \in 1 .. Len(stream) + 1
        BY <1>2, SeekType, MinofType DEF TypeInv
      <4>3. QED
        BY <1>2, <4>1, <4>2
    <3>2. /\ \/ Called(r, NoPicture) /\ picture' = [picture EXCEPT ![r] = Nothing]
             \/ \E p \in 1 .. Len(stream), f \in Pictures :
                  Called(r, f) /\ picture' = [picture EXCEPT ![r] = p]
          /\ cut_short' \subseteq cut_short \cup {r}
      <4>1. PICK last \in from[r] - 1 .. Len(stream) :
              LET shown == Shown(from[r], last, tms[r])
              IN  /\ \/ /\ shown = {} /\ Called(r, NoPicture)
                        /\ picture' = [picture EXCEPT ![r] = Nothing]
                     \/ \E p \in shown, f \in Pictures :
                          /\ Called(r, f)
                          /\ picture' = [picture EXCEPT ![r] = p]
                  /\ cut_short' = IF last < Len(stream) /\ Due(from[r], last, tms[r]) = {}
                                  THEN cut_short \cup {r} ELSE cut_short
        BY <2>4 DEF Decode
      <4>2. last \in 0 .. Len(stream) /\ from[r] \in Nat \ {0}
        BY <1>2, <3>1, <4>1
      <4>3. Shown(from[r], last, tms[r]) \subseteq 1 .. Len(stream)
        BY <1>2, <4>2, ShownType DEF TypeInv
      <4>4. QED
        BY <4>1, <4>3
    <3>3. DOMAIN stream = 1 .. Len(stream)
      BY RequestTypes, LenProperties DEF TypeInv
    <3>4. picture' \in [Indices -> {Nothing, Failed} \cup DOMAIN stream]
      BY <3>2, <3>3 DEF TypeInv, TypeOK
    <3>5. WTypeOK' /\ DOMAIN stmt' = Indices'
      <4>1. PICK f \in Pictures \cup {NoPicture} : Called(r, f)
        BY <3>2
      <4>2. QED
        BY <1>1, <4>1 DEF Called, WTypeOK, Calls, Statements, TypeInv, TypeOK
    <3>6. thread' \in [Indices -> {"none", "open", "decode", "write", "ended", "joined"}]
      BY <2>4 DEF Decode, TypeInv, TypeOK
    <3>7. from' = from /\ \A q \in Indices : thread'[q] = "decode" => thread[q] = "decode"
      BY <2>4 DEF Decode, TypeInv, TypeOK
    <3>8. QED
      BY <1>1, <1>2, <1>3, <2>1, <3>2, <3>4, <3>5, <3>6, <3>7 DEF TypeInv, TypeOK
  <2>5. CASE WritePicture(r)
    <3>1. WTypeOK' /\ DOMAIN stmt' = Indices'
      BY <1>1, <2>5, WriteTypes DEF WritePicture, TypeInv, TypeOK, Calls
    <3>2. QED
      BY <1>1, <1>2, <1>3, <2>1, <2>5, <3>1 DEF WritePicture, TypeInv, TypeOK
  <2>6. QED
    BY <1>5, <2>2, <2>3, <2>4, <2>5 DEF Run
<1>6. CASE UNCHANGED vars
  <2>1. WTypeOK' /\ DOMAIN stmt' = Indices'
    BY <1>1, <1>6 DEF vars, wvars, WTypeOK, Calls, TypeInv, TypeOK
  <2>2. QED
    BY <1>1, <1>2, <1>3, <1>6, <2>1 DEF vars, TypeInv, TypeOK
<1>7. QED
  BY <1>4, <1>5, <1>6 DEF Next

\* Every variable keeps its type, for any file and any number of requests.
THEOREM TypeCorrect == Spec => []TypeOK
<1>1. TypeInv => TypeOK
  BY DEF TypeInv
<1>2. QED
  BY <1>1, InitTypes, TypeStep, PTL DEF Spec

-------------------------------------------------------------------------------
(* The caller deletes an object only after the thread that runs in it.       *)

Running(r) == thread[r] \in {"open", "decode", "write"}

\* The threads not yet created, those joined so far, and all of them once the
\* caller deletes.
JoinInv ==
  /\ RunsInLiveObject
  /\ at = "create" => \A r \in Indices : r >= idx => thread[r] = "none"
  /\ at = "join" => \A r \in Indices : r < idx => thread[r] = "joined"
  /\ at \in {"delete", "returned"} => \A r \in Indices : thread[r] = "joined"

\* Every step keeps a thread's object until the thread was joined.
LEMMA JoinStep == TypeInv /\ JoinInv /\ [Next]_vars => JoinInv'
<1> SUFFICES ASSUME TypeInv, JoinInv, [Next]_vars PROVE JoinInv'
  OBVIOUS
<1>1. tms' = tms /\ Indices' = Indices /\ Len(tms) \in Nat /\ Indices = 1 .. Len(tms)
  BY ArgsKept, RequestTypes DEF args, TypeInv, Indices
<1>2. /\ thread \in [Indices -> {"none", "open", "decode", "write", "ended", "joined"}]
      /\ object \in [Indices -> {"none", "live", "deleted"}]
      /\ idx \in 1 .. Len(tms) + 1
  BY DEF TypeInv, TypeOK
<1>3. CASE Create \/ CreateThrows
  BY <1>1, <1>2, <1>3 DEF Create, CreateThrows, JoinInv, RunsInLiveObject
<1>4. CASE AllCreated \/ Join \/ AllJoined
  BY <1>1, <1>2, <1>4 DEF AllCreated, Join, AllJoined, JoinInv, RunsInLiveObject
<1>5. CASE Delete \/ CallerReturns
  BY <1>1, <1>2, <1>5 DEF Delete, CallerReturns, JoinInv, RunsInLiveObject
<1>6. ASSUME NEW r \in Indices, Run(r) PROVE JoinInv'
  <2>1. UNCHANGED << at, idx, object >> /\ Running(r)
    BY <1>6 DEF Run, Open, Decode, WritePicture, RunFails, Running
  <2>2. \A q \in Indices : q # r => thread'[q] = thread[q]
    BY <1>2, <1>6 DEF Run, Open, Decode, WritePicture, RunFails
  <2>3. QED
    BY <1>1, <1>2, <2>1, <2>2 DEF JoinInv, RunsInLiveObject, Running
<1>7. CASE UNCHANGED vars
  BY <1>1, <1>7 DEF vars, JoinInv, RunsInLiveObject
<1>8. QED
  BY <1>3, <1>4, <1>5, <1>6, <1>7 DEF Next, Caller

\* No run is in an object that was deleted, for any number of threads and any
\* order in which they end, also when creating one of them failed.
THEOREM RunsInLiveObjectAlways == Spec => []RunsInLiveObject
<1>1. Init => JoinInv
  BY DEF Init, JoinInv, RunsInLiveObject
<1>2. JoinInv => RunsInLiveObject
  BY DEF JoinInv
<1>3. QED
  BY <1>1, <1>2, InitTypes, TypeStep, JoinStep, PTL DEF Spec

-------------------------------------------------------------------------------
(* What write has in hand at each of its statements.                         *)

Jpeg(r, bytes) == bytes = frame[r].jpeg /\ bytes <= 3 * frame[r].pixels

\* The resources a call holds at a statement, but not after it has returned.
Holds(r) ==
  IF stmt[r] \in {"idle", "alloc"} THEN {}
  ELSE IF stmt[r] = "open" THEN {<< r, "context" >>}
  ELSE IF stmt[r] \in {"stream", "codec", "header", "packet"}
       THEN {<< r, "handle" >>, << r, "context" >>}
  ELSE IF stmt[r] # "end" THEN Resources(r)
  ELSE IF result[r] = 0 THEN {}
  ELSE IF result[r] = -10100 THEN {<< r, "context" >>}
  ELSE {<< r, "handle" >>, << r, "context" >>}

\* The jpeg is in the packet, then in the handle's buffer, then in the file.
WriterInv(r) ==
  /\ thread[r] \in {"none", "open", "decode"} => stmt[r] = "idle"
  /\ thread[r] = "write" => stmt[r] \notin {"idle", "end"}
  /\ held \cap Resources(r) = Holds(r)
  /\ stmt[r] # "end" => result[r] = NotReturned
  /\ stmt[r] \notin {"trailer", "close", "end"} => pending[r] = 0
  /\ stmt[r] \in {"stream", "codec", "header", "packet", "encode", "frame", "trailer"}
       => file[r] = 0
  /\ stmt[r] = "frame" => Jpeg(r, packet[r])
  /\ r \notin ioerror =>
       /\ stmt[r] = "trailer" => Jpeg(r, pending[r])
       /\ stmt[r] = "close" \/ result[r] = 0 => Jpeg(r, file[r])

\* A statement of one call leaves the others as they are.
LEMMA WriteAlone ==
  ASSUME WTypeOK, NEW r \in Calls, Write(r), NEW q \in Calls, q # r
  PROVE  /\ stmt'[q] = stmt[q] /\ result'[q] = result[q] /\ frame'[q] = frame[q]
         /\ packet'[q] = packet[q] /\ pending'[q] = pending[q] /\ file'[q] = file[q]
         /\ (q \in ioerror') = (q \in ioerror)
         /\ held' \cap Resources(q) = held \cap Resources(q)
<1>1. /\ stmt'[q] = stmt[q] /\ result'[q] = result[q] /\ frame'[q] = frame[q]
      /\ packet'[q] = packet[q] /\ pending'[q] = pending[q] /\ file'[q] = file[q]
  BY DEF Write, AllocContext, OpenFile, OpenFileFails, NewStream, OpenEncoder, WriteHeader,
         NewPacket, Encode, EncodeFails, WriteFrame, WriteTrailer, Close, Goto, Return, WTypeOK
<1>2. (q \in ioerror') = (q \in ioerror)
  BY DEF Write, AllocContext, OpenFile, OpenFileFails, NewStream, OpenEncoder, WriteHeader,
         NewPacket, Encode, EncodeFails, WriteFrame, WriteTrailer, Close
<1>3. \A x \in Resources(q) : x \notin Resources(r)
  BY DEF Resources
<1>4. /\ held' \subseteq held \cup Resources(r)
      /\ held \subseteq held' \cup Resources(r)
  BY DEF Write, AllocContext, OpenFile, OpenFileFails, NewStream, OpenEncoder, WriteHeader,
         NewPacket, Encode, EncodeFails, WriteFrame, WriteTrailer, Close, Acquire, Resources
<1>5. QED
  BY <1>1, <1>2, <1>3, <1>4

\* A statement of write leaves in hand what the next one takes, and holds what
\* its place in the function says.
LEMMA WriteStep ==
  ASSUME WTypeOK, NEW r \in Calls, Write(r), thread[r] = "write", WriterInv(r),
         thread'[r] = IF stmt'[r] = "end" THEN "ended" ELSE "write"
  PROVE  WriterInv(r)'
<1> USE DEF WriterInv, Holds, Jpeg, Fits, At, Goto, Return, Acquire, Resources, NotReturned
<1>1. /\ DOMAIN stmt = Calls /\ DOMAIN result = Calls /\ DOMAIN packet = Calls
      /\ DOMAIN pending = Calls /\ DOMAIN file = Calls
      /\ frame' = frame /\ result[r] = NotReturned
      /\ packet[r] \in Nat /\ pending[r] \in Nat
  BY DEF Write, AllocContext, OpenFile, OpenFileFails, NewStream, OpenEncoder, WriteHeader,
         NewPacket, Encode, EncodeFails, WriteFrame, WriteTrailer, Close, WTypeOK, Calls
<1>2. CASE AllocContext(r) \/ OpenFile(r) \/ OpenFileFails(r)
  BY <1>1, <1>2 DEF AllocContext, OpenFile, OpenFileFails
<1>3. CASE NewStream(r) \/ OpenEncoder(r) \/ WriteHeader(r)
  BY <1>1, <1>3 DEF NewStream, OpenEncoder, WriteHeader
<1>4. CASE NewPacket(r) \/ Encode(r) \/ EncodeFails(r)
  BY <1>1, <1>4 DEF NewPacket, Encode, EncodeFails
<1>5. CASE WriteFrame(r)
  BY <1>1, <1>5 DEF WriteFrame
<1>6. CASE WriteTrailer(r)
  BY <1>1, <1>6 DEF WriteTrailer
<1>7. CASE Close(r)
  BY <1>1, <1>7 DEF Close
<1>8. QED
  BY <1>2, <1>3, <1>4, <1>5, <1>6, <1>7 DEF Write

AllWriters == \A r \in Indices : WriterInv(r)

\* No call of write has begun at the start.
LEMMA InitWriters == Init => AllWriters
  BY DEF Init, WInit, AllWriters, WriterInv, Holds, NotReturned, NoPicture

\* Every step of the caller and of a thread keeps what all the calls of write have.
LEMMA WritersStep == TypeInv /\ JoinInv /\ AllWriters /\ [Next]_vars => AllWriters'
<1> SUFFICES ASSUME TypeInv, JoinInv, AllWriters, [Next]_vars,
                    NEW q \in Indices
             PROVE  WriterInv(q)'
  BY ArgsKept DEF AllWriters
<1> USE DEF WriterInv, Holds, Jpeg, NotReturned
<1>1. /\ thread \in [Indices -> {"none", "open", "decode", "write", "ended", "joined"}]
      /\ WTypeOK /\ Calls = Indices /\ WriterInv(q)
  BY DEF TypeInv, TypeOK, Calls, AllWriters
<1>2. CASE Caller
  <2>1. UNCHANGED wvars
    BY <1>2 DEF Caller, Create, CreateThrows, AllCreated, Join, AllJoined, Delete, CallerReturns
  <2>2. \/ thread'[q] = thread[q]
        \/ thread'[q] = "open" /\ thread[q] = "none"
        \/ thread'[q] = "joined"
    <3>1. CASE Create
      <4>1. idx \in Nat /\ q \in Nat /\ idx \in Indices
        BY <3>1, RequestTypes DEF Create, TypeInv, TypeOK, Indices
      <4>2. QED
        BY <1>1, <3>1, <4>1 DEF Create, JoinInv
    <3>2. QED
      BY <1>1, <1>2, <3>1 DEF Caller, CreateThrows, AllCreated, Join, AllJoined, Delete,
             CallerReturns
  <2>3. QED
    BY <1>1, <2>1, <2>2 DEF wvars
<1>3. ASSUME NEW r \in Indices, Run(r) PROVE WriterInv(q)'
  <2>1. CASE Open(r) \/ RunFails(r)
    BY <1>1, <2>1 DEF Open, RunFails, wvars
  <2>2. CASE Decode(r)
    <3>1. PICK f : Called(r, f)
      BY <2>2 DEF Decode
    <3>2. QED
      BY <1>1, <2>2, <3>1 DEF Decode, Called, WTypeOK
  <2>3. CASE WritePicture(r)
    <3>1. CASE q = r
      BY <1>1, <2>3, <3>1, WriteStep DEF WritePicture
    <3>2. CASE q # r
      <4>1. thread'[q] = thread[q]
        BY <1>1, <2>3, <3>2 DEF WritePicture
      <4>2. QED
        BY <1>1, <2>3, <3>2, <4>1, WriteAlone DEF WritePicture
    <3>3. QED
      BY <3>1, <3>2
  <2>4. QED
    BY <1>3, <2>1, <2>2, <2>3 DEF Run
<1>4. CASE UNCHANGED vars
  BY <1>1, <1>4 DEF vars, wvars
<1>5. QED
  BY <1>2, <1>3, <1>4 DEF Next

\* The two invariants hold at every step.
LEMMA WritersCorrect == Spec => [](TypeInv /\ AllWriters)
<1>1. Init => JoinInv
  BY DEF Init, JoinInv, RunsInLiveObject
<1>2. QED
  BY <1>1, InitTypes, TypeStep, JoinStep, InitWriters, WritersStep, PTL DEF Spec

\* A file that write reports as written holds a whole jpeg, whatever frame it
\* was given and whatever the threads of the other requests write meanwhile,
\* unless a write to the disk failed, whose result the code drops (lines 188-189).
THEOREM WholeJpegAlways == Spec => []WholeJpeg
<1>1. TypeInv /\ AllWriters => WholeJpeg
  BY DEF TypeInv, AllWriters, WriterInv, Jpeg, WholeJpeg, Calls
<1>2. QED
  BY <1>1, WritersCorrect, PTL

\* A call of write that succeeds leaves nothing open, and one that fails its
\* handle and context, as far as it had come, but never its packet.
THEOREM OnlyFailuresHoldAlways == Spec => []OnlyFailuresHold
<1>1. TypeInv /\ AllWriters => OnlyFailuresHold
  BY DEF TypeInv, AllWriters, WriterInv, Holds, At, OnlyFailuresHold, Calls
<1>2. QED
  BY <1>1, WritersCorrect, PTL

-------------------------------------------------------------------------------
(* The pictures are in the order of the times.                               *)

\* A seek to an earlier time lands no later.
LEMMA SeekMonotone ==
  ASSUME TypeOK, NEW m \in Int, NEW t \in Int, m <= t
  PROVE  SeekTo(m) <= SeekTo(t)
<1>1. KeysUntil(m) \subseteq KeysUntil(t)
  <2>1. \A k \in DOMAIN stream : stream[k].dts \in Int
    BY RequestTypes, LenProperties DEF Packet
  <2>2. QED
    BY <2>1 DEF KeysUntil
<1>2. SeekTo(m) \in Nat /\ SeekTo(t) \in Nat \ {0}
  <2>1. SeekTo(m) \in 1 .. Len(stream) + 1 /\ SeekTo(t) \in 1 .. Len(stream) + 1
    BY SeekType
  <2>2. Len(stream) \in Nat
    BY RequestTypes
  <2>3. QED
    BY <2>1, <2>2
<1>3. CASE KeysUntil(m) = {}
  BY <1>2, <1>3 DEF SeekTo
<1>4. CASE KeysUntil(m) # {}
  BY <1>1, <1>4, SeekType
<1>5. QED
  BY <1>3, <1>4

\* The decoder gives its frames in the order of their packets: as many are behind
\* one frame as behind the next.
LEMMA DeliversMonotone ==
  ASSUME TypeOK, NEW s \in Nat \ {0}, NEW e \in Nat \ {0},
         NEW p \in 1 .. Len(stream), NEW o \in 1 .. Len(stream), p <= o,
         NEW f \in Delivers(s, p), NEW g \in Delivers(e, o)
  PROVE  f <= g
<1> DEFINE A == Yielding(f + 1, p)
           B == Yielding(g + 1, o)
<1>1. Len(stream) \in Nat /\ p \in Nat /\ o \in Nat
  BY RequestTypes
<1>2. f \in s .. p /\ stream[f].yields /\ g \in e .. o
  BY DEF Delivers, Yielding
<1>3. Cardinality(A) = DecoderDelay /\ Cardinality(B) = DecoderDelay
  BY DEF Delivers
<1>4. SUFFICES ASSUME g < f PROVE FALSE
  BY <1>1, <1>2
<1>5. f \in B /\ f \notin A
  BY <1>1, <1>2, <1>4 DEF Yielding
<1>6. A \subseteq B
  BY <1>1, <1>2, <1>4 DEF Yielding
<1>7. IsFiniteSet(B)
  <2>1. IsFiniteSet(g + 1 .. o)
    BY <1>1, <1>2, FS_Interval
  <2>2. B \subseteq g + 1 .. o
    BY DEF Yielding
  <2> HIDE DEF B
  <2>3. QED
    BY <2>1, <2>2, FS_Subset
<1> HIDE DEF A, B
<1>8. A = B
  BY <1>3, <1>6, <1>7, FS_Subset
<1>9. QED
  BY <1>5, <1>8

\* What a run from one packet is given, so is a run from an earlier one.
LEMMA EarlierStart ==
  ASSUME NEW s \in Nat, NEW e \in Nat, e <= s, NEW p
  PROVE  Delivers(s, p) \subseteq Delivers(e, p)
  BY DEF Delivers, Yielding

\* Of two runs, the one that starts no later and for no later a time shows no
\* later a frame, if the other reached its time or read to the end of the file.
LEMMA ShownInOrder ==
  ASSUME TypeOK, NEW s \in Nat \ {0}, NEW e \in Nat \ {0}, e <= s,
         NEW t \in Int, NEW u \in Int, u <= t,
         NEW last \in 0 .. Len(stream), NEW l \in 0 .. Len(stream),
         last = Len(stream) \/ Due(s, last, t) # {},
         NEW f \in Shown(s, last, t), NEW g \in Shown(e, l, u)
  PROVE  g <= f
<1>1. PICK p \in Delivering(s, last) :
        /\ f \in Delivers(s, p)
        /\ \/ Due(s, last, t) = {} /\ \A o \in Delivering(s, last) : o <= p
           \/ p \in Due(s, last, t) /\ \A o \in Due(s, last, t) : p <= o
  BY ShownAt
<1>2. PICK o \in Delivering(e, l) :
        /\ g \in Delivers(e, o)
        /\ \/ Due(e, l, u) = {} /\ \A i \in Delivering(e, l) : i <= o
           \/ o \in Due(e, l, u) /\ \A i \in Due(e, l, u) : o <= i
  BY ShownAt
<1>3. Len(stream) \in Nat
  BY RequestTypes
<1>4. /\ p \in s .. last /\ f \in s .. p
      /\ o \in e .. l /\ g \in e .. o
  BY <1>1, <1>2, DeliveringType
<1>5. p \in 1 .. Len(stream) /\ o \in 1 .. Len(stream)
  BY <1>3, <1>4
<1>6. SUFFICES o <= p
  BY <1>1, <1>2, <1>5, DeliversMonotone
<1>7. CASE Due(s, last, t) = {}
  <2>1. SUFFICES ASSUME p < o PROVE FALSE
    BY <1>4
  <2>2. f <= g
    BY <1>1, <1>2, <1>5, <2>1, DeliversMonotone
  <2>3. g \in Delivers(s, o)
    <3>1. g \in s .. o
      BY <1>4, <2>2
    <3>2. QED
      BY <1>2, <3>1 DEF Delivers, Yielding
  <2>4. o \in s .. last
    BY <1>3, <1>4, <1>7, <2>1
  <2>5. o \in Delivering(s, last)
    BY <2>3, <2>4 DEF Delivering
  <2>6. QED
    BY <1>1, <1>4, <1>7, <2>1, <2>5
<1>8. CASE p \in Due(s, last, t)
  <2>1. stream[p].pts \in Int /\ stream[p].pts >= u
    <3>1. stream[p].pts \in Int
      BY <1>5, RequestTypes DEF Packet
    <3>2. stream[p].pts >= t
      BY <1>8 DEF Due
    <3>3. QED
      BY <3>1, <3>2
  <2>2. CASE p <= l
    <3>1. p \in e .. l
      BY <1>3, <1>4, <2>2
    <3>2. Delivers(e, p) # {}
      BY <1>1, EarlierStart
    <3>3. p \in Delivering(e, l)
      BY <3>1, <3>2 DEF Delivering
    <3>4. p \in Due(e, l, u)
      BY <2>1, <3>3 DEF Due
    <3>5. QED
      BY <1>2, <3>4
  <2>3. CASE ~ (p <= l)
    BY <1>3, <1>4, <2>3
  <2>4. QED
    BY <2>2, <2>3
<1>9. QED
  BY <1>1, <1>7, <1>8

\* A picture is what a run for its own request alone shows of the packets it read.
PictureInv ==
  \A r \in Indices :
    picture[r] \in DOMAIN stream =>
      \E last \in 0 .. Len(stream) :
        /\ picture[r] \in Shown(SeekTo(minof(tms[r])), last, tms[r])
        /\ \/ r \in cut_short \/ last = Len(stream)
           \/ Due(SeekTo(minof(tms[r])), last, tms[r]) # {}

\* A picture is set once, by the run of its own request.
LEMMA PictureStep == TypeInv /\ PictureInv /\ [Next]_vars => PictureInv'
<1> SUFFICES ASSUME TypeInv, PictureInv, [Next]_vars PROVE PictureInv'
  OBVIOUS
<1>1. stream' = stream /\ tms' = tms /\ Indices' = Indices
  BY ArgsKept DEF args
<1>2. /\ \A start, last, t : /\ Shown(start, last, t)' = Shown(start, last, t)
                             /\ Due(start, last, t)' = Due(start, last, t)
      /\ \A t : SeekTo(minof(t))' = SeekTo(minof(t))
  BY <1>1 DEF Shown, Due, Delivering, Delivers, Yielding, SeekTo, KeysUntil, minof
<1>3. ASSUME NEW r \in Indices, picture'[r] \in DOMAIN stream
      PROVE  \E last \in 0 .. Len(stream) :
               /\ picture'[r] \in Shown(SeekTo(minof(tms[r])), last, tms[r])
               /\ \/ r \in cut_short' \/ last = Len(stream)
                  \/ Due(SeekTo(minof(tms[r])), last, tms[r]) # {}
  <2>1. Len(stream) \in Nat /\ DOMAIN stream = 1 .. Len(stream)
    BY RequestTypes, LenProperties DEF TypeInv
  <2>2. CASE picture'[r] = picture[r] /\ cut_short \subseteq cut_short'
    BY <1>3, <2>2 DEF PictureInv
  <2>3. CASE Caller \/ UNCHANGED vars
    BY <2>2, <2>3 DEF Caller, Create, CreateThrows, AllCreated, Join, AllJoined, Delete,
           CallerReturns, vars
  <2>4. ASSUME NEW q \in Indices, Run(q)
        PROVE  \E last \in 0 .. Len(stream) :
                 /\ picture'[r] \in Shown(SeekTo(minof(tms[r])), last, tms[r])
                 /\ \/ r \in cut_short' \/ last = Len(stream)
                    \/ Due(SeekTo(minof(tms[r])), last, tms[r]) # {}
    <3>1. picture \in [Indices -> {Nothing, Failed} \cup DOMAIN stream]
      BY DEF TypeInv, TypeOK
    <3>2. cut_short \subseteq cut_short'
      BY <2>4 DEF Run, Open, Decode, WritePicture, RunFails
    <3>3. CASE q # r
      <4>1. picture'[r] = picture[r]
        BY <2>4, <3>1, <3>3 DEF Run, Open, Decode, WritePicture, RunFails
      <4>2. QED
        BY <2>2, <3>2, <4>1
    <3>4. CASE q = r /\ ~ Decode(r)
      <4>1. picture'[r] = picture[r] \/ picture'[r] = Failed
        BY <2>4, <3>1, <3>4 DEF Run, Open, WritePicture, RunFails
      <4>2. Failed \notin DOMAIN stream
        BY <2>1 DEF Failed
      <4>3. QED
        BY <1>3, <2>2, <3>2, <4>1, <4>2
    <3>5. CASE q = r /\ Decode(r)
      <4>1. from[r] = SeekTo(minof(tms[r])) /\ from[r] \in 1 .. Len(stream) + 1
        <5>1. from[r] = SeekTo(minof(tms[r]))
          BY <3>5 DEF Decode, TypeInv
        <5>2. SeekTo(minof(tms[r])) \in 1 .. Len(stream) + 1
          BY RequestTypes, SeekType, MinofType DEF TypeInv
        <5>3. QED
          BY <5>1, <5>2
      <4>2. PICK last \in from[r] - 1 .. Len(stream) :
              LET shown == Shown(from[r], last, tms[r])
              IN  /\ \/ /\ shown = {} /\ Called(r, NoPicture)
                        /\ picture' = [picture EXCEPT ![r] = Nothing]
                     \/ \E p \in shown, f \in Pictures :
                          /\ Called(r, f)
                          /\ picture' = [picture EXCEPT ![r] = p]
                  /\ cut_short' = IF last < Len(stream) /\ Due(from[r], last, tms[r]) = {}
                                  THEN cut_short \cup {r} ELSE cut_short
        BY <3>5 DEF Decode
      <4>3. last \in 0 .. Len(stream)
        BY <2>1, <4>1, <4>2
      <4>4. picture'[r] \in Shown(from[r], last, tms[r])
        <5>1. Nothing \notin DOMAIN stream
          BY <2>1 DEF Nothing
        <5>2. QED
          BY <1>3, <3>1, <4>2, <5>1
      <4>5. r \in cut_short' \/ last = Len(stream) \/ Due(from[r], last, tms[r]) # {}
        <5>1. PICK n \in Nat : n = Len(stream)
          BY <2>1
        <5>2. last \in 0 .. n
          BY <4>3, <5>1
        <5>3. last < n \/ last = n
          BY <5>2
        <5>4. QED
          BY <4>2, <5>1, <5>3
      <4>6. QED
        BY <4>1, <4>3, <4>4, <4>5
    <3>6. QED
      BY <3>3, <3>4, <3>5
  <2>5. QED
    BY <2>3, <2>4 DEF Next
<1>4. QED
  BY <1>1, <1>2, <1>3 DEF PictureInv

\* Whatever the file, the times and the delay of the decoder, a later time never
\* shows an earlier frame, though each thread seeks and decodes on its own, unless
\* reading for the later time failed before the end of the file.
THEOREM PicturesInOrderAlways == Spec => []PicturesInOrder
<1>1. Init => PictureInv
  <2>1. SUFFICES ASSUME Init, NEW r \in Indices PROVE picture[r] \notin DOMAIN stream
    BY DEF PictureInv
  <2>2. DOMAIN stream = 1 .. Len(stream) /\ Len(stream) \in Nat
    BY <2>1, InitTypes, RequestTypes, LenProperties DEF TypeInv
  <2>3. picture[r] = 0
    BY <2>1 DEF Init, Nothing
  <2>4. QED
    BY <2>2, <2>3
<1>2. TypeInv /\ PictureInv => PicturesInOrder
  <2>1. SUFFICES ASSUME TypeInv, PictureInv, NEW q \in Indices, NEW r \in Indices,
                        tms[q] <= tms[r], r \notin cut_short,
                        picture[q] \in DOMAIN stream, picture[r] \in DOMAIN stream
                 PROVE  picture[q] <= picture[r]
    BY DEF PicturesInOrder
  <2>2. TypeOK /\ tms[q] \in Int /\ tms[r] \in Int /\ Len(stream) \in Nat
    BY <2>1, RequestTypes DEF TypeInv
  <2> DEFINE e == SeekTo(minof(tms[q]))
             s == SeekTo(minof(tms[r]))
  <2>3. /\ minof(tms[q]) \in Int /\ minof(tms[r]) \in Int
        /\ minof(tms[q]) <= minof(tms[r])
    BY <2>1, <2>2, MinofMonotone
  <2>4. e <= s
    BY <2>2, <2>3, SeekMonotone
  <2>5. e \in Nat \ {0} /\ s \in Nat \ {0}
    <3>1. e \in 1 .. Len(stream) + 1 /\ s \in 1 .. Len(stream) + 1
      BY <2>2, <2>3, SeekType
    <3> HIDE DEF e, s
    <3>2. QED
      BY <2>2, <3>1
  <2>6. PICK l \in 0 .. Len(stream) : picture[q] \in Shown(e, l, tms[q])
    BY <2>1 DEF PictureInv
  <2>7. PICK last \in 0 .. Len(stream) :
          /\ picture[r] \in Shown(s, last, tms[r])
          /\ last = Len(stream) \/ Due(s, last, tms[r]) # {}
    BY <2>1 DEF PictureInv
  <2> HIDE DEF e, s
  <2>8. QED
    BY <2>1, <2>2, <2>4, <2>5, <2>6, <2>7, ShownInOrder
<1>3. QED
  BY <1>1, <1>2, InitTypes, TypeStep, PictureStep, PTL DEF Spec
===============================================================================
