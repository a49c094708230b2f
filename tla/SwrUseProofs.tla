----------------------------- MODULE SwrUseProofs -----------------------------
(***************************************************************************)
(* Theorems about Swresample for every set of sample counts, every limit   *)
(* and any number of samples: the buffer is never overrun, and swr is a    *)
(* queue; and about SwrUse for every frame size, every packet size and     *)
(* input of any length: the buffer is bounded, and a sufficient limit is   *)
(* never met.                                                              *)
(***************************************************************************)
EXTENDS SwrUse, SequenceTheorems, TLAPS

Inv == TypeOK /\ InBuffer /\ InOrder

\* A function on 1 .. n is a sequence of length n.
LEMMA FunctionIsSeq ==
  ASSUME NEW n \in Nat, NEW f \in [1 .. n -> Nat]
  PROVE  f \in Seq(Nat) /\ Len(f) = n /\ DOMAIN f = 1 .. n
  OBVIOUS

\* What swr_convert takes out, leaves, passes on and keeps: it passes on new
\* samples only once nothing waits, and what waits stays inside the buffer.
LEMMA Pieces ==
  ASSUME NEW o \in Nat, NEW n \in Nat, Inv
  PROVE  /\ Taken(o) \in Nat /\ Left(o) \in Nat /\ Start(o) \in Nat
         /\ Direct(o, n) \in Nat /\ Kept(o, n) \in Nat
         /\ Taken(o) + Left(o) = count /\ Direct(o, n) + Kept(o, n) = n
         /\ Start(o) + Left(o) <= Len(buffer)
         /\ Left(o) > 0 => Start(o) = index + Taken(o)
         /\ Direct(o, n) > 0 => Left(o) = 0
         /\ Taken(o) + Direct(o, n) <= o
         /\ Kept(o, n) > 0 \/ Left(o) > 0 => Taken(o) + Direct(o, n) = o
<1>1. index \in Nat /\ count \in Nat /\ Len(buffer) \in Nat /\ index + count <= Len(buffer)
  BY DEF Inv, TypeOK, InBuffer
<1>2. Taken(o) = (IF o < count THEN o ELSE count)
  BY DEF Taken, FFMIN
<1>3. Left(o) = count - Taken(o)
  BY DEF Left
<1>4. Start(o) = (IF Taken(o) > 0 /\ Left(o) = 0 THEN 0 ELSE index + Taken(o))
  BY DEF Start
<1>5. Direct(o, n) = (IF n < o - Taken(o) THEN n ELSE o - Taken(o))
  BY DEF Direct, FFMIN
<1>6. Kept(o, n) = n - Direct(o, n)
  BY DEF Kept
<1>7. QED
  BY <1>1, <1>2, <1>3, <1>4, <1>5, <1>6

\* The samples that wait continue those taken out.
LEMMA Waiting ==
  ASSUME NEW o \in Nat, NEW n \in Nat, Inv, NEW i \in 1 .. Left(o)
  PROVE  Start(o) + i \in 1 .. Len(buffer) /\ buffer[Start(o) + i] = given - Left(o) + i
<1>1. /\ Left(o) \in Nat /\ Taken(o) \in Nat /\ Start(o) \in Nat
      /\ Taken(o) + Left(o) = count /\ Start(o) + Left(o) <= Len(buffer)
      /\ Left(o) > 0 => Start(o) = index + Taken(o)
  BY Pieces
<1>0. count \in Nat /\ given \in Nat /\ index \in Nat /\ Len(buffer) \in Nat
  BY DEF Inv, TypeOK
<1>2. Taken(o) + i \in 1 .. count /\ Left(o) > 0
  BY <1>0, <1>1
<1>3. buffer[index + (Taken(o) + i)] = given - count + (Taken(o) + i)
  BY <1>2 DEF Inv, InOrder
<1>4. index + (Taken(o) + i) = Start(o) + i
  BY <1>0, <1>1, <1>2
<1>5. buffer[Start(o) + i] = given - count + (Taken(o) + i)
  BY <1>3, <1>4
<1>6. given - count + (Taken(o) + i) = given - Left(o) + i
  <2>1. given \in Nat /\ Left(o) \in Nat /\ Taken(o) \in Nat /\ Taken(o) + Left(o) = count
    BY <1>0, <1>1
  <2>2. QED
    BY <2>1
<1>7. Start(o) + i \in 1 .. Len(buffer)
  BY <1>0, <1>1
<1>8. QED
  BY <1>5, <1>6, <1>7

\* The caller's buffer receives consecutive samples.
LEMMA OutputInOrder ==
  ASSUME NEW o \in Nat, NEW n \in Nat, Inv
  PROVE  /\ Output(o, n) \in Seq(Nat)
         /\ Len(Output(o, n)) = Taken(o) + Direct(o, n)
         /\ \A i \in 1 .. Taken(o) + Direct(o, n) :
              Output(o, n)[i] = given - count + i
<1> DEFINE t == Taken(o)
           d == Direct(o, n)
           f(i) == IF i <= t THEN buffer[index + i] ELSE given + i - t
<1>0. given \in Nat /\ count \in Nat /\ index \in Nat
  BY DEF Inv, TypeOK
<1>a. t \in Nat /\ Left(o) \in Nat /\ d \in Nat /\ t + Left(o) = count /\ (d > 0 => Left(o) = 0)
  BY Pieces
<1>1. /\ given \in Nat /\ count \in Nat /\ index \in Nat /\ t \in Nat /\ d \in Nat
      /\ t <= count /\ (d > 0 => t = count)
  BY <1>0, <1>a
<1>2. \A i \in 1 .. t + d : f(i) \in Nat /\ f(i) = given - count + i
  <2> TAKE i \in 1 .. t + d
  <2>1. CASE i <= t
    <3>1. i \in 1 .. count /\ index + i \in 1 .. Len(buffer)
      BY <2>1, <1>1 DEF Inv, TypeOK, InBuffer
    <3>2. buffer[index + i] \in Nat
      BY <3>1 DEF Inv, TypeOK
    <3>3. QED
      BY <2>1, <3>1, <3>2 DEF Inv, InOrder
  <2>2. CASE ~(i <= t)
    <3>1. d > 0
      BY <2>2, <1>1
    <3>2. t = count
      BY <3>1, <1>1
    <3>3. QED
      BY <2>2, <3>2, <1>1
  <2>3. QED
    BY <2>1, <2>2
<1>3. Output(o, n) = [i \in 1 .. t + d |-> f(i)]
  BY DEF Output
<1> HIDE DEF f, t, d
<1>4. Output(o, n) \in [1 .. t + d -> Nat] /\ t + d \in Nat
  BY <1>1, <1>2, <1>3
<1>5. Output(o, n) \in Seq(Nat) /\ Len(Output(o, n)) = t + d
  BY <1>4, FunctionIsSeq
<1>6. \A i \in 1 .. t + d : Output(o, n)[i] = given - count + i
  BY <1>2, <1>3
<1>7. QED
  BY <1>5, <1>6 DEF t, d

\* Of v samples put into b, the last l stand from index m on.
Waits(b, m, l, v) == \A i \in 1 .. l : b[m + i] = v - l + i

\* A buffer b after k samples from the d-th on were written behind l samples that
\* wait from index m on; v samples were put in before.
Written(b, m, l, k, v, d) ==
  [j \in DOMAIN b |->
     IF j \in m + l + 1 .. m + l + k THEN v + d + j - (m + l) ELSE b[j]]

\* The samples fit, and continue those that wait.
Writable(b, m, l, k, v, d) ==
  /\ b \in Seq(Nat) /\ m \in Nat /\ l \in Nat /\ k \in Nat /\ v \in Nat /\ d \in Nat
  /\ m + l + k <= Len(b)
  /\ d > 0 => l = 0
  /\ Waits(b, m, l, v)

\* Then they wait together, in a buffer of the same length.
LEMMA WrittenBehind ==
  ASSUME NEW b, NEW m, NEW l, NEW k, NEW v, NEW d, Writable(b, m, l, k, v, d)
  PROVE  /\ Written(b, m, l, k, v, d) \in Seq(Nat)
         /\ Len(Written(b, m, l, k, v, d)) = Len(b)
         /\ Waits(Written(b, m, l, k, v, d), m, l + k, v + d + k)
<1> DEFINE f == Written(b, m, l, k, v, d)
<1>0. /\ b \in Seq(Nat) /\ m \in Nat /\ l \in Nat /\ k \in Nat /\ v \in Nat /\ d \in Nat
      /\ m + l + k <= Len(b) /\ Len(b) \in Nat /\ DOMAIN b = 1 .. Len(b)
  BY DEF Writable
<1>1. m \in Nat /\ l \in Nat /\ k \in Nat /\ v \in Nat /\ d \in Nat /\ (d > 0 => l = 0)
  BY DEF Writable
<1>2. ASSUME NEW j \in 1 .. Len(b), j \in m + l + 1 .. m + l + k
      PROVE  f[j] = v + d + j - (m + l)
  BY <1>0, <1>2 DEF Written
<1>3. ASSUME NEW j \in 1 .. Len(b), j \notin m + l + 1 .. m + l + k
      PROVE  f[j] = b[j]
  BY <1>0, <1>3 DEF Written
<1>4. f \in [1 .. Len(b) -> Nat]
  <2>1. \A j \in 1 .. Len(b) : f[j] \in Nat
    <3> TAKE j \in 1 .. Len(b)
    <3>1. CASE j \in m + l + 1 .. m + l + k
      <4>1. v + d + j - (m + l) \in Nat
        BY <3>1, <1>1
      <4>2. QED
        BY <4>1, <3>1, <1>2
    <3>2. CASE j \notin m + l + 1 .. m + l + k
      <4>1. b[j] \in Nat
        BY <1>0
      <4>2. QED
        BY <4>1, <3>2, <1>3
    <3>3. QED
      BY <3>1, <3>2
  <2>2. QED
    BY <2>1, <1>0 DEF Written
<1>5. f \in Seq(Nat) /\ Len(f) = Len(b)
  BY <1>0, <1>4, FunctionIsSeq
<1>6. ASSUME NEW i \in 1 .. l + k
      PROVE  f[m + i] = (v + d + k) - (l + k) + i
  <2>0. m + i \in 1 .. Len(b) /\ i \in Nat
    BY <1>0
  <2>1. CASE i <= l
    <3>1. m + i \notin m + l + 1 .. m + l + k /\ i \in 1 .. l /\ d = 0
      BY <1>1, <2>1
    <3>2. f[m + i] = b[m + i]
      BY <2>0, <3>1, <1>3
    <3>3. b[m + i] = v - l + i
      BY <3>1 DEF Writable, Waits
    <3>4. v - l + i = (v + d + k) - (l + k) + i
      BY <1>1, <3>1
    <3>5. QED
      BY <3>2, <3>3, <3>4
  <2>2. CASE i > l
    <3>1. m + i \in m + l + 1 .. m + l + k
      BY <1>1, <2>2
    <3>2. f[m + i] = v + d + (m + i) - (m + l)
      BY <2>0, <3>1, <1>2
    <3>3. v + d + (m + i) - (m + l) = (v + d + k) - (l + k) + i
      BY <1>1
    <3>4. QED
      BY <3>2, <3>3
  <2>3. QED
    BY <1>1, <2>1, <2>2
<1> HIDE DEF f
<1>7. Waits(f, m, l + k, v + d + k)
  BY <1>6 DEF Waits
<1>8. QED
  BY <1>5, <1>7 DEF f

\* A buffer that holds what waits from index m on, with room for what is kept.
Holds(b, m, o, n) ==
  /\ b \in Seq(Nat) /\ m \in Nat
  /\ m + Left(o) + Kept(o, n) <= Len(b)
  /\ Waits(b, m, Left(o), given)

\* What a call changes once it has such a buffer.
Stores(b, m, o, n) ==
  /\ buffer' = Store(b, m + Left(o), o, n)
  /\ index' = m
  /\ Done(o, n)

\* Storing what is kept behind what waits, in any such buffer.
LEMMA Stored ==
  ASSUME Inv, NEW o \in Nat, NEW n \in Nat, NEW b, NEW s,
         Holds(b, s, o, n), Stores(b, s, o, n)
  PROVE  Inv'
<1>0. given \in Nat /\ count \in Nat
  BY DEF Inv, TypeOK
<1>1. /\ Left(o) \in Nat /\ Kept(o, n) \in Nat /\ Direct(o, n) \in Nat
      /\ Direct(o, n) + Kept(o, n) = n
      /\ Taken(o) \in Nat /\ Taken(o) + Left(o) = count
      /\ Direct(o, n) > 0 => Left(o) = 0
  BY Pieces
<1>2. /\ given + n <= MaxSamples /\ given' = given + n
      /\ count' = Left(o) + Kept(o, n)
      /\ output' = Output(o, n) /\ failed' = failed
  BY DEF Stores, Done
<1>3. /\ buffer' \in Seq(Nat) /\ Len(buffer') = Len(b)
      /\ Waits(buffer', s, Left(o) + Kept(o, n), given + Direct(o, n) + Kept(o, n))
  <2>1. buffer' = Written(b, s, Left(o), Kept(o, n), given, Direct(o, n))
    BY DEF Stores, Store, Written
  <2>2. Writable(b, s, Left(o), Kept(o, n), given, Direct(o, n))
    BY <1>0, <1>1 DEF Holds, Writable
  <2> DEFINE w == Written(b, s, Left(o), Kept(o, n), given, Direct(o, n))
  <2>3. /\ w \in Seq(Nat) /\ Len(w) = Len(b)
        /\ Waits(w, s, Left(o) + Kept(o, n), given + Direct(o, n) + Kept(o, n))
    BY <2>2, WrittenBehind
  <2> HIDE DEF w
  <2>4. buffer' = w
    BY <2>1 DEF w
  <2>5. QED
    BY <2>3, <2>4
<1>4. \A i \in 1 .. count' : buffer'[index' + i] = given' - count' + i
  <2>1. given + Direct(o, n) + Kept(o, n) = given'
    BY <1>0, <1>1, <1>2
  <2>2. index' = s
    BY DEF Stores
  <2>3. Waits(buffer', index', count', given')
    BY <1>2, <1>3, <2>1, <2>2
  <2>4. QED
    BY <2>3 DEF Waits
<1>5. /\ output' \in Seq(Nat) /\ DOMAIN output' = 1 .. Len(output')
      /\ \A i \in DOMAIN output' : output'[i] = given' - count' - Len(output') + i
  <2>1. /\ output' \in Seq(Nat) /\ Len(output') = Taken(o) + Direct(o, n)
        /\ \A i \in 1 .. Taken(o) + Direct(o, n) : output'[i] = given - count + i
    BY <1>2, OutputInOrder
  <2>0. given' = given + n /\ count' = Left(o) + Kept(o, n)
    BY <1>2
  <2>a. Len(output') = Taken(o) + Direct(o, n)
    BY <2>1
  <2>b. (given + n) - (Left(o) + Kept(o, n)) - (Taken(o) + Direct(o, n)) = given - count
    BY <1>0, <1>1
  <2>2. given' - count' - Len(output') = given - count
    BY <2>0, <2>a, <2>b
  <2>3. DOMAIN output' = 1 .. Taken(o) + Direct(o, n)
    BY <2>1
  <2>4. QED
    BY <2>1, <2>2, <2>3
<1>6. given' \in 0 .. MaxSamples /\ count' \in Nat
  BY <1>0, <1>1, <1>2, MaxSamplesAssumption
<1>7. TypeOK'
  BY <1>2, <1>3, <1>5, <1>6 DEF TypeOK, Inv, Holds, Stores
<1>8. InBuffer'
  BY <1>1, <1>2, <1>3 DEF InBuffer, Holds, Stores
<1>9. InOrder'
  BY <1>4, <1>5 DEF InOrder
<1>10. QED
  BY <1>7, <1>8, <1>9 DEF Inv

\* A call keeps the invariant, in each of its branches.
LEMMA ConvertStep ==
  ASSUME Inv, NEW o \in Nat, NEW n \in Nat, swr_convert(o, n)
  PROVE  Inv'
<1> DEFINE s == Start(o)
           l == Left(o)
           k == Kept(o, n)
<1>0. /\ buffer \in Seq(Nat) /\ DOMAIN buffer = 1 .. Len(buffer) /\ Len(buffer) \in Nat
      /\ s \in Nat /\ l \in Nat /\ k \in Nat /\ s + l <= Len(buffer)
      /\ given \in Nat
  BY Pieces DEF Inv, TypeOK
<1>1. CASE ConvertInPlace(o, n)
  <2>1. s + l + k <= Len(buffer)
    BY <1>0, <1>1 DEF ConvertInPlace, Reaches, Size
  <2>2. \A i \in 1 .. l : buffer[s + i] = given - l + i
    BY Waiting
  <2>3. buffer' = Store(buffer, s + l, o, n) /\ index' = s /\ Done(o, n)
    BY <1>1 DEF ConvertInPlace
  <2>4. Holds(buffer, s, o, n) /\ Stores(buffer, s, o, n)
    BY <1>0, <2>1, <2>2, <2>3 DEF Holds, Stores, Waits
  <2>5. QED
    BY <2>4, Stored
<1>2. CASE ConvertMoving(o, n)
  <2> DEFINE moved == [i \in DOMAIN buffer |-> IF i <= l THEN buffer[s + i] ELSE buffer[i]]
  <2>1. l + k <= s
    BY <1>2 DEF ConvertMoving, Movable
  <2>2. \A i \in 1 .. l : s + i \in 1 .. Len(buffer) /\ buffer[s + i] = given - l + i
    BY Waiting
  <2>3. moved \in [1 .. Len(buffer) -> Nat]
    <3>1. \A i \in 1 .. Len(buffer) : buffer[i] \in Nat
      BY <1>0
    <3>2. \A i \in 1 .. Len(buffer) : (IF i <= l THEN buffer[s + i] ELSE buffer[i]) \in Nat
      BY <3>1, <2>2, <1>0
    <3>3. QED
      BY <3>2, <1>0
  <2>4. moved \in Seq(Nat) /\ Len(moved) = Len(buffer)
    BY <2>3, <1>0, FunctionIsSeq
  <2>5. 0 + l + k <= Len(moved)
    BY <2>1, <2>4, <1>0
  <2>6. \A i \in 1 .. l : moved[0 + i] = given - l + i
    <3> TAKE i \in 1 .. l
    <3>1. i \in DOMAIN buffer /\ i <= l /\ 0 + i = i
      BY <1>0, <2>1
    <3>2. moved[i] = buffer[s + i]
      BY <3>1
    <3>3. QED
      BY <3>1, <3>2, <2>2
  <2>7. buffer' = Store(moved, 0 + l, o, n) /\ index' = 0 /\ Done(o, n)
    BY <1>2, <1>0 DEF ConvertMoving
  <2> HIDE DEF moved
  <2>8. Holds(moved, 0, o, n) /\ Stores(moved, 0, o, n)
    BY <2>4, <2>5, <2>6, <2>7 DEF Holds, Stores, Waits
  <2>9. QED
    BY <2>8, Stored
<1>3. CASE ConvertGrowing(o, n)
  <2> DEFINE size == Size(o, n)
             grown == Grown(size)
  <2>1. size = s + l + k /\ size > Len(buffer)
    BY <1>3 DEF ConvertGrowing, Reaches, Size
  <2>2. size \in Nat /\ 2 * size \in Nat /\ Len(buffer) <= 2 * size /\ size <= 2 * size
    BY <2>1, <1>0
  <2>3. grown = [i \in 1 .. 2 * size |-> IF i <= Len(buffer) THEN buffer[i] ELSE 0]
    BY DEF Grown
  <2> HIDE DEF size, grown
  <2>4. grown \in [1 .. 2 * size -> Nat]
    BY <2>2, <2>3, <1>0
  <2>5. grown \in Seq(Nat) /\ Len(grown) = 2 * size
    BY <2>2, <2>4, FunctionIsSeq
  <2>6. \A i \in 1 .. l : grown[s + i] = given - l + i
    <3> TAKE i \in 1 .. l
    <3>1. s + i \in 1 .. Len(buffer) /\ buffer[s + i] = given - l + i
      BY Waiting
    <3>2. QED
      BY <3>1, <2>2, <2>3, <1>0
  <2>7. buffer' = Store(grown, s + l, o, n) /\ index' = s /\ Done(o, n)
    BY <1>3 DEF ConvertGrowing, grown, size
  <2>8. s + l + k <= Len(grown)
    BY <2>1, <2>2, <2>5
  <2>9. Holds(grown, s, o, n) /\ Stores(grown, s, o, n)
    BY <2>5, <2>6, <2>7, <2>8, <1>0 DEF Holds, Stores, Waits
  <2>10. QED
    BY <2>9, Stored
<1>4. CASE ConvertRefused(o, n)
  <2>1. /\ buffer' = buffer /\ given' = given /\ output' = output
        /\ failed' = TRUE /\ count' = l /\ index' = s
    BY <1>4 DEF ConvertRefused
  <2>2. \A i \in 1 .. l : buffer[s + i] = given - l + i
    BY Waiting
  <2>3. QED
    BY <1>0, <2>1, <2>2 DEF Inv, TypeOK, InBuffer, InOrder
<1>5. QED
  BY <1>1, <1>2, <1>3, <1>4 DEF swr_convert

\* A step keeps the invariant.
LEMMA InvStep == Inv /\ [Next]_vars => Inv'
<1> SUFFICES ASSUME Inv, [Next]_vars PROVE Inv'
  OBVIOUS
<1>1. CASE Next
  <2>1. PICK o \in Counts, n \in Counts : swr_convert(o, n)
    BY <1>1 DEF Next
  <2>2. o \in Nat /\ n \in Nat
    BY CountsAssumption
  <2>3. QED
    BY <2>1, <2>2, ConvertStep
<1>2. CASE UNCHANGED vars
  BY <1>2 DEF vars, Inv, TypeOK, InBuffer, InOrder
<1>3. QED
  BY <1>1, <1>2

\* Nothing is in a new context.
LEMMA InitInv == Init => Inv
<1> SUFFICES ASSUME Init PROVE Inv
  OBVIOUS
<1>1. /\ << >> \in Seq(Nat) /\ Len(<< >>) = 0 /\ DOMAIN << >> = {}
  OBVIOUS
<1>2. 0 \in 0 .. MaxSamples
  BY MaxSamplesAssumption
<1>3. TypeOK
  BY <1>1, <1>2 DEF Init, TypeOK
<1>4. InBuffer
  BY <1>1 DEF Init, InBuffer
<1>5. InOrder
  BY <1>1 DEF Init, InOrder
<1>6. QED
  BY <1>3, <1>4, <1>5 DEF Inv

\* The invariant holds of every behaviour.
THEOREM SwrInvariant == Spec => []Inv
  BY InitInv, InvStep, PTL DEF Spec

\* Every variable has its type, for all sample counts and every limit.
THEOREM TypeCorrect == Spec => []TypeOK
<1>1. Inv => TypeOK
  BY DEF Inv
<1>2. QED
  BY <1>1, SwrInvariant, PTL

\* No sequence of calls makes what waits reach past the end of in_buffer.
THEOREM InBufferAlways == Spec => []InBuffer
<1>1. Inv => InBuffer
  BY DEF Inv
<1>2. QED
  BY <1>1, SwrInvariant, PTL

\* The samples that wait, and those written out, are consecutive.
THEOREM InOrderAlways == Spec => []InOrder
<1>1. Inv => InOrder
  BY DEF Inv
<1>2. QED
  BY <1>1, SwrInvariant, PTL

-------------------------------------------------------------------------------
(* The refinement.                                                           *)

\* The abstract queue.
Queue == [i \in 1 .. count |-> buffer[index + i]]

\* A sequence of the n samples after the sample b.
Follow(q, b, n) ==
  /\ q \in Seq(Nat) /\ Len(q) = n
  /\ \A i \in 1 .. n : q[i] = b + i

\* There is only one.
LEMMA FollowUnique ==
  ASSUME NEW p, NEW q, NEW b, NEW n, Follow(p, b, n), Follow(q, b, n)
  PROVE  p = q
<1>1. p \in Seq(Nat) /\ q \in Seq(Nat) /\ Len(p) = n /\ Len(q) = n
  BY DEF Follow
<1>2. \A i \in 1 .. n : p[i] = q[i]
  BY DEF Follow
<1>3. QED
  BY <1>1, <1>2, SeqEqual

\* Cutting two of them, the second of which continues the first.
LEMMA FollowCut ==
  ASSUME NEW q, NEW r, NEW b \in Int, NEW l \in Nat, NEW n \in Nat, NEW k \in 0 .. l + n,
         Follow(q, b, l), Follow(r, b + l, n)
  PROVE  /\ Len(q \o r) = l + n
         /\ Follow(SubSeq(q \o r, 1, k), b, k)
         /\ Follow(SubSeq(q \o r, k + 1, l + n), b + k, (l + n) - k)
<1> DEFINE all == q \o r
           z == l + n
           m == k + 1
<1>0. q \in Seq(Nat) /\ r \in Seq(Nat) /\ Len(q) = l /\ Len(r) = n
  BY DEF Follow
<1>1. all \in Seq(Nat) /\ Len(all) = z
  BY <1>0
<1>2. ASSUME NEW i \in 1 .. z PROVE all[i] = b + i /\ all[i] \in Nat
  <2>1. CASE i \in 1 .. l
    <3>1. all[i] = q[i]
      BY <2>1, <1>0
    <3>2. QED
      BY <2>1, <3>1 DEF Follow
  <2>2. CASE i \notin 1 .. l
    <3>1. i - l \in 1 .. n /\ b + l + (i - l) = b + i
      BY <2>2
    <3>2. all[i] = r[i - l]
      <4>1. i > l /\ i \in 1 .. l + n
        BY <2>2
      <4>2. i \in 1 .. Len(q) + Len(r) /\ ~(i <= Len(q)) /\ Len(q) = l
        BY <4>1, <1>0
      <4>3. all[i] = IF i <= Len(q) THEN q[i] ELSE r[i - Len(q)]
        BY <1>0, <4>2, ConcatProperties
      <4>4. QED
        BY <4>2, <4>3
    <3>3. QED
      BY <3>1, <3>2 DEF Follow
  <2>3. QED
    BY <2>1, <2>2
<1>3. /\ z \in Nat /\ z \in Int /\ k \in 0 .. z /\ k \in Int /\ m \in Int
      /\ (1 <= k => k - 1 + 1 = k) /\ (m <= z => z - m + 1 = z - k)
      /\ (~(m <= z) => z - k = 0) /\ (~(1 <= k) => k = 0)
      /\ \A i \in m .. z : i \in 1 .. z
      /\ \A i \in 1 .. k : i \in 1 .. z
      /\ \A i \in 1 .. z - k : m + i - 1 = k + i /\ k + i \in 1 .. z /\ b + (k + i) = b + k + i
      /\ \A i \in 1 .. k : 1 + i - 1 = i
      /\ k - 1 + 1 = k /\ z - m + 1 = z - k
  OBVIOUS
<1> HIDE DEF all, z, m
<1>4. Follow(SubSeq(all, 1, k), b, k)
  <2>1. /\ SubSeq(all, 1, k) \in Seq(Nat)
        /\ Len(SubSeq(all, 1, k)) = IF 1 <= k THEN k - 1 + 1 ELSE 0
        /\ \A i \in 1 .. k - 1 + 1 : SubSeq(all, 1, k)[i] = all[1 + i - 1]
    BY <1>2, <1>3, SubSeqProperties
  <2>2. QED
    BY <1>2, <1>3, <2>1 DEF Follow
<1>5. Follow(SubSeq(all, m, z), b + k, z - k)
  <2>1. /\ SubSeq(all, m, z) \in Seq(Nat)
        /\ Len(SubSeq(all, m, z)) = IF m <= z THEN z - m + 1 ELSE 0
        /\ \A i \in 1 .. z - m + 1 : SubSeq(all, m, z)[i] = all[m + i - 1]
    BY <1>2, <1>3, SubSeqProperties
  <2>2. Len(SubSeq(all, m, z)) = z - k
    BY <1>3, <2>1
  <2>3. ASSUME NEW i \in 1 .. z - k PROVE SubSeq(all, m, z)[i] = b + k + i
    <3>1. SubSeq(all, m, z)[i] = all[m + i - 1]
      BY <1>3, <2>1
    <3>2. m + i - 1 = k + i /\ k + i \in 1 .. z /\ b + (k + i) = b + k + i
      BY <1>3
    <3>3. QED
      BY <1>2, <3>1, <3>2
  <2>4. QED
    BY <2>1, <2>2, <2>3 DEF Follow
<1>6. QED
  BY <1>1, <1>4, <1>5 DEF all, z, m

\* The queue holds the samples that wait.
LEMMA QueueContent ==
  ASSUME Inv
  PROVE  Follow(Queue, given - count, count)
<1>1. count \in Nat /\ \A i \in 1 .. count : buffer[index + i] \in Nat
  <2>1. PICK b \in Seq(Nat) : b = buffer
    BY DEF Inv, TypeOK
  <2>2. PICK n \in Nat : n = count
    BY DEF Inv, TypeOK
  <2>3. PICK j \in Nat : j = index
    BY DEF Inv, TypeOK
  <2>4. j + n <= Len(b)
    BY <2>1, <2>2, <2>3 DEF Inv, InBuffer
  <2>5. \A i \in 1 .. n : j + i \in 1 .. Len(b)
    BY <2>4, LenProperties
  <2>6. \A i \in 1 .. n : b[j + i] \in Nat
    BY <2>5, ElementOfSeq
  <2>7. QED
    BY <2>1, <2>2, <2>3, <2>6
<1>2. Queue \in [1 .. count -> Nat]
  BY <1>1 DEF Queue
<1>3. Queue \in Seq(Nat) /\ Len(Queue) = count
  BY <1>1, <1>2, FunctionIsSeq
<1>4. \A i \in 1 .. count : Queue[i] = given - count + i
  BY DEF Queue, Inv, InOrder
<1>5. QED
  BY <1>3, <1>4 DEF Follow

\* And so it does after a step.
LEMMA QueueContentNext ==
  ASSUME Inv'
  PROVE  Follow(Queue', given' - count', count')
<1>1. count' \in Nat /\ \A i \in 1 .. count' : buffer'[index' + i] \in Nat
  <2>1. PICK b \in Seq(Nat) : b = buffer'
    BY DEF Inv, TypeOK
  <2>2. PICK n \in Nat : n = count'
    BY DEF Inv, TypeOK
  <2>3. PICK j \in Nat : j = index'
    BY DEF Inv, TypeOK
  <2>4. j + n <= Len(b)
    BY <2>1, <2>2, <2>3 DEF Inv, InBuffer
  <2>5. \A i \in 1 .. n : j + i \in 1 .. Len(b)
    BY <2>4, LenProperties
  <2>6. \A i \in 1 .. n : b[j + i] \in Nat
    BY <2>5, ElementOfSeq
  <2>7. QED
    BY <2>1, <2>2, <2>3, <2>6
<1>2. Queue' \in [1 .. count' -> Nat]
  BY <1>1 DEF Queue
<1>3. Queue' \in Seq(Nat) /\ Len(Queue') = count'
  BY <1>1, <1>2, FunctionIsSeq
<1>4. \A i \in 1 .. count' : Queue'[i] = given' - count' + i
  BY DEF Queue, Inv, InOrder
<1>5. QED
  BY <1>3, <1>4 DEF Follow

\* A call that succeeds exchanges samples with the queue.
LEMMA ConvertExchanges ==
  ASSUME Inv, Inv', NEW o \in Nat, NEW n \in Nat, Done(o, n)
  PROVE  Fifo!Exchange(o, n)
<1> DEFINE r == [i \in 1 .. n |-> given + i]
           k == Taken(o) + Direct(o, n)
           b == given - count
           all == Queue \o r
<1>1. given \in Nat /\ count \in Nat /\ b \in Int /\ b + count = given
  BY DEF Inv, TypeOK
<1>2. Follow(r, given, n)
  <2>1. r \in [1 .. n -> Nat]
    BY <1>1
  <2>2. r \in Seq(Nat) /\ Len(r) = n
    BY <2>1, FunctionIsSeq
  <2>3. QED
    BY <2>2 DEF Follow
<1>3. /\ given' = given + n /\ count' = Left(o) + Kept(o, n)
      /\ output' = Output(o, n) /\ failed' = failed
  BY DEF Done
<1>4. /\ Taken(o) \in Nat /\ Left(o) \in Nat /\ Kept(o, n) \in Nat /\ Direct(o, n) \in Nat
      /\ Taken(o) + Left(o) = count /\ Direct(o, n) + Kept(o, n) = n
  BY Pieces
<1>5. k \in 0 .. count + n /\ (count + n) - k = Left(o) + Kept(o, n)
  BY <1>1, <1>4
<1>6. k = Fifo!Lesser(o, count + n)
  <2>1. k <= o /\ (Kept(o, n) > 0 \/ Left(o) > 0 => k = o)
    BY Pieces
  <2>2. CASE k < count + n
    <3>1. Kept(o, n) > 0 \/ Left(o) > 0
      BY <1>1, <1>4, <1>5, <2>2
    <3>2. QED
      BY <2>1, <2>2, <3>1 DEF Fifo!Lesser
  <2>3. CASE k = count + n
    BY <2>1, <2>3, <1>1 DEF Fifo!Lesser
  <2>4. QED
    BY <2>2, <2>3, <1>1, <1>5
<1>7. b + k = given' - count' /\ count' = (count + n) - k
  BY <1>1, <1>3, <1>4, <1>5
<1>8. Follow(output', b, k)
  BY <1>3, OutputInOrder DEF Follow
<1> HIDE DEF r, k, b
<1>9. Follow(Queue, b, count) /\ Follow(Queue', b + k, (count + n) - k)
  BY <1>7, QueueContent, QueueContentNext DEF b
<1>10. /\ Len(all) = count + n
       /\ Follow(SubSeq(all, 1, k), b, k)
       /\ Follow(SubSeq(all, k + 1, count + n), b + k, (count + n) - k)
  BY <1>1, <1>2, <1>5, <1>9, FollowCut
<1> HIDE DEF all
<1>11. output' = SubSeq(all, 1, k) /\ Queue' = SubSeq(all, k + 1, Len(all))
  BY <1>8, <1>9, <1>10, FollowUnique
<1>12. QED
  BY <1>3, <1>6, <1>10, <1>11 DEF Fifo!Exchange, all, r, Queue

\* Every step of swr is one of the queue.
LEMMA FifoStep ==
  ASSUME Inv, Inv', [Next]_vars
  PROVE  [Fifo!QNext]_Fifo!qvars
<1>1. CASE Next
  <2>1. PICK o \in Counts, n \in Counts : swr_convert(o, n)
    BY <1>1 DEF Next
  <2>2. o \in Nat /\ n \in Nat /\ ~failed
    BY <1>1, CountsAssumption DEF Next
  <2>3. CASE Done(o, n)
    BY <2>2, <2>3, ConvertExchanges DEF Fifo!QNext
  <2>4. CASE ConvertRefused(o, n)
    BY <2>2, <2>4 DEF ConvertRefused, Fifo!QNext, Fifo!Break
  <2>5. QED
    BY <2>1, <2>3, <2>4 DEF swr_convert, ConvertInPlace, ConvertMoving, ConvertGrowing
<1>2. CASE UNCHANGED vars
  BY <1>2 DEF vars, Fifo!qvars
<1>3. QED
  BY <1>1, <1>2

\* swr is a queue of samples, for all sample counts and every limit.
THEOREM FifoImplemented == Spec => IsFifo
<1>1. Init => Fifo!QInit
  BY DEF Init, Fifo!QInit
<1>2. Inv /\ Inv' /\ [Next]_vars => [Fifo!QNext]_Fifo!qvars
  BY FifoStep
<1>3. QED
  BY <1>1, <1>2, SwrInvariant, PTL DEF Spec, IsFifo, Fifo!QSpec

-------------------------------------------------------------------------------
(* The loops of the tools over swr.                                          *)

Room == FrameSize + PacketSize

\* What waits is less than a frame and what was put in of this packet.
Waiters ==
  /\ packet \in 0 .. PacketSize
  /\ use = "loop" => count <= FrameSize + packet

UseInv ==
  /\ Inv
  /\ Waiters
  /\ BufferBounded
  /\ NeverRefused

\* Putting a frame in grows the buffer only if what waits cannot be moved to its
\* start, so to less than four times what it has to hold.
LEMMA PutStep ==
  ASSUME UseInv, use = "loop", UNCHANGED use, ~failed, PutFrame
  PROVE  UseInv'
<1>0. PICK n \in Counts : packet + n <= PacketSize /\ packet' = packet + n /\ swr_convert(0, n)
  BY DEF PutFrame
<1>1. /\ n \in Nat /\ FrameSize \in Nat /\ PacketSize \in Nat /\ 0 \in Nat /\ Limit \in Nat
  BY CountsAssumption, FrameSizeAssumption, PacketSizeAssumption, LimitAssumption
<1>2. /\ index \in Nat /\ count \in Nat /\ Len(buffer) \in Nat
      /\ packet \in Nat /\ count <= FrameSize + packet
      /\ Len(buffer) <= 4 * Room
  BY DEF UseInv, Inv, TypeOK, Waiters, BufferBounded, Room
<1>3. /\ Taken(0) = 0 /\ Left(0) = count /\ Start(0) = index
      /\ Direct(0, n) = 0 /\ Kept(0, n) = n
  <2>1. Taken(0) = 0
    BY <1>2 DEF Taken, FFMIN
  <2>2. Left(0) = count /\ Start(0) = index
    BY <1>2, <2>1 DEF Left, Start
  <2>3. Direct(0, n) = 0
    BY <1>1, <2>1 DEF Direct, FFMIN
  <2>4. QED
    BY <1>1, <2>1, <2>2, <2>3 DEF Kept
<1>4. Inv'
  BY <1>0, <1>1, ConvertStep DEF UseInv
<1>5. count + n <= Room /\ Room \in Nat /\ packet' \in 0 .. PacketSize
  BY <1>0, <1>1, <1>2 DEF Room
<1>6. Size(0, n) = index + count + n
  BY <1>3 DEF Size
<1>7. ASSUME ~Movable(0, n) PROVE 2 * Size(0, n) < 4 * Room
  <2>1. count + n > index
    BY <1>1, <1>2, <1>3, <1>7 DEF Movable
  <2>2. QED
    BY <1>1, <1>2, <1>5, <1>6, <2>1
<1>8. CASE ConvertInPlace(0, n) \/ ConvertMoving(0, n) \/ ConvertGrowing(0, n)
  <2>1. count' = count + n /\ failed' = failed
    BY <1>3, <1>8 DEF ConvertInPlace, ConvertMoving, ConvertGrowing, Done
  <2>2. Len(buffer') <= 4 * Room
    <3>1. CASE ConvertInPlace(0, n)
      <4>1. DOMAIN buffer' = DOMAIN buffer
        BY <3>1 DEF ConvertInPlace, Store
      <4>2. Len(buffer') = Len(buffer)
        BY <4>1, <1>4 DEF UseInv, Inv, TypeOK
      <4>3. QED
        BY <4>2, <1>2
    <3>2. CASE ConvertMoving(0, n)
      <4>1. DOMAIN buffer' = DOMAIN buffer
        BY <3>2 DEF ConvertMoving, Store
      <4>2. Len(buffer') = Len(buffer)
        BY <4>1, <1>4 DEF UseInv, Inv, TypeOK
      <4>3. QED
        BY <4>2, <1>2
    <3>3. CASE ConvertGrowing(0, n)
      <4>1. DOMAIN buffer' = 1 .. 2 * Size(0, n)
        BY <3>3 DEF ConvertGrowing, Store, Grown
      <4>2. 2 * Size(0, n) \in Nat
        BY <1>1, <1>2, <1>6
      <4>3. Len(buffer') = 2 * Size(0, n)
        BY <4>1, <4>2, <1>4 DEF Inv, TypeOK
      <4>4. 2 * Size(0, n) < 4 * Room
        BY <3>3, <1>7 DEF ConvertGrowing
      <4>5. QED
        BY <4>2, <4>3, <4>4, <1>5
    <3>4. QED
      BY <1>8, <3>1, <3>2, <3>3
  <2>3. count' <= FrameSize + packet'
    BY <1>0, <1>1, <1>2, <2>1
  <2>4. QED
    BY <1>4, <1>5, <2>1, <2>2, <2>3 DEF UseInv, Waiters, BufferBounded, NeverRefused, Room
<1>9. CASE ConvertRefused(0, n)
  <2>1. buffer' = buffer /\ count' = count
    BY <1>3, <1>9 DEF ConvertRefused
  <2>2. ~(Limit >= 4 * Room)
    <3>1. Kept(0, n) > 0 /\ Size(0, n) > Limit /\ ~(Reaches(0, n) /\ Movable(0, n))
      BY <1>9 DEF ConvertRefused
    <3>2. Size(0, n) \in Nat
      BY <1>1, <1>2, <1>6
    <3>3. SUFFICES ASSUME Limit >= 4 * Room PROVE FALSE
      OBVIOUS
    <3>4. Reaches(0, n)
      BY <1>1, <1>2, <1>5, <3>1, <3>2, <3>3 DEF Reaches
    <3>5. 2 * Size(0, n) < 4 * Room
      BY <1>7, <3>1, <3>4
    <3>6. QED
      BY <1>1, <1>5, <3>1, <3>2, <3>3, <3>5
  <2>3. count' <= FrameSize + packet'
    BY <1>0, <1>1, <1>2, <2>1
  <2>4. QED
    BY <1>2, <1>4, <1>5, <2>1, <2>2, <2>3 DEF UseInv, Waiters, BufferBounded, NeverRefused, Room
<1>10. QED
  BY <1>0, <1>8, <1>9 DEF swr_convert

\* Taking a frame out keeps nothing new, so that the buffer is not looked at.
LEMMA TakeStep ==
  ASSUME UseInv, use = "loop", UNCHANGED use, ~failed, TakeFrame
  PROVE  UseInv'
<1>1. /\ FrameSize \in Nat /\ PacketSize \in Nat /\ 0 \in Nat
  BY FrameSizeAssumption, PacketSizeAssumption
<1>2. swr_convert(FrameSize, 0) /\ packet' = PacketSize
  BY DEF TakeFrame
<1>3. Inv'
  BY <1>1, <1>2, ConvertStep DEF UseInv
<1>4. /\ Taken(FrameSize) \in Nat /\ Left(FrameSize) \in Nat
      /\ Direct(FrameSize, 0) \in Nat /\ Kept(FrameSize, 0) \in Nat
      /\ Taken(FrameSize) + Left(FrameSize) = count
      /\ Direct(FrameSize, 0) + Kept(FrameSize, 0) = 0
  BY <1>1, Pieces DEF UseInv
<1>5. Kept(FrameSize, 0) = 0 /\ Left(FrameSize) <= count
  BY <1>4
<1>6. ConvertInPlace(FrameSize, 0)
  BY <1>2, <1>5 DEF swr_convert, ConvertMoving, ConvertGrowing, ConvertRefused, Reaches
<1>7. DOMAIN buffer' = DOMAIN buffer
  BY <1>6 DEF ConvertInPlace, Store
<1>8. Len(buffer') = Len(buffer)
  BY <1>3, <1>7 DEF UseInv, Inv, TypeOK
<1>9. count' = Left(FrameSize) + Kept(FrameSize, 0) /\ failed' = failed
  BY <1>6 DEF ConvertInPlace, Done
<1>10. count \in Nat /\ packet \in 0 .. PacketSize /\ count <= FrameSize + packet
  BY DEF UseInv, Inv, TypeOK, Waiters
<1>11. packet' \in 0 .. PacketSize /\ count' <= FrameSize + packet'
  BY <1>1, <1>2, <1>4, <1>5, <1>9, <1>10
<1>12. QED
  BY <1>3, <1>8, <1>9, <1>11 DEF UseInv, Waiters, BufferBounded, NeverRefused

\* Reading the next packet changes nothing of swr.
LEMMA NextStep ==
  ASSUME UseInv, use = "loop", UNCHANGED use, NextPacket
  PROVE  UseInv'
<1>1. FrameSize \in Nat /\ PacketSize \in Nat
  BY FrameSizeAssumption, PacketSizeAssumption
<1>2. count <= FrameSize /\ packet' = 0 /\ UNCHANGED vars /\ count \in Nat
  BY DEF NextPacket, UseInv, Inv, TypeOK
<1>3. Inv'
  BY <1>2 DEF UseInv, Inv, TypeOK, InBuffer, InOrder, vars
<1>4. Waiters'
  BY <1>1, <1>2 DEF Waiters, vars
<1>5. QED
  BY <1>2, <1>3, <1>4 DEF UseInv, BufferBounded, NeverRefused, vars

\* The other callers are bound by the invariant of swr only.
LEMMA AnyStep ==
  ASSUME UseInv, AnyCall, UNCHANGED use
  PROVE  UseInv'
<1>1. Inv'
  BY InvStep DEF UseInv, AnyCall
<1>2. use' = "any" /\ packet' = packet
  BY DEF AnyCall
<1>3. QED
  BY <1>1, <1>2 DEF UseInv, Waiters, BufferBounded, NeverRefused

\* The invariant holds of every behaviour.
THEOREM UseInvariant == UseSpec => []UseInv
<1>1. UseInit => UseInv
  <2> SUFFICES ASSUME UseInit PROVE UseInv
    OBVIOUS
  <2>1. Inv
    BY InitInv DEF UseInit
  <2>2. Len(buffer) = 0 /\ count = 0 /\ packet = 0 /\ ~failed
    BY DEF UseInit, Init
  <2>3. FrameSize \in Nat /\ PacketSize \in Nat
    BY FrameSizeAssumption, PacketSizeAssumption
  <2>4. QED
    BY <2>1, <2>2, <2>3 DEF UseInv, Waiters, BufferBounded, NeverRefused
<1>2. UseInv /\ [UseNext]_uvars => UseInv'
  <2> SUFFICES ASSUME UseInv, [UseNext]_uvars PROVE UseInv'
    OBVIOUS
  <2>1. CASE UNCHANGED uvars
    BY <2>1 DEF uvars, vars, UseInv, Waiters, BufferBounded, NeverRefused,
               Inv, TypeOK, InBuffer, InOrder
  <2>2. QED
    BY <2>1, PutStep, TakeStep, NextStep, AnyStep DEF UseNext, Loop
<1>3. QED
  BY <1>1, <1>2, PTL DEF UseSpec

\* The buffer of swr holds at most four times a frame and a packet, however long
\* the input is.
THEOREM BufferBoundedAlways == UseSpec => []BufferBounded
<1>1. UseInv => BufferBounded
  BY DEF UseInv
<1>2. QED
  BY <1>1, UseInvariant, PTL

\* With a limit of that many samples swr refuses no frame of the input.
THEOREM NeverRefusedAlways == UseSpec => []NeverRefused
<1>1. UseInv => NeverRefused
  BY DEF UseInv
<1>2. QED
  BY <1>1, UseInvariant, PTL
===============================================================================
