-------------------------- MODULE SharedBufferProofs --------------------------
(***************************************************************************)
(* Any number of calls of one tool, in any order and on any threads: those *)
(* that overlap with no other between the clearing of buffer and the end   *)
(* of their destructor are not disturbed and leave nothing behind.         *)
(***************************************************************************)
EXTENDS SharedBuffer, TLAPS

\* What a call that is alone finds at each statement.
Owns(c) ==
  /\ Using = {c}
  /\ at[c] # "alloc" => c \in live
  /\ at[c] \in {"convert", "send", "destroy", "clear"} => buffer = c
  /\ at[c] = "send" => filler[c] = c
  /\ at[c] \in {"clear", "free"} => val[c] = c

\* A block is named by a call that has allocated.
BlocksOfCalls ==
  /\ \A c \in Calls : at[c] \in {"setup", "alloc"} => ~is_av_alloc[c]
  /\ \A c \in live : is_av_alloc[c]

Inv ==
  /\ TypeOK
  /\ BlocksOfCalls
  /\ \A c \in Using \ overlapped : Owns(c)
  /\ UndisturbedAlone
  /\ ReleasedAlone

\* Every step keeps the types.
LEMMA TypeStep == TypeOK /\ [Next]_vars => TypeOK'
<1> SUFFICES ASSUME TypeOK, [Next]_vars PROVE TypeOK'
  OBVIOUS
<1> USE AddressAssumption DEF TypeOK, Goto
<1>1. ASSUME NEW c \in Calls, SetupFails(c) PROVE TypeOK'
  BY <1>1 DEF SetupFails
<1>a. ASSUME NEW c \in Calls, Memset(c) PROVE TypeOK'
  BY <1>a DEF Memset, Using
<1>b. ASSUME NEW c \in Calls, AllocFails(c) PROVE TypeOK'
  BY <1>b DEF AllocFails
<1>2. ASSUME NEW c \in Calls, Alloc(c) PROVE TypeOK'
  BY <1>2 DEF Alloc
<1>3. ASSUME NEW c \in Calls, Convert(c) PROVE TypeOK'
  BY <1>3 DEF Convert
<1>4. ASSUME NEW c \in Calls, SendFrame(c) PROVE TypeOK'
  BY <1>4 DEF SendFrame
<1>5. ASSUME NEW c \in Calls, Leave(c) PROVE TypeOK'
  BY <1>5 DEF Leave
<1>6. ASSUME NEW c \in Calls, Destroy(c) PROVE TypeOK'
  BY <1>6 DEF Destroy
<1>7. ASSUME NEW c \in Calls, Clear(c) PROVE TypeOK'
  BY <1>7 DEF Clear
<1>8. ASSUME NEW c \in Calls, Free(c) PROVE TypeOK'
  BY <1>8 DEF Free
<1>9. CASE UNCHANGED vars
  BY <1>9 DEF vars
<1>10. QED
  BY <1>1, <1>a, <1>b, <1>2, <1>3, <1>4, <1>5, <1>6, <1>7, <1>8, <1>9 DEF Next

\* Every step keeps the invariant: a call that clears the array next to another
\* marks both, so that a call not marked is the only one that touches the array.
LEMMA InvStep == Inv /\ [Next]_vars => Inv'
<1> SUFFICES ASSUME Inv, [Next]_vars PROVE Inv'
  OBVIOUS
<1>0. TypeOK'
  BY TypeStep DEF Inv
<1> USE AddressAssumption, <1>0 DEF Inv, TypeOK, BlocksOfCalls, Owns, Using, UndisturbedAlone, ReleasedAlone, Goto
<1>1. ASSUME NEW c \in Calls, SetupFails(c) PROVE Inv'
  BY <1>1 DEF SetupFails
<1>a. ASSUME NEW c \in Calls, Memset(c) PROVE Inv'
  BY <1>a DEF Memset
<1>b. ASSUME NEW c \in Calls, AllocFails(c) PROVE Inv'
  BY <1>b DEF AllocFails
<1>2. ASSUME NEW c \in Calls, Alloc(c) PROVE Inv'
  BY <1>2 DEF Alloc
<1>3. ASSUME NEW c \in Calls, Convert(c) PROVE Inv'
  BY <1>3 DEF Convert
<1>4. ASSUME NEW c \in Calls, SendFrame(c) PROVE Inv'
  BY <1>4 DEF SendFrame
<1>5. ASSUME NEW c \in Calls, Leave(c) PROVE Inv'
  BY <1>5 DEF Leave
<1>6. ASSUME NEW c \in Calls, Destroy(c) PROVE Inv'
  BY <1>6 DEF Destroy
<1>7. ASSUME NEW c \in Calls, Clear(c) PROVE Inv'
  BY <1>7 DEF Clear
<1>8. ASSUME NEW c \in Calls, Free(c) PROVE Inv'
  BY <1>8 DEF Free
<1>9. CASE UNCHANGED vars
  BY <1>9 DEF vars
<1>10. QED
  BY <1>1, <1>a, <1>b, <1>2, <1>3, <1>4, <1>5, <1>6, <1>7, <1>8, <1>9 DEF Next

\* The invariant holds of every behaviour.
THEOREM SharedInvariant == Spec => []Inv
<1>1. Init => Inv
  BY AddressAssumption DEF Init, Inv, TypeOK, BlocksOfCalls, Owns, Using, UndisturbedAlone, ReleasedAlone
<1>2. QED
  BY <1>1, InvStep, PTL DEF Spec

\* Every variable has its type, and no call converts, sends or frees that has not
\* allocated.
THEOREM TypeCorrect == Spec => []TypeOK
<1>1. Inv => TypeOK
  BY DEF Inv
<1>2. QED
  BY <1>1, SharedInvariant, PTL

\* However many calls there are, one that overlaps with no other, from line 133 to
\* the end of its destructor, is not disturbed.
THEOREM UndisturbedAlways == Spec => []UndisturbedAlone
<1>1. Inv => UndisturbedAlone
  BY DEF Inv
<1>2. QED
  BY <1>1, SharedInvariant, PTL

\* However many calls there are, one that overlaps with no other releases its block.
THEOREM ReleasedAlways == Spec => []ReleasedAlone
<1>1. Inv => ReleasedAlone
  BY DEF Inv
<1>2. QED
  BY <1>1, SharedInvariant, PTL
=============================================================================
