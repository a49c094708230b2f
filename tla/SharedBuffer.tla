----------------------------- MODULE SharedBuffer -----------------------------
(***************************************************************************)
(* Calls of one audio tool and the static array buffer of its file: every  *)
(* call clears a part of the array, allocates the samples of a frame,      *)
(* stores their address in the array, lets swr_convert fill them and the   *)
(* encoder copy them frame by frame, and its destructor frees what the     *)
(* array then points at.  Calls may run on threads of their own.           *)
(*                                                                         *)
(* A block of samples is named by the call that allocated it; Wild is any  *)
(* address that is no block's.  The address is read, stored and partly     *)
(* cleared in one access each.                                             *)
(***************************************************************************)
EXTENDS Naturals

CONSTANTS
  Calls,          \* the calls
  None,           \* a null pointer
  Wild            \* an address no block begins at

ASSUME AddressAssumption == None \notin Calls /\ Wild \notin Calls /\ None # Wild

VARIABLES
  at,             \* the statement each call is at
  is_av_alloc,    \* its flag
  val,            \* the address its av_freep has read
  buffer,         \* buffer[0], which all calls share
  live,           \* the blocks allocated and not freed
  filler,         \* the call that filled each block last
  harmed,         \* calls that met a null, freed or foreign block
  overlapped      \* calls whose use of buffer overlapped another's

vars == << at, is_av_alloc, val, buffer, live, filler, harmed, overlapped >>

Init ==
  /\ at = [c \in Calls |-> "setup"]
  /\ is_av_alloc = [c \in Calls |-> FALSE]
  /\ val = [c \in Calls |-> None]
  /\ buffer = None /\ live = {}
  /\ filler = [c \in Calls |-> None]
  /\ harmed = {} /\ overlapped = {}

Goto(c, label) == at' = [at EXCEPT ![c] = label]

\* Calls that have cleared the array, until their allocation fails or their
\* destructor ends.
Using == { c \in Calls : at[c] = "alloc" \/ (is_av_alloc[c] /\ at[c] # "end") }

\* Any step before the array is cleared.
SetupFails(c) ==
  /\ at[c] = "setup"
  /\ Goto(c, "destroy")
  /\ UNCHANGED << is_av_alloc, val, buffer, live, filler, harmed, overlapped >>

\* memset clears one byte for each channel, or one: size (line 132) is no number
\* of pointers.  Of an address in buffer[0] the low bytes are lost, which leaves
\* it as it is, makes it another one, or null if eight are cleared.
Memset(c) ==
  /\ at[c] = "setup"
  /\ buffer' \in IF buffer = None THEN {None} ELSE Calls \cup {None, Wild}
  /\ overlapped' = IF Using = {} THEN overlapped
                   ELSE overlapped \cup Using \cup {c}
  /\ Goto(c, "alloc")
  /\ UNCHANGED << is_av_alloc, val, live, filler, harmed >>

AllocFails(c) ==
  /\ at[c] = "alloc"
  /\ Goto(c, "destroy")
  /\ UNCHANGED << is_av_alloc, val, buffer, live, filler, harmed, overlapped >>

Alloc(c) ==
  /\ at[c] = "alloc"
  /\ buffer' = c /\ live' = live \cup {c}
  /\ is_av_alloc' = [is_av_alloc EXCEPT ![c] = TRUE]
  /\ Goto(c, "convert")
  /\ UNCHANGED << val, filler, harmed, overlapped >>

\* swr_convert writes where buffer points.
Convert(c) ==
  /\ at[c] = "convert"
  /\ IF buffer \in live
     THEN filler' = [filler EXCEPT ![buffer] = c] /\ harmed' = harmed
     ELSE harmed' = harmed \cup {c} /\ filler' = filler
  /\ Goto(c, "send")
  /\ UNCHANGED << is_av_alloc, val, buffer, live, overlapped >>

\* avcodec_fill_audio_frame reads the address, avcodec_send_frame the samples.
SendFrame(c) ==
  /\ at[c] = "send"
  /\ harmed' = IF buffer \in live /\ filler[buffer] = c THEN harmed
               ELSE harmed \cup {c}
  /\ Goto(c, "convert")
  /\ UNCHANGED << is_av_alloc, val, buffer, live, filler, overlapped >>

\* An error, or the end of the input.
Leave(c) ==
  /\ at[c] \in {"convert", "send"}
  /\ Goto(c, "destroy")
  /\ UNCHANGED << is_av_alloc, val, buffer, live, filler, harmed, overlapped >>

\* Slip: the buffer is freed whether this call allocated it or not.
DestroyAnyway(c) ==
  /\ at[c] = "destroy"
  /\ val' = [val EXCEPT ![c] = buffer]
  /\ Goto(c, "clear")
  /\ UNCHANGED << is_av_alloc, buffer, live, filler, harmed, overlapped >>

\* The destructor: av_freep(&buffer[0]) reads the address, clears it, and frees.
Destroy(c) ==
  /\ at[c] = "destroy"
  /\ IF is_av_alloc[c]
     THEN val' = [val EXCEPT ![c] = buffer] /\ Goto(c, "clear")
     ELSE val' = val /\ Goto(c, "end")
  /\ UNCHANGED << is_av_alloc, buffer, live, filler, harmed, overlapped >>

Clear(c) ==
  /\ at[c] = "clear"
  /\ buffer' = None
  /\ Goto(c, "free")
  /\ UNCHANGED << is_av_alloc, val, live, filler, harmed, overlapped >>

\* Slip: the address is read again once it was cleared.
FreeCleared(c) ==
  /\ at[c] = "free"
  /\ harmed' = harmed
  /\ live' = live \ {buffer}
  /\ Goto(c, "end")
  /\ UNCHANGED << is_av_alloc, val, buffer, filler, overlapped >>

\* Freeing null does nothing, freeing a block twice does harm.
Free(c) ==
  /\ at[c] = "free"
  /\ harmed' = IF val[c] = None \/ val[c] \in live THEN harmed
               ELSE harmed \cup {c}
  /\ live' = live \ {val[c]}
  /\ Goto(c, "end")
  /\ UNCHANGED << is_av_alloc, val, buffer, filler, overlapped >>

Next ==
  \E c \in Calls :
    \/ SetupFails(c) \/ Memset(c) \/ AllocFails(c) \/ Alloc(c)
    \/ Convert(c) \/ SendFrame(c) \/ Leave(c)
    \/ Destroy(c) \/ Clear(c) \/ Free(c)

Spec == Init /\ [][Next]_vars

-------------------------------------------------------------------------------
(* Properties.                                                               *)

\* Every variable has its type, and only a call that allocated converts, sends or
\* frees; every call that comes as far as line 133 writes to the array.
TypeOK ==
  /\ at \in [Calls -> {"setup", "alloc", "convert", "send", "destroy", "clear",
                      "free", "end"}]
  /\ is_av_alloc \in [Calls -> BOOLEAN]
  /\ val \in [Calls -> Calls \cup {None, Wild}]
  /\ buffer \in Calls \cup {None, Wild} /\ live \subseteq Calls
  /\ filler \in [Calls -> Calls \cup {None}]
  /\ harmed \subseteq Calls /\ overlapped \subseteq Calls
  /\ \A c \in Calls :
       at[c] \in {"convert", "send", "clear", "free"} => is_av_alloc[c]

\* Two calls overlap if one clears the array (line 133) while the other is between
\* its own clearing and the failure of its allocation or the end of its
\* destructor.  A call that overlaps with no other encodes its own samples from its
\* own block, whatever calls came before it, ended and left in the array what they
\* did, or failed before line 133 around it (lines 20, 132-137, 207-216 and 259 of
\* audio_convert.cc).
UndisturbedAlone == harmed \subseteq overlapped

\* Such a call leaves no block behind when it ends: the array still points at its
\* own when its destructor frees it (lines 20, 132-137 and 259).
ReleasedAlone == \A c \in Calls \ overlapped : at[c] = "end" => c \notin live
=============================================================================
