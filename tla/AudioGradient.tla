----------------------------- MODULE AudioGradient -----------------------------
(***************************************************************************)
(* One call of audio_gradient: every frame is scaled by the value of the   *)
(* caller's function at the frame's position in the whole input.  The      *)
(* function is evaluated by smcc and is not modelled; what it is given is. *)
(***************************************************************************)
EXTENDS TwoPass

VARIABLE pos        \* samples tuned so far

gvars == << pvars, pos >>

GInit == Init /\ tool = "gradient" /\ tuned = << >> /\ pos = 0

\* Slip: the position is that of the end of the frame.
TuneAtEnd ==
  /\ tuned' = Append(tuned, << pos + Len(frame'), nframes >>)
  /\ pos' = pos + Len(frame')

\* tune(buffer, samples, ..., pos, nframes), both in samples rather than in
\* milliseconds, and the advance of pos.
Tune ==
  /\ tuned' = Append(tuned, << pos, nframes >>)
  /\ pos' = pos + Len(frame')

GNext ==
  /\ UNCHANGED tool
  /\ \/ Takes /\ Tune
     \/ /\ Others \/ BufferFrame \/ InputBuffered \/ Exit
        /\ UNCHANGED << tuned, pos >>

GSpec == GInit /\ [][GNext]_gvars

-------------------------------------------------------------------------------
(* Properties.                                                               *)

\* Every variable has its type, and what is tuned is what left swr.
GTypeOK ==
  tool = "gradient" =>
    /\ TypeOK
    /\ pos \in 0 .. nframes
    /\ tuned \in Seq(Nat \X Nat)

\* The scale of a sample depends on its own time: the k-th packet of the file
\* begins with the sample after the position the k-th frame was tuned at, and
\* the size the function was given is that of the whole input (lines 225-267).
\* The encoder delivers a frame two packets later and the first packet is
\* dropped in between.
TunedInPlace ==
  tool = "gradient" =>
    \A k \in DOMAIN file.packets :
      /\ k \in DOMAIN tuned
      /\ tuned[k][2] = nframes
      /\ file.packets[k] # << >> => file.packets[k][1] = tuned[k][1] + 1
=============================================================================
