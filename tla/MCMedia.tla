------------------------------- MODULE MCMedia -------------------------------
(***************************************************************************)
(* A small instance for TLC of the two components that show a device's     *)
(* media, and that its removal shuts down: thumbnails and video previews.  *)
(* Neither reads what the other writes, so one of them moves in each       *)
(* behaviour.                                                              *)
(***************************************************************************)
EXTENDS ImageLoader, MediaStreams

CONSTANTS u1, p1, p2, w1, w2

VARIABLE shown   \* the one that moves

MCUdid == {u1}
MCPath == {p1, p2}
MCPreview == {w1, w2}

MCInit == LoaderInit /\ MediaInit /\ shown \in {"thumbnails", "previews"}

MCNext ==
  /\ \/ shown = "thumbnails" /\ LoaderNext /\ UNCHANGED mediaVars
     \/ shown = "previews" /\ MediaNext /\ UNCHANGED loaderVars
  /\ UNCHANGED shown

mcVars == <<loaderVars, mediaVars, shown>>

(* Of what is owed, only the scheduler's step is there from the start; it  *)
(* is not owed where thumbnails do not move.                               *)
MCSpec ==
  /\ MCInit /\ [][MCNext]_mcVars
  /\ WF_loaderVars(shown = "thumbnails" /\ SchedulerStep)
  /\ RequestFairness /\ MediaFairness

MCTypeOK == LoaderTypeOK /\ MediaTypeOK
=============================================================================
