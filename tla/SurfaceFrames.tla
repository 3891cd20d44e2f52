---------------------------- MODULE SurfaceFrames ----------------------------
(***************************************************************************)
(* A surface and the frames of the outputs it is on.  SurfaceQueue says    *)
(* what a present does; here presents come only from frames, and frames    *)
(* only from what asks for one: a state that is applied and damages the    *)
(* surface, a change of what is on screen, and anything else that draws.   *)
(* Frame callbacks would only ask for more, and are left out ("frame" is   *)
(* not one of Features).  An output is taken to render and flip what it was*)
(* asked for; OutputFrames is about that.                                  *)
(***************************************************************************)
EXTENDS SurfaceQueue

VARIABLES
  due,      \* outputs that were asked for a frame
  flipping, \* outputs with a frame committed and not presented
  view,     \* the surface is not drawn (its workspace is not on an output, or
            \* something fullscreen covers it), drawn, or its own buffer is
            \* what the output scans out
  content,  \* the kind of the buffer applied last
  unpaced   \* history: since the last present a state set the barrier and
            \* brought no frame ("bare"), or a frame left the barrier without
            \* a present ("scanout")

frames == <<due, flipping, view, content, unpaced>>
pacedVars == <<vars, frames>>

PacedInit ==
  /\ Init
  /\ due = {} /\ flipping = {} /\ view = "drawn" /\ content = "unset" /\ unpaced = {}

(* The frames that are due after a step, of those that were before.  What a*)
(* state damages is up to the client; mapping and unmapping damages what is*)
(* below as well.                                                          *)
Asked(before) ==
  IF mapped' # mapped THEN {Outputs}
  ELSE IF applied' # applied THEN {before, Outputs} ELSE {before}

(* raised: the step set a barrier that was not set.                        *)
Note(before, raised, why) ==
  unpaced' = before \cup why \cup
    (IF raised /\ due' \cup flipping' = {} /\ view # "hidden" THEN {"bare"} ELSE {})

(* The buffer of the youngest state applied in this step that brings one.  *)
Replacing ==
  LET passed == {i \in DOMAIN queue : queue[i].id <= applied' /\ queue[i].buffer # "unset"}
      direct == commits' # commits /\ applied' = commits' /\ pending.buffer # "unset"
  IN IF direct THEN pending.buffer
     ELSE IF passed = {} THEN "unset"
     ELSE queue[CHOOSE i \in passed : \A j \in passed : j <= i].buffer

(* A new buffer is not scanned out, but the one that is may come again.    *)
Follow ==
  /\ content' = IF Replacing = "unset" THEN content ELSE Replacing
  /\ \/ view # "scanned" /\ view' = view
     \/ view = "scanned" /\ mapped' /\ Replacing \in {"unset", "dmabuf"} /\ view' = view
     \/ view = "scanned" /\ (~mapped' \/ Replacing # "unset") /\ view' = "drawn"

Along ==
  /\ due' \in Asked(due)
  /\ Follow
  /\ UNCHANGED flipping
  /\ Note(unpaced, barrier' /\ ~barrier, {})

(* renderMonitor with a commit: it draws the surface or scans its buffer   *)
(* out, which shared memory cannot be.                                     *)
Render(o) ==
  /\ o \in due \ flipping
  /\ due' = due \ {o} /\ flipping' = flipping \cup {o}
  /\ \/ view' = IF view = "hidden" THEN view ELSE "drawn"
     \/ view # "hidden" /\ mapped /\ content = "dmabuf" /\ view' = "scanned"
  /\ UNCHANGED <<vars, content, unpaced>>

(* attemptDirectScanout of the buffer that is on screen: no commit and no  *)
(* present.                                                                *)
RenderSameBuffer(o) ==
  /\ o \in due \ flipping
  /\ view = "scanned"
  /\ SameBufferScanout(o) \/ (~fifoObj /\ UNCHANGED vars)
  /\ due' \in Asked(due \ {o})
  /\ Follow
  /\ UNCHANGED flipping
  /\ Note(unpaced, FALSE, IF barrier THEN {"scanout"} ELSE {})

Frame(o) == Render(o) \/ RenderSameBuffer(o)

Present(o) ==
  /\ o \in flipping
  /\ flipping' = flipping \ {o}
  /\ IF ENABLED Presented(o) THEN Presented(o) ELSE UNCHANGED vars
  /\ due' \in Asked(due)
  /\ Follow
  /\ Note({}, barrier', {})

(* The workspace is shown or goes, a window is made fullscreen: the output *)
(* is damaged as a whole.                                                  *)
ShowOrHide ==
  /\ view' = IF view = "hidden" THEN "drawn" ELSE "hidden"
  /\ due' = Outputs
  /\ UNCHANGED <<vars, flipping, content, unpaced>>

(* Whatever else is on the outputs.                                        *)
DamageElsewhere ==
  /\ due' = Outputs
  /\ UNCHANGED <<vars, flipping, view, content, unpaced>>

PacedNext ==
  \/ Offscreen /\ Along
  \/ \E o \in Outputs : Frame(o) \/ Present(o)
  \/ ShowOrHide \/ DamageElsewhere

(* Fences signal, timers fire, and an output that was asked for a frame    *)
(* renders and presents it.  No present is promised.                       *)
PacedFairness ==
  /\ \A id \in Commits :
       /\ WF_pacedVars((\E w \in waiters : w.id = id /\ FenceReadable(w)) /\ Along)
       /\ WF_pacedVars(TimerFires(id) /\ Along)
  /\ \A o \in Outputs : WF_pacedVars(Frame(o)) /\ WF_pacedVars(Present(o))

PacedSpec == PacedInit /\ [][PacedNext]_pacedVars /\ PacedFairness

-----------------------------------------------------------------------------
(* Every committed state of a surface that stays shown is applied or       *)
(* discarded in the end, as long as its client keeps its wp_fifo object,   *)
(* although the outputs present only what was asked for.  The exceptions   *)
(* are those the code names: a barrier set by a state that brings no frame *)
(* ("presented might never come because we are waiting on the barrier to   *)
(* unlock and no damage is around", Fifo.cpp:52) and a frame that passes it*)
(* without a present (Monitor.cpp:2123, and it leaves the barrier set).    *)
QueueDrains ==
  \A id \in Commits :
    id \in QueuedIds ~> id \notin QueuedIds \/ ~fifoObj \/ view = "hidden" \/ unpaced # {}
=============================================================================
