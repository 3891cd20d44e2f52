---------------------------- MODULE OutputFrames ----------------------------
(***************************************************************************)
(* How a monitor gets its frames: CMonitorFrameScheduler, the parts of     *)
(* renderMonitor that acquire, paint, commit and roll back buffers, and    *)
(* the output they drive.  Each frame asks for the next one through events *)
(* of three sources (the page flip, the render fence, the idle queue), and *)
(* a frame that takes longer than a refresh is painted ahead and committed *)
(* later.  What the swapchain's buffers must be repainted with is          *)
(* DamageRing; here a frame is painted completely.                         *)
(***************************************************************************)
EXTENDS Integers, Sequences

CONSTANTS
  None,
  Settings,     \* the settings to look at, see setting
  MaxChanges,   \* bound: damage
  MaxSyncs      \* bound: render fences waited for

ASSUME SettingsAssumption ==
  Settings \subseteq [late : BOOLEAN, fail : BOOLEAN, toggle : BOOLEAN]
ASSUME BoundsAssumption == MaxChanges \in Nat /\ MaxSyncs \in Nat \ {0}

Length  == 3                 \* updateSwapchain asks for three buffers
Buffers == 0..(Length - 1)

ASSUME NoneAssumption == None \notin Buffers

VARIABLES
  setting,        \* what the machine and its user are like, see below
  scheduling,     \* newSchedulingEnabled()
  renderAtFrame,  \* m_renderAtFrame
  pendingThird,   \* m_pendingThird
  syncs,          \* the fences waited for, oldest first: what they render
  later,          \* onPresented's commit is in the idle queue
  handling,       \* the flip was presented, its frame event comes next
  frameIdle,      \* the output has a frame event in the idle queue
  needsFrame,     \* m_output->needsFrame
  damaged,        \* m_damage.hasChanged()
  last,           \* the swapchain's position
  stateBuf,       \* the buffer of the output's pending state
  flip,           \* the committed buffer whose page flip is awaited, or None
  front,          \* the buffer on the screen
  failed,         \* history: the last commit failed
  stale,          \* ghost: buffers without the newest content
  torn,           \* history: a buffer was painted while shown or committed
  changes         \* how often there was damage

scheduler == <<scheduling, renderAtFrame, pendingThird, syncs>>
output    == <<frameIdle, needsFrame, damaged, last, stateBuf, flip, failed, stale, torn>>
vars == <<setting, scheduler, output, later, handling, front, changes>>

(* A render may take longer than a refresh; a commit may fail for other    *)
(* reasons than a pending flip; newSchedulingEnabled may change, by        *)
(* configuration or direct scanout.                                        *)
MayLate   == setting.late
MayFail   == setting.fail
MayToggle == setting.toggle

Init ==
  /\ setting \in Settings
  /\ scheduling \in (IF MayToggle THEN BOOLEAN ELSE {TRUE})
  /\ renderAtFrame = TRUE /\ pendingThird = FALSE /\ syncs = <<>>
  /\ later = FALSE /\ handling = FALSE
  /\ frameIdle = FALSE /\ needsFrame = FALSE /\ damaged = FALSE
  /\ last = 0 /\ stateBuf = 0 /\ flip = None /\ front = 0
  /\ failed = FALSE /\ stale = Buffers \ {0} /\ torn = FALSE
  /\ changes = 0

(* swapchain->next and swapchain->rollback: round robin.                   *)
NextBuffer  == (last + 1) % Length
Before(pos) == (pos + Length - 1) % Length

-----------------------------------------------------------------------------
(* IOutput::scheduleFrame: a frame event from the idle queue, unless one is*)
(* there (idle) or a page flip will bring one.  kept: needsFrame before.   *)
Scheduled(wanted, idle, kept) ==
  /\ needsFrame' = (wanted \/ kept)
  /\ frameIdle' = (idle \/ (wanted /\ flip' = None))

(* IOutput::commit of buf.  No commit while a flip is pending; one without *)
(* a new buffer may not flip.                                              *)
Accepted(buf) ==
  /\ flip = None
  /\ flip' \in {buf} \cup (IF buf = front THEN {None} ELSE {})
  /\ failed' = FALSE

Refused == (flip # None \/ MayFail) /\ failed' = TRUE /\ UNCHANGED flip

(* Mutant: the failure path forgets the swapchain.                         *)
CommitWithoutRollback(buf, pos, dirty, again, idle) ==
  \/ Accepted(buf) /\ last' = pos /\ damaged' = dirty /\ Scheduled(again, idle, FALSE)
  \/ Refused /\ last' = pos /\ damaged' = TRUE /\ Scheduled(again, idle, needsFrame)

(* commitPendingAndDoExplicitSync with the swapchain at pos: when both     *)
(* attempts fail it rolls back one buffer and damages the monitor.  Only a *)
(* commit that succeeds clears needsFrame.  again: a frame is scheduled    *)
(* after it.                                                               *)
Commit(buf, pos, dirty, again, idle) ==
  \/ Accepted(buf) /\ last' = pos /\ damaged' = dirty /\ Scheduled(again, idle, FALSE)
  \/ Refused /\ last' = Before(pos) /\ damaged' = TRUE /\ Scheduled(again, idle, needsFrame)

(* renderMonitor does nothing without needsFrame, but when full frames are *)
(* forced.                                                                 *)
Skip(idle) ==
  /\ ~ needsFrame
  /\ frameIdle' = idle
  /\ UNCHANGED <<needsFrame, damaged, last, stateBuf, flip, failed, stale, torn>>

(* Otherwise it paints the next buffer and, unless that is left to         *)
(* onPresented, commits it.  again: m_pendingFrame was set meanwhile.      *)
Paint(commit, idle) ==
  /\ stateBuf' = NextBuffer
  /\ stale' = stale \ {NextBuffer}
  /\ torn' = (torn \/ NextBuffer \in {front, flip})
  /\ \E again \in BOOLEAN :
       IF commit
       THEN Commit(NextBuffer, NextBuffer, FALSE, again, idle)
       ELSE /\ last' = NextBuffer /\ damaged' = FALSE /\ UNCHANGED <<flip, failed>>
            /\ Scheduled(again, idle, needsFrame)

RenderMonitor(commit, idle) == Skip(idle) \/ Paint(commit, idle)

(* renderMonitor and then onFinishRender, which waits for the fence of what*)
(* was just submitted, behind the fences it waits for already.             *)
RenderAndWait(commit, idle, waiting) ==
  \/ Skip(idle) /\ syncs' = Append(waiting, None)
  \/ Paint(commit, idle) /\ syncs' = Append(waiting, NextBuffer)

(* onFrame, for a monitor that can render and does not tear.               *)
OnFrame ==
  \/ /\ ~ scheduling
     /\ RenderMonitor(TRUE, FALSE)
     /\ UNCHANGED scheduler
  \/ /\ scheduling /\ ~ renderAtFrame
     /\ frameIdle' = FALSE
     /\ UNCHANGED <<scheduler, needsFrame, damaged, last, stateBuf, flip, failed, stale, torn>>
  \/ /\ scheduling /\ renderAtFrame
     /\ RenderAndWait(TRUE, FALSE, syncs)
     /\ UNCHANGED <<scheduling, renderAtFrame, pendingThird>>

(* The output's frame event from the idle queue; a pending flip drops it.  *)
FrameIdle ==
  /\ frameIdle /\ ~ handling /\ Len(syncs) < MaxSyncs
  /\ \/ flip = None /\ OnFrame
     \/ /\ flip # None
        /\ frameIdle' = FALSE
        /\ UNCHANGED <<scheduler, needsFrame, damaged, last, stateBuf, flip, failed, stale, torn>>
  /\ UNCHANGED <<later, handling, front, changes>>

(* onPresented: the third frame's commit is left to the idle queue.        *)
OnPresented ==
  IF scheduling /\ pendingThird
  THEN pendingThird' = FALSE /\ later' = TRUE
  ELSE UNCHANGED <<pendingThird, later>>

(* The page flip: the present event, and in the same call a frame event,   *)
(* unless one is in the idle queue.  The idle queue has run since the last *)
(* flip, and the fence of what is shown was reported before.               *)
PageFlip ==
  /\ flip # None /\ ~ handling /\ ~ later /\ Len(syncs) < MaxSyncs
  /\ \A i \in 1..Len(syncs) : syncs[i] # flip
  /\ front' = flip /\ flip' = None
  /\ handling' = ~ frameIdle
  /\ OnPresented
  /\ UNCHANGED <<scheduling, renderAtFrame, syncs, changes>>
  /\ UNCHANGED <<frameIdle, needsFrame, damaged, last, stateBuf, failed, stale, torn>>

FrameAfterFlip ==
  /\ handling
  /\ handling' = FALSE
  /\ OnFrame
  /\ UNCHANGED <<later, front, changes>>

(* onSyncFired.                                                            *)
SyncIgnored ==
  /\ ~ scheduling
  /\ syncs' = Tail(syncs)
  /\ UNCHANGED <<scheduling, renderAtFrame, pendingThird, output>>

SyncInTime ==
  /\ scheduling
  /\ renderAtFrame' = TRUE
  /\ syncs' = Tail(syncs)
  /\ UNCHANGED <<scheduling, pendingThird, output>>

(* Mutant: no fence is waited for after painting ahead.                    *)
SyncLateOnly ==
  /\ scheduling /\ MayLate
  /\ pendingThird' = TRUE
  /\ renderAtFrame' = FALSE
  /\ RenderMonitor(FALSE, frameIdle)
  /\ syncs' = Tail(syncs)
  /\ UNCHANGED scheduling

(* Too late: the next frame is painted at once, if one is needed.  Nobody  *)
(* asks what the fence was of: there may be no flip to wait for, or a frame*)
(* painted ahead already.                                                  *)
SyncLate ==
  /\ scheduling /\ MayLate
  /\ pendingThird' = TRUE
  /\ renderAtFrame' = FALSE
  /\ RenderAndWait(FALSE, frameIdle, Tail(syncs))
  /\ UNCHANGED scheduling

OnSyncFired ==
  /\ syncs # <<>> /\ ~ handling
  /\ SyncIgnored \/ SyncInTime \/ SyncLate
  /\ UNCHANGED <<later, handling, front, changes>>

(* The commit that onPresented left: what was damaged since is scheduled.  *)
CommitThird ==
  /\ later /\ ~ handling
  /\ later' = FALSE
  /\ Commit(stateBuf, last, damaged, damaged', frameIdle)
  /\ UNCHANGED <<scheduler, stateBuf, stale, torn, handling, front, changes>>

(* Mutant: between two flips nothing is scheduled, a frame comes anyway.   *)
AddDamageBetweenFlips ==
  /\ changes < MaxChanges /\ ~ handling
  /\ changes' = changes + 1
  /\ damaged' = TRUE
  /\ stale' = Buffers
  /\ UNCHANGED <<scheduler, last, stateBuf, flip, failed, torn, later, handling, front>>
  /\ Scheduled(flip = None, frameIdle, needsFrame)

(* CMonitor::addDamage, and scheduleFrame for other reasons.               *)
AddDamage ==
  /\ changes < MaxChanges /\ ~ handling
  /\ changes' = changes + 1
  /\ damaged' = TRUE
  /\ stale' = Buffers
  /\ UNCHANGED <<scheduler, last, stateBuf, flip, failed, torn, later, handling, front>>
  /\ Scheduled(TRUE, frameIdle, needsFrame)

ScheduleFrame ==
  /\ ~ handling
  /\ UNCHANGED <<scheduler, damaged, last, stateBuf, flip, failed, stale, torn, later, handling, front, changes>>
  /\ Scheduled(TRUE, frameIdle, needsFrame)

Toggle ==
  /\ MayToggle /\ ~ handling
  /\ scheduling' = ~ scheduling
  /\ UNCHANGED <<renderAtFrame, pendingThird, syncs, output, later, handling, front, changes>>

Step ==
  \/ FrameIdle \/ PageFlip \/ FrameAfterFlip \/ OnSyncFired \/ CommitThird
  \/ AddDamage \/ ScheduleFrame \/ Toggle

Next == Step /\ UNCHANGED setting

Spec == Init /\ [][Next]_vars

(* Flips, fences and the idle queue are always served.                     *)
Fairness ==
  /\ WF_vars(FrameIdle /\ UNCHANGED setting) /\ WF_vars(PageFlip /\ UNCHANGED setting)
  /\ WF_vars(FrameAfterFlip /\ UNCHANGED setting) /\ WF_vars(OnSyncFired /\ UNCHANGED setting)
  /\ WF_vars(CommitThird /\ UNCHANGED setting)

FairSpec == Spec /\ Fairness

-----------------------------------------------------------------------------
(* Every variable in its domain.                                           *)
TypeOK ==
  /\ setting \in Settings
  /\ {scheduling, renderAtFrame, pendingThird} \subseteq BOOLEAN
  /\ syncs \in Seq(Buffers \cup {None}) /\ Len(syncs) <= MaxSyncs
  /\ {later, handling, frameIdle, needsFrame, damaged, failed, torn} \subseteq BOOLEAN
  /\ {last, stateBuf, front} \subseteq Buffers
  /\ flip \in Buffers \cup {None}
  /\ stale \subseteq Buffers
  /\ changes \in 0..MaxChanges

(* Frames are blocked only as long as a fence is waited for that unblocks  *)
(* them.  Otherwise no frame event would ever render again: "block frame   *)
(* rendering, we already scheduled" (MonitorFrameScheduler.cpp:39).  It    *)
(* needs a newSchedulingEnabled that keeps its answer.                     *)
BlockedOnlyWhileScheduled == scheduling /\ ~ renderAtFrame /\ ~ MayToggle => syncs # <<>>

(* Without late frames damage is never left without an event that will     *)
(* render it, but after a commit that failed, which damages the monitor and*)
(* schedules nothing.  A late frame after which nothing needs painting     *)
(* breaks this: frames are blocked, since "we already scheduled"           *)
(* (MonitorFrameScheduler.cpp:39), and the event of the next damage is     *)
(* dropped.                                                                *)
Coming == needsFrame /\ (frameIdle \/ flip # None \/ later \/ handling)
DamageComing == damaged /\ ~ MayLate => Coming \/ failed

(* Without late frames no buffer is painted while it is on the screen or   *)
(* about to be: commits that fail roll the swapchain back "to avoid writing*)
(* to the front buffer that is being displayed" (Renderer.cpp:2453).       *)
NoFrontWrites == torn => MayLate

(* The newest content reaches the screen, although nobody but damage asks  *)
(* for frames, as long as none is late, commits succeed and                *)
(* newSchedulingEnabled keeps its answer.                                  *)
Smooth == ~ MayLate /\ ~ MayFail /\ ~ MayToggle
DamageShown == (front \in stale /\ Smooth) ~> (front \notin stale)
=============================================================================
