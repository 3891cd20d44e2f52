------------------------- MODULE OutputFramesProofs -------------------------
(***************************************************************************)
(* Three promises of the frame scheduler with the conditions they need.    *)
(* With a setting that never changes, frames are blocked only while a fence*)
(* is waited for.  With frames that are never late, no buffer is painted   *)
(* while it is shown and no damage is forgotten, whatever commits fail.    *)
(* TLC shows each broken when its condition is dropped.                    *)
(***************************************************************************)
EXTENDS OutputFrames, TLAPS

(* The output's part of the types, and the steps on it.                    *)
OutputOK ==
  /\ {frameIdle, needsFrame, damaged, failed, torn} \subseteq BOOLEAN
  /\ {last, stateBuf} \subseteq Buffers
  /\ flip \in Buffers \cup {None}
  /\ stale \subseteq Buffers

LEMMA RoundRobin ==
  ASSUME NEW pos \in Buffers
  PROVE  /\ (pos + 1) % Length \in Buffers
         /\ (pos + 1) % Length # pos
         /\ Before(pos) \in Buffers
         /\ Before((pos + 1) % Length) = pos
<1>1. pos \in 0..2 /\ Length = 3
  BY DEF Buffers, Length
<1>2. CASE pos = 0
  BY <1>1, <1>2 DEF Buffers, Length, Before
<1>3. CASE pos = 1
  BY <1>1, <1>3 DEF Buffers, Length, Before
<1>4. CASE pos = 2
  BY <1>1, <1>4 DEF Buffers, Length, Before
<1> QED
  BY <1>1, <1>2, <1>3, <1>4

LEMMA CommitType ==
  ASSUME NEW buf \in Buffers, NEW pos \in Buffers,
         NEW dirty \in BOOLEAN, NEW again \in BOOLEAN, NEW idle \in BOOLEAN,
         OutputOK, Commit(buf, pos, dirty, again, idle)
  PROVE  /\ {frameIdle', needsFrame', damaged', failed'} \subseteq BOOLEAN
         /\ last' \in Buffers /\ flip' \in Buffers \cup {None}
<1>1. flip' \in Buffers \cup {None}
  BY DEF Commit, Accepted, Refused, OutputOK
<1>2. last' \in Buffers
  BY RoundRobin DEF Commit
<1>3. {frameIdle', needsFrame', damaged', failed'} \subseteq BOOLEAN
  BY DEF Commit, Accepted, Refused, Scheduled, OutputOK
<1> QED
  BY <1>1, <1>2, <1>3

LEMMA RenderType ==
  ASSUME NEW commit \in BOOLEAN, NEW idle \in BOOLEAN,
         OutputOK, RenderMonitor(commit, idle)
  PROVE  OutputOK'
<1>1. CASE Skip(idle)
  BY <1>1 DEF Skip, OutputOK
<1>2. CASE Paint(commit, idle)
  <2>1. NextBuffer \in Buffers
    BY RoundRobin DEF NextBuffer, OutputOK
  <2>2. stateBuf' \in Buffers /\ stale' \subseteq Buffers /\ torn' \in BOOLEAN
    BY <1>2, <2>1 DEF Paint, OutputOK
  <2>3. CASE commit
    <3>1. PICK again \in BOOLEAN : Commit(NextBuffer, NextBuffer, FALSE, again, idle)
      BY <1>2, <2>3 DEF Paint
    <3>2. /\ {frameIdle', needsFrame', damaged', failed'} \subseteq BOOLEAN
          /\ last' \in Buffers /\ flip' \in Buffers \cup {None}
      BY <3>1, <2>1, CommitType
    <3> QED
      BY <3>2, <2>2 DEF OutputOK
  <2>4. CASE ~ commit
    <3>1. PICK again \in BOOLEAN :
            /\ last' = NextBuffer /\ damaged' = FALSE /\ UNCHANGED <<flip, failed>>
            /\ Scheduled(again, idle, needsFrame)
      BY <1>2, <2>4 DEF Paint
    <3> QED
      BY <3>1, <2>1, <2>2 DEF Scheduled, OutputOK
  <2> QED
    BY <2>3, <2>4
<1> QED
  BY <1>1, <1>2 DEF RenderMonitor

(* The fences waited for.                                                  *)
Fences == Buffers \cup {None}

(* What is rendered and waited for is one render and one more fence.       *)
LEMMA WaitForOne ==
  ASSUME OutputOK, NEW commit, NEW idle, NEW waiting, RenderAndWait(commit, idle, waiting)
  PROVE  /\ RenderMonitor(commit, idle)
         /\ \E f \in Fences : syncs' = Append(waiting, f)
<1>1. None \in Fences /\ NextBuffer \in Fences
  BY RoundRobin DEF Fences, NextBuffer, OutputOK
<1> QED
  BY <1>1 DEF RenderAndWait, RenderMonitor

SyncsOK == syncs \in Seq(Fences) /\ Len(syncs) <= MaxSyncs

(* The fences waited for stay a bounded sequence of fences.                *)
LEMMA SyncsType ==
  ASSUME SyncsOK
  PROVE  /\ \A f \in Fences :
              Len(syncs) < MaxSyncs /\ syncs' = Append(syncs, f) => SyncsOK' /\ syncs' # <<>>
         /\ syncs # <<>> /\ syncs' = Tail(syncs) => SyncsOK'
         /\ \A f \in Fences :
              syncs # <<>> /\ syncs' = Append(Tail(syncs), f) => SyncsOK' /\ syncs' # <<>>
         /\ syncs' = syncs => SyncsOK'
<1> HIDE DEF Fences
<1>0. MaxSyncs \in Nat /\ syncs \in Seq(Fences) /\ Len(syncs) <= MaxSyncs
  BY BoundsAssumption DEF SyncsOK
<1>1. ASSUME NEW f \in Fences, Len(syncs) < MaxSyncs, syncs' = Append(syncs, f)
      PROVE  SyncsOK' /\ syncs' # <<>>
  <2>1. Append(syncs, f) \in Seq(Fences) /\ Len(Append(syncs, f)) = Len(syncs) + 1
    BY <1>0
  <2> QED
    BY <2>1, <1>0, <1>1 DEF SyncsOK, Fences
<1>2. syncs # <<>> => Tail(syncs) \in Seq(Fences) /\ Len(Tail(syncs)) = Len(syncs) - 1
  BY <1>0
<1>3. syncs # <<>> /\ syncs' = Tail(syncs) => SyncsOK'
  BY <1>2, <1>0 DEF SyncsOK, Fences
<1>4. ASSUME NEW f \in Fences, syncs # <<>>, syncs' = Append(Tail(syncs), f)
      PROVE  SyncsOK' /\ syncs' # <<>>
  <2>1. /\ Append(Tail(syncs), f) \in Seq(Fences)
        /\ Len(Append(Tail(syncs), f)) = Len(Tail(syncs)) + 1
    BY <1>2, <1>4
  <2> QED
    BY <2>1, <1>2, <1>0, <1>4 DEF SyncsOK, Fences
<1>5. syncs' = syncs => SyncsOK'
  BY <1>0 DEF SyncsOK, Fences
<1> QED
  BY <1>1, <1>3, <1>4, <1>5

-----------------------------------------------------------------------------
(* onFrame keeps the types and never leaves frames blocked: a frame event  *)
(* that renders waits for a fence.                                         *)
LEMMA FrameType ==
  ASSUME OutputOK, SyncsOK, Len(syncs) < MaxSyncs,
         scheduling \in BOOLEAN, renderAtFrame \in BOOLEAN, pendingThird \in BOOLEAN,
         OnFrame
  PROVE  /\ OutputOK' /\ SyncsOK'
         /\ UNCHANGED <<scheduling, renderAtFrame, pendingThird>>
         /\ syncs # <<>> => syncs' # <<>>
<1>1. CASE ~ scheduling /\ RenderMonitor(TRUE, FALSE) /\ UNCHANGED scheduler
  <2>1. OutputOK'
    BY <1>1, RenderType
  <2> QED
    BY <2>1, <1>1, SyncsType DEF scheduler
<1>2. CASE /\ scheduling /\ ~ renderAtFrame /\ frameIdle' = FALSE
           /\ UNCHANGED <<scheduler, needsFrame, damaged, last, stateBuf, flip, failed, stale, torn>>
  <2>1. OutputOK'
    BY <1>2 DEF OutputOK
  <2> QED
    BY <2>1, <1>2, SyncsType DEF scheduler
<1>3. CASE /\ scheduling /\ renderAtFrame /\ RenderAndWait(TRUE, FALSE, syncs)
           /\ UNCHANGED <<scheduling, renderAtFrame, pendingThird>>
  <2>1. RenderMonitor(TRUE, FALSE) /\ \E f \in Fences : syncs' = Append(syncs, f)
    BY <1>3, WaitForOne
  <2>2. OutputOK'
    BY <2>1, RenderType
  <2> QED
    BY <2>1, <2>2, <1>3, SyncsType
<1> QED
  BY <1>1, <1>2, <1>3 DEF OnFrame

TypeParts ==
  /\ setting \in Settings
  /\ {scheduling, renderAtFrame, pendingThird, later, handling} \subseteq BOOLEAN
  /\ SyncsOK /\ OutputOK
  /\ front \in Buffers
  /\ changes \in 0..MaxChanges

(* TypeOK is the conjunction of the parts the steps act on.                *)
LEMMA TypeSplits == TypeOK <=> TypeParts
BY DEF TypeOK, TypeParts, SyncsOK, OutputOK, Fences

(* Frames are blocked only while a fence is waited for.                    *)
Room == handling => Len(syncs) < MaxSyncs

BInv ==
  /\ TypeParts /\ Room
  /\ ~ MayToggle => scheduling
  /\ BlockedOnlyWhileScheduled

(* No frame is in flight at the start.                                     *)
LEMMA InitBInv == Init => BInv
<1> SUFFICES ASSUME Init PROVE BInv
  OBVIOUS
<1>1. 0 \in Buffers /\ MaxChanges \in Nat /\ MaxSyncs \in Nat
  BY BoundsAssumption DEF Buffers, Length
<1>2. <<>> \in Seq(Fences) /\ Len(<<>>) = 0
  OBVIOUS
<1>3. SyncsOK
  BY <1>1, <1>2 DEF Init, SyncsOK
<1>4. OutputOK
  BY <1>1 DEF Init, OutputOK
<1>5. setting \in Settings /\ scheduling \in BOOLEAN /\ (~ MayToggle => scheduling)
  BY DEF Init
<1>6. TypeParts /\ Room /\ BlockedOnlyWhileScheduled
  <2>0. changes \in 0..MaxChanges /\ front \in Buffers
    BY <1>1 DEF Init
  <2>b. {renderAtFrame, pendingThird, later, handling} \subseteq BOOLEAN
    BY DEF Init
  <2>1. TypeParts
    BY <2>0, <2>b, <1>3, <1>4, <1>5 DEF TypeParts
  <2>2. Room /\ BlockedOnlyWhileScheduled
    BY DEF Init, Room, BlockedOnlyWhileScheduled
  <2> QED
    BY <2>1, <2>2
<1> QED
  BY <1>1, <1>3, <1>4, <1>5, <1>6 DEF BInv

(* Every step keeps BInv, whatever the settings.                           *)
LEMMA StepBInv ==
  ASSUME BInv, [Next]_vars
  PROVE  BInv'
<1>s. setting \in Settings /\ setting' = setting
  BY DEF BInv, TypeParts, Next, vars
<1>t. /\ {scheduling, renderAtFrame, pendingThird, later, handling} \subseteq BOOLEAN
      /\ SyncsOK /\ OutputOK /\ front \in Buffers /\ changes \in 0..MaxChanges
      /\ MaxChanges \in Nat
      /\ ~ MayToggle => scheduling /\ (~ renderAtFrame => syncs # <<>>)
      /\ handling => Len(syncs) < MaxSyncs
  BY BoundsAssumption DEF BInv, TypeParts, Room, BlockedOnlyWhileScheduled
<1>r. Room'
  <2>1. CASE handling' = FALSE
    BY <2>1 DEF Room
  <2>2. CASE UNCHANGED <<handling, syncs>>
    BY <2>2 DEF Room, BInv
  <2>3. CASE PageFlip
    BY <2>3 DEF PageFlip, Room
  <2>4. CASE ~ handling /\ handling' = handling
    BY <2>4 DEF Room
  <2> QED
    BY <2>1, <2>2, <2>3, <2>4 DEF Next, vars, scheduler, FrameIdle, FrameAfterFlip,
       OnSyncFired, CommitThird, AddDamage, ScheduleFrame, Toggle, Step
<1> SUFFICES /\ {scheduling', renderAtFrame', pendingThird', later', handling'} \subseteq BOOLEAN
             /\ SyncsOK' /\ OutputOK' /\ front' \in Buffers /\ changes' \in 0..MaxChanges
             /\ ~ MayToggle => scheduling' /\ (~ renderAtFrame' => syncs' # <<>>)
  BY <1>r, <1>s DEF BInv, TypeParts, BlockedOnlyWhileScheduled, MayToggle
<1>1. CASE FrameIdle
  <2>1. CASE flip = None /\ OnFrame
    <3>1. /\ OutputOK' /\ SyncsOK'
          /\ UNCHANGED <<scheduling, renderAtFrame, pendingThird>>
          /\ syncs # <<>> => syncs' # <<>>
      BY <1>1, <2>1, <1>t, FrameType DEF FrameIdle
    <3> QED
      BY <3>1, <1>1, <1>t DEF FrameIdle
  <2>2. CASE /\ flip # None /\ frameIdle' = FALSE
             /\ UNCHANGED <<scheduler, needsFrame, damaged, last, stateBuf, flip, failed, stale, torn>>
    <3>1. OutputOK'
      BY <2>2, <1>t DEF OutputOK
    <3> QED
      BY <3>1, <1>1, <2>2, <1>t, SyncsType DEF FrameIdle, scheduler
  <2> QED
    BY <1>1, <2>1, <2>2 DEF FrameIdle
<1>2. CASE PageFlip
  <2>1. OutputOK' /\ front' \in Buffers
    BY <1>2, <1>t DEF PageFlip, OutputOK
  <2>2. {pendingThird', later'} \subseteq BOOLEAN
    BY <1>2, <1>t DEF PageFlip, OnPresented
  <2>3. handling' \in BOOLEAN
    BY <1>2, <1>t DEF PageFlip, OutputOK
  <2>4. SyncsOK'
    BY <1>2, <1>t, SyncsType DEF PageFlip
  <2> QED
    BY <2>1, <2>2, <2>3, <2>4, <1>2, <1>t DEF PageFlip
<1>3. CASE FrameAfterFlip
  <2>1. Len(syncs) < MaxSyncs
    BY <1>3, <1>t DEF FrameAfterFlip
  <2>2. /\ OutputOK' /\ SyncsOK'
        /\ UNCHANGED <<scheduling, renderAtFrame, pendingThird>>
        /\ syncs # <<>> => syncs' # <<>>
    BY <1>3, <2>1, <1>t, FrameType DEF FrameAfterFlip
  <2> QED
    BY <2>2, <1>3, <1>t DEF FrameAfterFlip
<1>4. CASE OnSyncFired
  <2>1. CASE SyncIgnored
    <3>1. OutputOK'
      BY <2>1, <1>t DEF SyncIgnored, output, OutputOK
    <3>2. SyncsOK'
      BY <1>4, <2>1, <1>t, SyncsType DEF OnSyncFired, SyncIgnored
    <3> QED
      BY <3>1, <3>2, <1>4, <2>1, <1>t DEF OnSyncFired, SyncIgnored
  <2>2. CASE SyncInTime
    <3>1. OutputOK'
      BY <2>2, <1>t DEF SyncInTime, output, OutputOK
    <3>2. SyncsOK'
      BY <1>4, <2>2, <1>t, SyncsType DEF OnSyncFired, SyncInTime
    <3> QED
      BY <3>1, <3>2, <1>4, <2>2, <1>t DEF OnSyncFired, SyncInTime
  <2>3. CASE SyncLate
    <3>1. frameIdle \in BOOLEAN
      BY <1>t DEF OutputOK
    <3>4. RenderMonitor(FALSE, frameIdle) /\ \E f \in Fences : syncs' = Append(Tail(syncs), f)
      BY <2>3, <1>t, WaitForOne DEF SyncLate
    <3>2. OutputOK'
      BY <3>1, <3>4, <1>t, RenderType
    <3>3. SyncsOK' /\ syncs' # <<>>
      BY <1>4, <3>4, <1>t, SyncsType DEF OnSyncFired
    <3> QED
      BY <3>2, <3>3, <1>4, <2>3, <1>t DEF OnSyncFired, SyncLate
  <2> QED
    BY <1>4, <2>1, <2>2, <2>3 DEF OnSyncFired
<1>5. CASE CommitThird
  <2>1. stateBuf \in Buffers /\ last \in Buffers /\ damaged \in BOOLEAN /\ frameIdle \in BOOLEAN
    BY <1>t DEF OutputOK
  <2>2. Commit(stateBuf, last, damaged, damaged', frameIdle)
    BY <1>5 DEF CommitThird
  <2>3. damaged' \in BOOLEAN
    BY <2>1, <2>2 DEF Commit
  <2>4. /\ {frameIdle', needsFrame', damaged', failed'} \subseteq BOOLEAN
        /\ last' \in Buffers /\ flip' \in Buffers \cup {None}
    BY <2>1, <2>2, <2>3, <1>t, CommitType
  <2>5. OutputOK'
    BY <2>4, <1>5, <1>t DEF CommitThird, OutputOK
  <2>6. SyncsOK'
    BY <1>5, <1>t, SyncsType DEF CommitThird, scheduler
  <2> QED
    BY <2>5, <2>6, <1>5, <1>t DEF CommitThird, scheduler
<1>6. CASE AddDamage
  <2>1. OutputOK'
    BY <1>6, <1>t DEF AddDamage, Scheduled, OutputOK
  <2>2. SyncsOK'
    BY <1>6, <1>t, SyncsType DEF AddDamage, scheduler
  <2> QED
    BY <2>1, <2>2, <1>6, <1>t DEF AddDamage, scheduler
<1>7. CASE ScheduleFrame
  <2>1. OutputOK'
    BY <1>7, <1>t DEF ScheduleFrame, Scheduled, OutputOK
  <2>2. SyncsOK'
    BY <1>7, <1>t, SyncsType DEF ScheduleFrame, scheduler
  <2> QED
    BY <2>1, <2>2, <1>7, <1>t DEF ScheduleFrame, scheduler
<1>8. CASE Toggle
  <2>1. OutputOK'
    BY <1>8, <1>t DEF Toggle, output, OutputOK
  <2>2. SyncsOK'
    BY <1>8, <1>t, SyncsType DEF Toggle
  <2> QED
    BY <2>1, <2>2, <1>8, <1>t DEF Toggle
<1>9. CASE UNCHANGED vars
  <2>1. OutputOK'
    BY <1>9, <1>t DEF vars, output, OutputOK
  <2>2. SyncsOK'
    BY <1>9, <1>t, SyncsType DEF vars, scheduler
  <2> QED
    BY <2>1, <2>2, <1>9, <1>t DEF vars, scheduler
<1> QED
  BY <1>1, <1>2, <1>3, <1>4, <1>5, <1>6, <1>7, <1>8, <1>9 DEF Next, Step

(* BInv holds in every reachable state.                                    *)
THEOREM Invariance == Spec => []BInv
<1> QED
  BY InitBInv, StepBInv, PTL DEF Spec

(* Every variable stays in its domain, whatever fails or comes late.       *)
THEOREM TypeCorrect == Spec => []TypeOK
<1>1. BInv => TypeOK
  BY TypeSplits DEF BInv
<1> QED
  BY <1>1, Invariance, PTL

(* CMonitorFrameScheduler never stops rendering, as long as                *)
(* newSchedulingEnabled keeps its answer.                                  *)
THEOREM Unblocked == Spec => []BlockedOnlyWhileScheduled
<1>1. BInv => BlockedOnlyWhileScheduled
  BY DEF BInv
<1> QED
  BY <1>1, Invariance, PTL

-----------------------------------------------------------------------------
(* Without late frames nothing is painted ahead, and the swapchain stands  *)
(* at the buffer that is shown or about to be.                             *)
InPlace ==
  /\ ~ pendingThird /\ ~ later
  /\ handling => flip = None
  /\ last = (IF flip = None THEN front ELSE flip)
  /\ ~ torn

PInv == BInv /\ InPlace

(* A frame that is painted while no flip is pending keeps the place: it is *)
(* committed, or rolled back.                                              *)
LEMMA RenderInPlace ==
  ASSUME OutputOK, front \in Buffers, flip = None, last = front, ~ torn,
         RenderMonitor(TRUE, FALSE), front' = front
  PROVE  last' = (IF flip' = None THEN front' ELSE flip') /\ ~ torn'
<1>1. CASE Skip(FALSE)
  <2>1. last' = last /\ flip' = flip /\ torn' = torn
    BY <1>1 DEF Skip
  <2> QED
    BY <2>1
<1>2. CASE Paint(TRUE, FALSE)
  <2>1. /\ NextBuffer \in Buffers /\ NextBuffer # front
        /\ Before(NextBuffer) = front /\ NextBuffer # None
    BY RoundRobin, NoneAssumption DEF NextBuffer, OutputOK
  <2>2. PICK again \in BOOLEAN : Commit(NextBuffer, NextBuffer, FALSE, again, FALSE)
    BY <1>2 DEF Paint
  <2>3. torn' = (torn \/ NextBuffer \in {front, flip})
    BY <1>2 DEF Paint
  <2>4. ~ torn'
    BY <2>1, <2>3
  <2>5. CASE Accepted(NextBuffer) /\ last' = NextBuffer
    BY <2>1, <2>4, <2>5 DEF Accepted
  <2>6. CASE Refused /\ last' = Before(NextBuffer)
    BY <2>1, <2>4, <2>6 DEF Refused
  <2> QED
    BY <2>2, <2>5, <2>6 DEF Commit
<1> QED
  BY <1>1, <1>2 DEF RenderMonitor

(* A frame event keeps the swapchain at the buffer that is, or will be,    *)
(* in front.                                                               *)
LEMMA FrameInPlace ==
  ASSUME OutputOK, front \in Buffers, flip = None, last = front, ~ torn,
         OnFrame, front' = front
  PROVE  last' = (IF flip' = None THEN front' ELSE flip') /\ ~ torn'
<1>1. CASE RenderMonitor(TRUE, FALSE)
  BY <1>1, RenderInPlace
<1>2. CASE UNCHANGED <<last, flip, torn>>
  BY <1>2
<1>3. CASE RenderAndWait(TRUE, FALSE, syncs)
  BY <1>3, WaitForOne, RenderInPlace
<1> QED
  BY <1>1, <1>2, <1>3 DEF OnFrame

(* Whether a frame may be late does not change.                            *)
LEMMA SettingStays ==
  ASSUME [Next]_vars
  PROVE  MayLate' = MayLate
  BY DEF Next, vars, MayLate

(* A frame event leaves the third frame alone.                             *)
LEMMA OnFrameKeeps ==
  ASSUME OnFrame
  PROVE  pendingThird' = pendingThird
BY DEF OnFrame, scheduler

(* With frames that are never late, every step keeps the swapchain in      *)
(* place.                                                                  *)
LEMMA StepInPlace ==
  ASSUME ~ MayLate, PInv, [Next]_vars
  PROVE  InPlace'
<1>t. /\ OutputOK /\ front \in Buffers
      /\ ~ pendingThird /\ ~ later
      /\ handling => flip = None
      /\ last = (IF flip = None THEN front ELSE flip)
      /\ ~ torn
  BY DEF PInv, BInv, TypeParts, InPlace
<1>1. CASE FrameIdle
  <2>1. CASE flip = None /\ OnFrame
    <3>1. last' = (IF flip' = None THEN front' ELSE flip') /\ ~ torn'
      BY <1>1, <2>1, <1>t, FrameInPlace DEF FrameIdle
    <3> QED
      BY <3>1, <1>1, <2>1, <1>t, OnFrameKeeps DEF FrameIdle, InPlace
  <2>2. CASE flip # None /\ UNCHANGED <<scheduler, last, flip, torn>>
    BY <1>1, <2>2, <1>t DEF FrameIdle, InPlace, scheduler
  <2> QED
    BY <1>1, <2>1, <2>2 DEF FrameIdle
<1>2. CASE PageFlip
  <2>1. last' = front' /\ flip' = None
    BY <1>2, <1>t DEF PageFlip
  <2>2. ~ pendingThird' /\ ~ later'
    BY <1>2, <1>t DEF PageFlip, OnPresented
  <2>3. torn' = torn
    BY <1>2 DEF PageFlip
  <2> QED
    BY <2>1, <2>2, <2>3, <1>t DEF InPlace
<1>3. CASE FrameAfterFlip
  <2>1. last' = (IF flip' = None THEN front' ELSE flip') /\ ~ torn'
    BY <1>3, <1>t, FrameInPlace DEF FrameAfterFlip
  <2> QED
    BY <2>1, <1>3, <1>t, OnFrameKeeps DEF FrameAfterFlip, InPlace
<1>4. CASE OnSyncFired
  <2>1. SyncIgnored \/ SyncInTime
    BY <1>4 DEF OnSyncFired, SyncLate
  <2> QED
    BY <2>1, <1>4, <1>t DEF OnSyncFired, SyncIgnored, SyncInTime, output, InPlace
<1>5. CASE CommitThird
  BY <1>5, <1>t DEF CommitThird
<1>6. CASE AddDamage \/ ScheduleFrame \/ Toggle
  <2>1. UNCHANGED <<pendingThird, later, handling, last, flip, front, torn>>
    BY <1>6 DEF AddDamage, ScheduleFrame, Toggle, scheduler, output
  <2> QED
    BY <2>1, <1>t DEF InPlace
<1>7. CASE UNCHANGED vars
  BY <1>7, <1>t DEF vars, scheduler, output, InPlace
<1> QED
  BY <1>1, <1>2, <1>3, <1>4, <1>5, <1>6, <1>7 DEF Next, Step

(* Failed commits alone never let the renderer write to the front buffer:  *)
(* the rollback of commitPendingAndDoExplicitSync is right for every frame *)
(* that is committed where it is rendered.                                 *)
THEOREM NeverTorn == Spec => []NoFrontWrites
<1> DEFINE Inv == BInv /\ (~ MayLate => PInv)
<1>1. Init => Inv
  BY InitBInv DEF Init, PInv, InPlace
<1>2. Inv /\ [Next]_vars => Inv'
  BY StepBInv, StepInPlace, SettingStays DEF PInv
<1>3. Inv => NoFrontWrites
  BY DEF PInv, InPlace, NoFrontWrites
<1> QED
  BY <1>1, <1>2, <1>3, PTL DEF Spec

-----------------------------------------------------------------------------
(* Without late frames nothing is ever blocked, and every frame event that *)
(* comes while damage waits for it renders.                                *)
DInv == PInv /\ renderAtFrame /\ DamageComing

(* A frame event renders what is damaged, or its commit fails.             *)
LEMMA FrameDamage ==
  ASSUME OutputOK, renderAtFrame, damaged => needsFrame \/ failed, OnFrame
  PROVE  renderAtFrame' /\ (damaged' => failed')
<1>1. RenderMonitor(TRUE, FALSE) /\ renderAtFrame'
  BY WaitForOne DEF OnFrame, scheduler
<1>2. CASE Skip(FALSE)
  BY <1>1, <1>2 DEF Skip
<1>3. CASE Paint(TRUE, FALSE)
  <2>1. PICK again \in BOOLEAN : Commit(NextBuffer, NextBuffer, FALSE, again, FALSE)
    BY <1>3 DEF Paint
  <2>2. damaged' = FALSE \/ failed' = TRUE
    BY <2>1 DEF Commit, Refused
  <2> QED
    BY <1>1, <2>2
<1> QED
  BY <1>1, <1>2, <1>3 DEF RenderMonitor

(* With frames that are never late, every step leaves an event for the     *)
(* damage.                                                                 *)
LEMMA StepDamage ==
  ASSUME ~ MayLate, DInv, [Next]_vars
  PROVE  renderAtFrame' /\ DamageComing'
<1>t. /\ OutputOK /\ renderAtFrame /\ ~ pendingThird /\ ~ later
      /\ damaged => \/ needsFrame /\ (frameIdle \/ flip # None \/ handling)
                    \/ failed
  BY DEF DInv, PInv, BInv, TypeParts, InPlace, DamageComing, Coming
<1>1. ASSUME OnFrame PROVE renderAtFrame' /\ DamageComing'
  <2>1. renderAtFrame' /\ (damaged' => failed')
    BY <1>t, <1>1, FrameDamage
  <2> QED
    BY <2>1 DEF DamageComing, Coming
<1>2. CASE FrameIdle
  <2>1. CASE OnFrame
    BY <1>1, <2>1
  <2>2. CASE flip # None /\ UNCHANGED <<scheduler, needsFrame, damaged, flip, failed>>
    BY <2>2, <1>t DEF scheduler, DamageComing, Coming
  <2> QED
    BY <1>2, <2>1, <2>2 DEF FrameIdle
<1>3. CASE PageFlip
  <2>1. /\ handling' = ~ frameIdle
        /\ UNCHANGED <<renderAtFrame, frameIdle, needsFrame, damaged, failed>>
    BY <1>3 DEF PageFlip
  <2> QED
    BY <2>1, <1>t DEF DamageComing, Coming, OutputOK
<1>4. CASE FrameAfterFlip
  BY <1>1, <1>4 DEF FrameAfterFlip
<1>5. CASE OnSyncFired
  <2>1. SyncIgnored \/ SyncInTime
    BY <1>5 DEF OnSyncFired, SyncLate
  <2>2. /\ renderAtFrame'
        /\ UNCHANGED <<frameIdle, needsFrame, damaged, flip, failed, later, handling>>
    BY <2>1, <1>5, <1>t DEF OnSyncFired, SyncIgnored, SyncInTime, output
  <2> QED
    BY <2>2, <1>t DEF DamageComing, Coming
<1>6. CASE CommitThird
  BY <1>6, <1>t DEF CommitThird
<1>7. CASE AddDamage \/ ScheduleFrame
  <2>1. /\ UNCHANGED <<renderAtFrame, flip>>
        /\ Scheduled(TRUE, frameIdle, needsFrame)
    BY <1>7 DEF AddDamage, ScheduleFrame, scheduler
  <2>2. needsFrame' /\ (frameIdle' \/ flip' # None)
    BY <2>1 DEF Scheduled
  <2> QED
    BY <2>1, <2>2, <1>t DEF DamageComing, Coming
<1>8. CASE Toggle \/ UNCHANGED vars
  <2>1. UNCHANGED <<renderAtFrame, frameIdle, needsFrame, damaged, flip, failed,
                    later, handling>>
    BY <1>8 DEF Toggle, vars, scheduler, output
  <2> QED
    BY <2>1, <1>t DEF DamageComing, Coming
<1> QED
  BY <1>2, <1>3, <1>4, <1>5, <1>6, <1>7, <1>8 DEF Next, Step

(* Damage waits for a frame event that is coming, or for the one commit    *)
(* that failed: without late frames none of the three sources of frame     *)
(* events is lost to another.                                              *)
THEOREM DamageNeverForgotten == Spec => []DamageComing
<1> DEFINE Inv == BInv /\ (~ MayLate => DInv)
<1>1. Init => Inv
  BY InitBInv DEF Init, DInv, PInv, InPlace, DamageComing
<1>2. Inv /\ [Next]_vars => Inv'
  BY StepBInv, StepInPlace, StepDamage, SettingStays DEF DInv, PInv
<1>3. Inv => DamageComing
  BY DEF DInv, DamageComing
<1> QED
  BY <1>1, <1>2, <1>3, PTL DEF Spec
=============================================================================
