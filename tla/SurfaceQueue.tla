---------------------------- MODULE SurfaceQueue ----------------------------
(***************************************************************************)
(* One wl_surface: the client's double-buffered requests, the queue of     *)
(* committed states that wait for a fence, a presentation or a point in    *)
(* time (CSurfaceStateQueue), and everything that opens those locks.       *)
(*                                                                         *)
(* A commit is a number (its place in the client's stream).  Geometry,     *)
(* regions and pixels are left out; what remains of a state is what decides*)
(* when it is applied and what its application sets off.                   *)
(***************************************************************************)
EXTENDS Integers, Sequences, FiniteSets

CONSTANTS
  Outputs,          \* the monitors the surface is on
  MaxCommits,       \* bound: commits the client makes
  MaxFds,           \* bound: implicit-sync fds one dmabuf exports
  Features,         \* what the client uses besides attach and commit
  MayTear,          \* a monitor may go in and out of active tearing
  MayFailFd,        \* a fence fd may report an error instead of readiness
  MayUnfocus        \* the window may be hidden under render_unfocused

ASSUME OutputsAssumption == IsFiniteSet(Outputs)
ASSUME BoundsAssumption  == MaxCommits \in Nat /\ MaxFds \in Nat
ASSUME FeaturesAssumption == Features \subseteq {"frame", "fifo", "timing", "syncobj"}
ASSUME SwitchesAssumption == {MayTear, MayFailFd, MayUnfocus} \subseteq BOOLEAN

VARIABLES
  life,       \* "live", "dying" after a protocol error, "gone"
  pending,    \* m_pending, what the requests since the last commit asked for
  syncobj,    \* a linux-drm-syncobj object exists for the surface
  acquire,    \* its m_pendingAcquire (and m_pendingRelease) are set
  fifoObj,    \* a wp_fifo object exists for the surface
  queue,      \* m_stateQueue, oldest state first
  barrier,    \* m_current.barrierSet
  texture,    \* m_current.texture is not null
  callbacks,  \* m_current.callbacks, as the commits that asked for them
  mapped,     \* m_mapped
  waiters,    \* fds the event loop waits on for this surface's states
  tearing,    \* the outputs that are activelyTearing
  commits,    \* history: commits made so far
  applied,    \* history: the last commit that was applied
  discarded,  \* history: commits rejected, or cleared out of the queue
  answered,   \* history: frame callbacks that were sent
  forced,     \* history: fence locks opened without the fence
  brokenFds   \* history: commits whose fence fd failed

client == <<pending, syncobj, acquire, fifoObj>>
surface == <<queue, barrier, texture, callbacks, mapped, applied, answered>>
vars == <<life, client, surface, waiters, tearing, commits, discarded, forced,
          brokenFds>>

FENCE == "fence"
FIFO  == "fifo"
TIMER == "timer"
LockReasons == {FENCE, FIFO, TIMER}

Commits == 1..MaxCommits

(* SSurfaceState as the client fills it.  buffer: "unset" when no attach   *)
(* was made, "null" when the null buffer was attached.                     *)
PendingState ==
  [buffer : {"unset", "null", "shm", "dmabuf"}, frame : BOOLEAN,
   barrierSet : BOOLEAN, surfaceLocked : BOOLEAN, fifoScheduled : BOOLEAN,
   timeout : BOOLEAN]

(* A state in the queue.  timer: state->timer is armed in the event loop.  *)
QueuedState ==
  [id : Commits, buffer : {"unset", "shm", "dmabuf"}, frame : BOOLEAN,
   barrierSet : BOOLEAN, lockMask : SUBSET LockReasons, timer : BOOLEAN]

(* left: implicit-sync fds still to be waited for after this one.          *)
Waiter == [id : Commits, left : 0..MaxFds]

(* SSurfaceState::reset *)
ResetState ==
  [buffer |-> "unset", frame |-> FALSE, barrierSet |-> FALSE,
   surfaceLocked |-> FALSE, fifoScheduled |-> FALSE, timeout |-> FALSE]

Init ==
  /\ life = "live"
  /\ pending = ResetState
  /\ syncobj = FALSE /\ acquire = FALSE /\ fifoObj = FALSE
  /\ queue = <<>>
  /\ barrier = FALSE /\ texture = FALSE /\ callbacks = {} /\ mapped = FALSE
  /\ waiters = {} /\ tearing = {}
  /\ commits = 0 /\ applied = 0
  /\ discarded = {} /\ answered = {} /\ forced = {} /\ brokenFds = {}

QueuedIds == {queue[i].id : i \in DOMAIN queue}

(***************************************************************************)
(* The requests that fill m_pending.                                       *)
(***************************************************************************)
Request(p) ==
  /\ life = "live"
  /\ commits < MaxCommits
  /\ pending' = p
  /\ UNCHANGED <<life, syncobj, acquire, fifoObj, surface, waiters, tearing,
                 commits, discarded, forced, brokenFds>>

Attach == \E b \in {"null", "shm", "dmabuf"} :
            Request([pending EXCEPT !.buffer = b])

FrameRequest ==
  /\ "frame" \in Features
  /\ Request([pending EXCEPT !.frame = TRUE])

(* A monitor of the surface is tearing: CWLSurfaceResource::isTearing, and *)
(* the negation of CFifoResource::checkMonitors.                           *)
IsTearing == tearing # {}

SetBarrier ==
  /\ fifoObj
  /\ Request([pending EXCEPT !.barrierSet = TRUE])

(* The barrier looked at is the one of the state on screen, not the one of *)
(* the states that are still queued.                                       *)
WaitBarrier ==
  /\ fifoObj
  /\ Request(IF barrier
             THEN [pending EXCEPT !.surfaceLocked = TRUE]
             ELSE [pending EXCEPT !.fifoScheduled = @ \/ ~IsTearing])

(* A timestamp in the past leaves no timeout: the same as no request.      *)
SetTimestamp ==
  /\ "timing" \in Features /\ ~pending.timeout
  /\ Request([pending EXCEPT !.timeout = TRUE])

GetFifo ==
  /\ life = "live" /\ commits < MaxCommits
  /\ "fifo" \in Features /\ ~fifoObj
  /\ fifoObj' = TRUE
  /\ UNCHANGED <<life, pending, syncobj, acquire, surface, waiters, tearing,
                 commits, discarded, forced, brokenFds>>

(* Nothing is unlocked when the object goes.                               *)
DestroyFifo ==
  /\ life = "live"
  /\ fifoObj
  /\ fifoObj' = FALSE
  /\ UNCHANGED <<life, pending, syncobj, acquire, surface, waiters, tearing,
                 commits, discarded, forced, brokenFds>>

(* get_surface of the syncobj manager, then set_acquire_point together     *)
(* with set_release_point.                                                 *)
GetSyncobj ==
  /\ life = "live" /\ commits < MaxCommits
  /\ "syncobj" \in Features /\ ~syncobj
  /\ syncobj' = TRUE
  /\ UNCHANGED <<life, pending, acquire, fifoObj, surface, waiters, tearing,
                 commits, discarded, forced, brokenFds>>

SetAcquirePoint ==
  /\ life = "live" /\ commits < MaxCommits
  /\ syncobj /\ ~acquire
  /\ acquire' = TRUE
  /\ UNCHANGED <<life, pending, syncobj, fifoObj, surface, waiters, tearing,
                 commits, discarded, forced, brokenFds>>

(***************************************************************************)
(* tryProcess.  The loop is written as what it leaves behind: it applies   *)
(* the longest prefix of open states.                                      *)
(***************************************************************************)
(* The barrier as it stands when the loop reaches the i-th state of q.     *)
BarrierBefore(q, b, i) == b \/ \E j \in 1..(i - 1) : q[j].barrierSet

(* Mutant: tryProcess looks at the FIFO bit only.                          *)
OpenIgnoresFence(q, b, i) ==
  q[i].lockMask \ {FENCE} = {} \/ (FIFO \in q[i].lockMask /\ ~BarrierBefore(q, b, i))

(* The front state is not locked, or only by a barrier that is not set.    *)
Open(q, b, i) ==
  \/ q[i].lockMask = {}
  \/ q[i].lockMask = {FIFO} /\ ~BarrierBefore(q, b, i)

(* What is left of q when its first k states are applied: the new front    *)
(* has lost its FIFO lock too when no barrier is set.                      *)
Rest(q, b, k) ==
  [i \in 1..(Len(q) - k) |->
     IF i = 1 /\ ~BarrierBefore(q, b, k + 1)
     THEN [q[k + 1] EXCEPT !.lockMask = @ \ {FIFO}]
     ELSE q[i + k]]

(* Mutant: updateFrom assigns the callbacks instead of appending them.     *)
CommitStatesReplaces(q, b, k) ==
  /\ barrier' = BarrierBefore(q, b, k + 1)
  /\ texture' = (texture \/ \E j \in 1..k : q[j].buffer # "unset")
  /\ mapped' = IF k = 0 THEN mapped ELSE texture'
  /\ applied' = IF k = 0 THEN applied ELSE q[k].id
  /\ callbacks' = IF k > 0 /\ q[k].frame THEN {q[k].id} ELSE callbacks
  /\ UNCHANGED answered

(* commitState, k times: m_current.updateFrom, then the commit event, on   *)
(* which the role maps a surface that has a texture; map() answers the     *)
(* frame callbacks of the states applied until then.                       *)
CommitStates(q, b, k) ==
  LET Textured(i) == texture \/ \E j \in 1..i : q[j].buffer # "unset"
      asked == callbacks \cup {q[i].id : i \in {j \in 1..k : q[j].frame}}
      early == {c \in asked : \E i \in 1..k :
                  /\ ~mapped
                  /\ Textured(i)
                  /\ \A j \in 1..(i - 1) : ~Textured(j)
                  /\ c <= q[i].id}
  IN /\ barrier' = BarrierBefore(q, b, k + 1)
     /\ texture' = Textured(k)
     /\ mapped' = IF k = 0 THEN mapped ELSE Textured(k)
     /\ applied' = IF k = 0 THEN applied ELSE q[k].id
     /\ callbacks' = asked \ early
     /\ answered' = answered \cup early

TryProcess(q, b) ==
  \E k \in 0..Len(q) :
    /\ \A i \in 1..k : Open(q, b, i)
    /\ k < Len(q) => ~Open(q, b, k + 1)
    /\ queue' = Rest(q, b, k)
    /\ CommitStates(q, b, k)

(* Mutant: unlock forgets which state it was called for.                   *)
UnlockedWhoever(q, id, reason) ==
  [i \in DOMAIN q |-> [q[i] EXCEPT !.lockMask = @ \ {reason}]]

(* Mutant: unlockFirst goes on after the first one.                        *)
UnlockedAll(q, reasons) ==
  [i \in DOMAIN q |-> [q[i] EXCEPT !.lockMask = @ \ reasons]]

(* CSurfaceStateQueue::unlock and unlockFirst, up to their tryProcess.     *)
Unlocked(q, id, reason) ==
  [i \in DOMAIN q |->
     IF q[i].id = id THEN [q[i] EXCEPT !.lockMask = @ \ {reason}] ELSE q[i]]

FirstLocked(q, reasons) ==
  {i \in DOMAIN q : /\ q[i].lockMask \cap reasons # {}
                    /\ \A j \in 1..(i - 1) : q[j].lockMask \cap reasons = {}}

UnlockedFirst(q, reasons) ==
  [i \in DOMAIN q |->
     IF i \in FirstLocked(q, reasons)
     THEN [q[i] EXCEPT !.lockMask = @ \ reasons] ELSE q[i]]

(***************************************************************************)
(* wl_surface.commit                                                       *)
(***************************************************************************)
(* A precommit listener (viewporter) posts an error and rejects.           *)
CommitRejectedEarly ==
  /\ life = "live" /\ commits < MaxCommits
  /\ life' = "dying"
  /\ pending' = [pending EXCEPT !.buffer = IF @ = "unset" THEN @ ELSE "null"]
  /\ UNCHANGED <<syncobj, acquire, fifoObj, surface, waiters, tearing, commits,
                 discarded, forced, brokenFds>>

(* Mutant: the states in the queue outlive the null commit.                *)
CommitNullKeepsQueue ==
  /\ life = "live" /\ commits < MaxCommits
  /\ pending.buffer = "null"
  /\ commits' = commits + 1
  /\ barrier' = (barrier \/ pending.barrierSet)
  /\ texture' = FALSE /\ mapped' = FALSE
  /\ applied' = commits + 1
  /\ pending' = ResetState
  /\ UNCHANGED <<life, syncobj, acquire, fifoObj, queue, callbacks, answered,
                 waiters, tearing, discarded, forced, brokenFds>>

(* A null buffer is applied at once and clears the queue.                  *)
CommitNull ==
  /\ life = "live" /\ commits < MaxCommits
  /\ pending.buffer = "null"
  /\ commits' = commits + 1
  /\ barrier' = (barrier \/ pending.barrierSet)
  /\ texture' = FALSE
  /\ mapped' = FALSE
  /\ callbacks' = callbacks \cup (IF pending.frame THEN {commits + 1} ELSE {})
  /\ applied' = commits + 1
  /\ queue' = <<>>
  /\ discarded' = discarded \cup QueuedIds
  /\ pending' = ResetState
  /\ UNCHANGED <<life, syncobj, acquire, fifoObj, answered, waiters, tearing,
                 forced, brokenFds>>

(* The fifo listener of stateCommit: only a mapped surface that is not     *)
(* tearing is locked.                                                      *)
FifoLocks ==
  /\ fifoObj
  /\ pending.surfaceLocked
  /\ pending.fifoScheduled \/ ~IsTearing
  /\ mapped

(* The commit-timing listener of stateCommit2.                             *)
TimerLocks == pending.timeout /\ ~IsTearing

(* The syncobj listener of stateCommit posts an error: a buffer without an *)
(* acquire point, or an acquire point without a buffer.                    *)
SyncobjRejects == syncobj /\ (acquire # (pending.buffer # "unset"))

NewState(mask) ==
  [id |-> commits + 1, buffer |-> pending.buffer, frame |-> pending.frame,
   barrierSet |-> pending.barrierSet, timer |-> TimerLocks,
   lockMask |-> mask \cup (IF FifoLocks THEN {FIFO} ELSE {})
                     \cup (IF TimerLocks THEN {TIMER} ELSE {})]

CommitRejected ==
  /\ life = "live" /\ commits < MaxCommits
  /\ pending.buffer # "null"
  /\ SyncobjRejects
  /\ life' = "dying"
  /\ commits' = commits + 1
  /\ discarded' = discarded \cup {commits + 1}
  /\ pending' = ResetState
  /\ UNCHANGED <<syncobj, acquire, fifoObj, surface, waiters, tearing, forced,
                 brokenFds>>

Enqueue ==
  /\ life = "live" /\ commits < MaxCommits
  /\ pending.buffer # "null"
  /\ ~SyncobjRejects
  /\ commits' = commits + 1
  /\ pending' = ResetState
  /\ acquire' = FALSE
  /\ UNCHANGED <<life, syncobj, fifoObj, tearing, discarded, brokenFds>>

(* The fds the state's buffer waits for: one acquire point, or what a      *)
(* dmabuf without an acquire point exports.                                *)
FencesOf == IF acquire THEN {1}
            ELSE IF pending.buffer = "dmabuf" THEN 0..MaxFds ELSE {0}

(* Some fence is not signalled yet: the state is locked and waits.         *)
CommitWaits ==
  /\ Enqueue
  /\ \E n \in FencesOf : \E unsignalled \in 1..n :
       waiters' = waiters \cup {[id |-> commits + 1, left |-> unsignalled - 1]}
  /\ queue' = Append(queue, NewState({FENCE}))
  /\ UNCHANGED <<barrier, texture, callbacks, mapped, applied, answered, forced>>

(* No fence to wait for, or all of them signalled already: the FENCE lock, *)
(* when it was taken, is opened before commit returns.                     *)
CommitReady ==
  /\ Enqueue
  /\ TryProcess(Append(queue, NewState({})), barrier)
  /\ UNCHANGED <<waiters, forced>>

(* addWaiter on the acquire point fails: the lock is opened all the same.  *)
CommitUnwaited ==
  /\ Enqueue
  /\ acquire
  /\ forced' = forced \cup {commits + 1}
  /\ TryProcess(Append(queue, NewState({})), barrier)
  /\ UNCHANGED waiters

(***************************************************************************)
(* What opens the locks.                                                   *)
(***************************************************************************)
(* Mutant: drainSyncFds returns without waiting for the remaining fds.     *)
FenceReadableOnce(w) ==
  /\ w \in waiters
  /\ waiters' = waiters \ {w}
  /\ IF w.id \in QueuedIds /\ w.left = 0
     THEN TryProcess(Unlocked(queue, w.id, FENCE), barrier)
     ELSE UNCHANGED surface
  /\ UNCHANGED <<life, client, tearing, commits, discarded, forced, brokenFds>>

(* onFdReadable and the callback of scheduleState or drainSyncFds: wait    *)
(* for one more fd, or unlock.  A state that is gone is left alone.        *)
FenceReadable(w) ==
  /\ w \in waiters
  /\ \/ /\ w.id \in QueuedIds
        /\ \E left \in 1..w.left :
             waiters' = (waiters \ {w}) \cup {[w EXCEPT !.left = left - 1]}
        /\ UNCHANGED surface
     \/ /\ w.id \in QueuedIds
        /\ waiters' = waiters \ {w}
        /\ TryProcess(Unlocked(queue, w.id, FENCE), barrier)
     \/ /\ w.id \notin QueuedIds
        /\ waiters' = waiters \ {w}
        /\ UNCHANGED surface
  /\ UNCHANGED <<life, client, tearing, commits, discarded, forced, brokenFds>>

(* onFdReadableFail: the waiter is dropped, its function is never called.  *)
FenceFails(w) ==
  /\ MayFailFd
  /\ w \in waiters
  /\ waiters' = waiters \ {w}
  /\ brokenFds' = brokenFds \cup {w.id}
  /\ UNCHANGED <<life, client, surface, tearing, commits, discarded, forced>>

(* The commit timer of the i-th queued state.                              *)
TimerFires(id) ==
  /\ \E i \in DOMAIN queue : queue[i].id = id /\ queue[i].timer
  /\ TryProcess([i \in DOMAIN queue |->
                   IF queue[i].id = id
                   THEN [queue[i] EXCEPT !.lockMask = @ \ {TIMER}, !.timer = FALSE]
                   ELSE queue[i]], barrier)
  /\ UNCHANGED <<life, client, waiters, tearing, commits, discarded, forced,
                 brokenFds>>

(* Mutant: presented() resets the barrier and leaves the queue alone.      *)
PresentedBarrierOnly(o) ==
  /\ life # "gone" /\ fifoObj /\ o \notin tearing
  /\ barrier' = FALSE
  /\ UNCHANGED <<life, client, queue, texture, callbacks, mapped, applied,
                 answered, waiters, tearing, commits, discarded, forced, brokenFds>>

(* onMonitorPresent for a surface on the monitor: presented().             *)
Presented(o) ==
  /\ life # "gone"
  /\ fifoObj
  /\ o \notin tearing
  /\ TryProcess(UnlockedFirst(queue, {FIFO}), FALSE)
  /\ UNCHANGED <<life, client, waiters, tearing, commits, discarded, forced,
                 brokenFds>>

(* attemptDirectScanout with the buffer that is already on screen.         *)
SameBufferScanout(o) ==
  /\ life # "gone"
  /\ fifoObj /\ mapped
  /\ o \notin tearing
  /\ TryProcess(UnlockedFirst(queue, {FIFO}), barrier)
  /\ UNCHANGED <<life, client, waiters, tearing, commits, discarded, forced,
                 brokenFds>>

(* The render-unfocused timer: the first locked state loses every lock.    *)
UnfocusedTick ==
  /\ MayUnfocus
  /\ life # "gone" /\ mapped
  /\ forced' = forced \cup {queue[i].id : i \in
                 {j \in FirstLocked(queue, LockReasons) : FENCE \in queue[j].lockMask}}
  /\ TryProcess(UnlockedFirst(queue, LockReasons), barrier)
  /\ UNCHANGED <<life, client, waiters, tearing, commits, discarded, brokenFds>>

(***************************************************************************)
(* The renderer, the monitors, the end of the surface.                     *)
(***************************************************************************)
(* Mutant: frame() does not clear the callbacks it sent.                   *)
SendFrameKeeps ==
  /\ life # "gone" /\ mapped
  /\ callbacks # {}
  /\ answered' = answered \cup callbacks
  /\ UNCHANGED <<life, client, queue, barrier, texture, callbacks, mapped, applied,
                 waiters, tearing, commits, discarded, forced, brokenFds>>

SendFrame ==
  /\ life # "gone" /\ mapped
  /\ callbacks # {}
  /\ answered' = answered \cup callbacks
  /\ callbacks' = {}
  /\ UNCHANGED <<life, client, queue, barrier, texture, mapped, applied, waiters,
                 tearing, commits, discarded, forced, brokenFds>>

(* unmap() without a null commit, as XWayland does.                        *)
Unmap ==
  /\ life # "gone" /\ mapped
  /\ mapped' = FALSE
  /\ UNCHANGED <<life, client, queue, barrier, texture, callbacks, applied,
                 answered, waiters, tearing, commits, discarded, forced, brokenFds>>

ToggleTearing(o) ==
  /\ MayTear
  /\ tearing' = IF o \in tearing THEN tearing \ {o} ELSE tearing \cup {o}
  /\ UNCHANGED <<life, client, surface, waiters, commits, discarded, forced,
                 brokenFds>>

Destroy ==
  /\ life # "gone"
  /\ life' = "gone"
  /\ queue' = <<>>
  /\ mapped' = FALSE
  /\ discarded' = discarded \cup QueuedIds
  /\ UNCHANGED <<client, barrier, texture, callbacks, applied, answered, waiters,
                 tearing, commits, forced, brokenFds>>

(* What happens without a frame of an output. *)
Offscreen ==
  \/ Attach \/ FrameRequest \/ SetBarrier \/ WaitBarrier \/ SetTimestamp
  \/ GetFifo \/ DestroyFifo \/ GetSyncobj \/ SetAcquirePoint
  \/ CommitRejectedEarly \/ CommitNull \/ CommitRejected
  \/ CommitWaits \/ CommitReady \/ CommitUnwaited
  \/ \E w \in waiters : FenceReadable(w) \/ FenceFails(w)
  \/ \E id \in Commits : TimerFires(id)
  \/ \E o \in Outputs : ToggleTearing(o)
  \/ UnfocusedTick \/ SendFrame \/ Unmap \/ Destroy

Next == Offscreen \/ \E o \in Outputs : Presented(o) \/ SameBufferScanout(o)

Spec == Init /\ [][Next]_vars

-----------------------------------------------------------------------------
(* Every variable stays in the domain its C++ type and the bounds give it. *)
TypeOK ==
  /\ life \in {"live", "dying", "gone"}
  /\ pending \in PendingState
  /\ syncobj \in BOOLEAN /\ acquire \in BOOLEAN /\ fifoObj \in BOOLEAN
  /\ barrier \in BOOLEAN /\ texture \in BOOLEAN /\ mapped \in BOOLEAN
  /\ queue \in Seq(QueuedState)
  /\ callbacks \subseteq Commits /\ answered \subseteq Commits
  /\ waiters \subseteq Waiter
  /\ tearing \subseteq Outputs
  /\ commits \in 0..MaxCommits /\ applied \in 0..MaxCommits
  /\ discarded \subseteq Commits /\ forced \subseteq Commits
  /\ brokenFds \subseteq Commits

(* No missed wake-up.  tryProcess is only called from the places that open *)
(* a lock; whatever the order in which commits, fences, timers, presents   *)
(* and re-commits come, the front of the queue is never a state that could *)
(* be applied right now.                                                   *)
NoMissedWakeup == queue # <<>> => ~Open(queue, barrier, 1)

(* The queue is in commit order, and behind everything already applied, so *)
(* a state is applied at most once and never after a newer one.            *)
InCommitOrder ==
  /\ \A i, j \in DOMAIN queue : i < j => queue[i].id < queue[j].id
  /\ \A i \in DOMAIN queue : applied < queue[i].id /\ queue[i].id <= commits
  /\ applied <= commits

(* A fence or timer lock has somebody who will open it: an fd in the event *)
(* loop (or one that failed), an armed timer.  A lock whose owner is gone  *)
(* freezes the surface for good.                                           *)
LocksHaveOwners ==
  \A i \in DOMAIN queue :
    /\ FENCE \in queue[i].lockMask =>
         queue[i].id \in {w.id : w \in waiters} \cup brokenFds
    /\ TIMER \in queue[i].lockMask => queue[i].timer

(* A state was not applied while the GPU was still writing its buffer:     *)
(* whoever is still waited for is queued under a FENCE lock, or was thrown *)
(* away, or was forced through.                                            *)
FenceRespected ==
  \A w \in waiters :
    \/ w.id \in discarded \cup forced
    \/ \E i \in DOMAIN queue : queue[i].id = w.id /\ FENCE \in queue[i].lockMask

(* What makes the two inductive: numbers that were never committed are     *)
(* nowhere, an fd is waited for once, a fence that still runs locks its    *)
(* queued state, and what is waited for is not simply gone.                *)
WaitersKnown ==
  /\ \A w \in waiters : w.id <= commits /\ w.id \notin brokenFds
  /\ \A id \in brokenFds \cup discarded \cup forced : id <= commits
  /\ \A v, w \in waiters : v.id = w.id => v = w
  /\ \A w \in waiters : w.id \in QueuedIds \cup discarded \cup forced

Unready == ({w.id : w \in waiters} \cup brokenFds) \ forced

FenceHeld == \A i \in DOMAIN queue :
               queue[i].id \in Unready => FENCE \in queue[i].lockMask

IInv ==
  /\ TypeOK
  /\ NoMissedWakeup
  /\ InCommitOrder
  /\ LocksHaveOwners
  /\ WaitersKnown
  /\ FenceHeld

(* A frame callback of a commit is in exactly one place: with the queued   *)
(* state, with the current state, answered, or lost with a discarded state;*)
(* and it is not answered before its commit is applied.                    *)
CallbacksAccounted ==
  /\ callbacks \cap answered = {}
  /\ \A c \in callbacks \cup answered : c <= applied /\ c \notin discarded

(* Pacing.  Of two states locked on the barrier, the older of which sets   *)
(* it again, one step never applies both: each gets its own presentation.  *)
OneBarrierPerStep ==
  [][\A i, j \in DOMAIN queue :
       /\ i < j
       /\ queue[i].barrierSet
       /\ FIFO \in queue[j].lockMask
       /\ applied' >= queue[j].id
       => queue[j].id \in discarded']_vars

(* The surface as a client sees it.                                        *)
ContentOrder == INSTANCE ContentUpdates WITH
  Updates <- Commits,
  waiting <- [i \in DOMAIN queue |-> queue[i].id],
  shown   <- applied,
  unready <- Unready

(* Commits are applied in order, none is skipped but by a clear, none is   *)
(* applied before its fence: the abstract promise.                         *)
UpdatesSpec == ContentOrder!Spec

=============================================================================
