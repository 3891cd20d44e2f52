----------------------------- MODULE SessionLock -----------------------------
(***************************************************************************)
(* The session lock: CSessionLockProtocol with its lock objects, the       *)
(* manager's current lock, the "locked" event that is sent once every      *)
(* output rendered a lock frame or five seconds have passed, and what the  *)
(* renderer puts on each output meanwhile.  Lock clients come, crash, are  *)
(* replaced, and outputs come and go, all between any two frames.          *)
(***************************************************************************)
EXTENDS Naturals

CONSTANTS
  Locks, Monitors, None,
  Settings       \* the settings a session may have

ASSUME SettingsAssumption ==
  Settings \subseteq [locks : SUBSET Locks, relock : BOOLEAN, startLocked : BOOLEAN, drop : BOOLEAN]
ASSUME NoneAssumption == None \notin Locks

VARIABLES
  setting,       \* that of this session
  locked,        \* the protocol's m_locked
  notified,      \* CLockNotifyProtocol::m_isLocked
  startLocked, startCommand,  \* m_startLocked, m_startLockedCommand is set
  state,         \* lock objects: none, alive, inert, gone
  sentLocked,    \* history: locked events sent to each
  finished,      \* history: finished was sent to each
  current,       \* m_sessionLock->lock
  sent,          \* m_sessionLock->hasSentLocked
  mapped,        \* outputs with a mapped surface in vSessionLockSurfaces
  rendered,      \* m_sessionLock->lockedMonitors
  timer,         \* m_sessionLock->sendLockedTimer is armed
  overdue,       \* m_sessionLock->lockTimer is past lockdead_screen_delay
  timedOut,      \* history: the current lock was sent locked by the timer
  active,        \* outputs that are enabled and not off by DPMS
  shown          \* what the last frame of each output shows

protocol == <<locked, notified, state, sentLocked, finished>>
manager  == <<current, sent, mapped, rendered, timer, overdue, timedOut>>
start    == <<startLocked, startCommand>>
vars == <<setting, protocol, manager, start, active, shown>>

MayRelock   == setting.relock        \* misc:allow_session_lock_restore
StartLocked == setting.startLocked   \* it starts locked, perhaps with a command
MayDrop     == setting.drop          \* surfaces may be destroyed before their lock

(* Nobody takes a lock over, and surfaces stay as long as their lock.      *)
Settled == ~ MayRelock /\ ~ StartLocked /\ ~ MayDrop

Frames == {"off", "desktop", "lock", "dead", "black"}

Init ==
  /\ setting \in Settings
  /\ locked = StartLocked /\ notified = StartLocked
  /\ startLocked = StartLocked /\ startCommand \in {FALSE, StartLocked}
  /\ state = [l \in Locks |-> "none"]
  /\ sentLocked = [l \in Locks |-> 0] /\ finished = [l \in Locks |-> FALSE]
  /\ current = None /\ sent = FALSE
  /\ mapped = {} /\ rendered = {}
  /\ timer = FALSE /\ overdue = FALSE /\ timedOut = FALSE
  /\ active = Monitors
  /\ shown = [m \in Monitors |-> "off"]

-----------------------------------------------------------------------------
(* CSessionLock::sendLocked, to the current lock, and nothing more sent.   *)
SendLocked(l) ==
  /\ sentLocked' = [sentLocked EXCEPT ![l] = @ + 1]
  /\ notified' = TRUE

(* m_sessionLock is reset; its timer goes with it, the event loop never    *)
(* calls a timer it holds the last reference of.                           *)
ResetLock ==
  /\ current' = None /\ sent' = FALSE
  /\ mapped' = {} /\ rendered' = {}
  /\ timer' = FALSE /\ overdue' = FALSE /\ timedOut' = FALSE

(* Mutant: only a lock that is there refuses another.                      *)
DeniesWhileHeld == locked /\ current # None /\ ~ MayRelock /\ ~ startCommand

(* onNewSessionLock: a locked session refuses another lock, unless         *)
(* restoring is allowed or the command of the start is still to lock.      *)
Denies == locked /\ ~ MayRelock /\ ~ startCommand

(* The old lock is still in a limbo.                                       *)
Limbo == current # None /\ ~ sent

LockDenied(l) ==
  /\ Denies
  /\ state' = [state EXCEPT ![l] = "inert"]
  /\ finished' = [finished EXCEPT ![l] = TRUE]
  /\ UNCHANGED <<sentLocked, notified, manager, start>>

LockIgnored(l) ==
  /\ ~ Denies /\ Limbo
  /\ state' = [state EXCEPT ![l] = "alive"]
  /\ UNCHANGED <<sentLocked, finished, notified, manager, start>>

LockAccepted(l) ==
  /\ ~ Denies /\ ~ Limbo
  /\ state' = [state EXCEPT ![l] = "alive"]
  /\ current' = l
  /\ mapped' = {} /\ rendered' = {} /\ overdue' = FALSE /\ timedOut' = FALSE
  /\ startLocked' = FALSE /\ startCommand' = (startCommand /\ ~ startLocked)
  /\ IF active = {}
     THEN SendLocked(l) /\ sent' = TRUE /\ timer' = FALSE
     ELSE sent' = FALSE /\ timer' = TRUE /\ UNCHANGED <<sentLocked, notified>>
  /\ UNCHANGED finished

(* CSessionLockProtocol::onLock.                                           *)
OnLock(l) ==
  /\ l \in setting.locks /\ state[l] = "none"
  /\ LockDenied(l) \/ LockIgnored(l) \/ LockAccepted(l)
  /\ locked' = TRUE
  /\ UNCHANGED <<active, shown>>

(* A surface of the current lock is mapped on an output.                   *)
MapSurface(m) ==
  /\ current # None /\ m \notin mapped
  /\ mapped' = mapped \cup {m}
  /\ UNCHANGED <<protocol, current, sent, rendered, timer, overdue, timedOut, start, active, shown>>

(* removeSessionLockSurface.                                               *)
DropSurface(m) ==
  /\ MayDrop /\ m \in mapped
  /\ mapped' = mapped \ {m}
  /\ UNCHANGED <<protocol, current, sent, rendered, timer, overdue, timedOut, start, active, shown>>

(* shallConsiderLockMissing.                                               *)
Missing == current = None \/ overdue

(* renderWorkspace stops at once, and the primer hides what was below.     *)
Hides == Missing \/ sent

(* What renderWorkspace and renderLockscreen leave on an output.           *)
Frame(m) ==
  CASE ~ locked                                 -> "desktop"
    [] locked /\ m \in mapped                    -> "lock"
    [] locked /\ m \notin mapped /\ Missing      -> "dead"
    [] locked /\ m \notin mapped /\ sent /\ ~ Missing -> "black"
    [] locked /\ m \notin mapped /\ ~ Hides      -> "desktop"

(* Mutant: an output counts once it has a surface, not a frame.            *)
AllRenderedMapped(outputs) == active \subseteq mapped

AllRendered(outputs) == active \subseteq outputs

(* Mutant: every lock frame sends the event again.                         *)
OnLockscreenRenderedAgain(m) ==
  IF current = None THEN UNCHANGED <<rendered, timer, sent, sentLocked, notified>>
  ELSE /\ rendered' = rendered \cup {m}
       /\ IF AllRendered(rendered \cup {m})
          THEN timer' = FALSE /\ sent' = TRUE /\ SendLocked(current)
          ELSE UNCHANGED <<timer, sent, sentLocked, notified>>

(* Mutant: the first lock frame stops the timer.                           *)
OnLockscreenRenderedEarly(m) ==
  IF ~ Limbo THEN UNCHANGED <<rendered, timer, sent, sentLocked, notified>>
  ELSE /\ rendered' = rendered \cup {m}
       /\ timer' = FALSE
       /\ IF AllRendered(rendered \cup {m})
          THEN sent' = TRUE /\ SendLocked(current)
          ELSE UNCHANGED <<sent, sentLocked, notified>>

(* onLockscreenRenderedOnMonitor.                                          *)
OnLockscreenRendered(m) ==
  IF ~ Limbo THEN UNCHANGED <<rendered, timer, sent, sentLocked, notified>>
  ELSE /\ rendered' = rendered \cup {m}
       /\ IF AllRendered(rendered \cup {m})
          THEN timer' = FALSE /\ sent' = TRUE /\ SendLocked(current)
          ELSE UNCHANGED <<timer, sent, sentLocked, notified>>

(* A frame of an output; one that is switched off by DPMS still renders    *)
(* while it fades.                                                         *)
Render(m) ==
  /\ shown' = [shown EXCEPT ![m] = Frame(m)]
  /\ IF Frame(m) = "lock"
     THEN OnLockscreenRendered(m)
     ELSE UNCHANGED <<rendered, timer, sent, sentLocked, notified>>
  /\ UNCHANGED <<locked, state, finished, current, mapped, overdue, timedOut, start, active>>

(* The five seconds of sendLockedTimer have passed.                        *)
SendLockedTimer ==
  /\ timer
  /\ timer' = FALSE
  /\ IF Limbo
     THEN sent' = TRUE /\ timedOut' = TRUE /\ SendLocked(current)
     ELSE UNCHANGED <<sent, timedOut, sentLocked, notified>>
  /\ UNCHANGED <<locked, state, finished, current, mapped, rendered, overdue, start, active, shown>>

LockdeadDelay ==
  /\ current # None /\ ~ overdue
  /\ overdue' = TRUE
  /\ UNCHANGED <<protocol, current, sent, mapped, rendered, timer, timedOut, start, active, shown>>

(* unlock_and_destroy of a lock that is not inert, whether or not it was   *)
(* sent locked.  Only the current lock's reaches the manager.              *)
UnlockAndDestroy(l) ==
  /\ state[l] = "alive"
  /\ locked' = FALSE /\ notified' = FALSE
  /\ state' = [state EXCEPT ![l] = "gone"]
  /\ IF l = current THEN ResetLock /\ startLocked' = FALSE
                    ELSE UNCHANGED <<manager, startLocked>>
  /\ UNCHANGED <<sentLocked, finished, startCommand, active, shown>>

(* Mutant: a lock that goes away unlocks.                                  *)
DestroyUnlocks(l) ==
  /\ state[l] \in {"alive", "inert"}
  /\ state' = [state EXCEPT ![l] = "gone"]
  /\ locked' = FALSE
  /\ IF l = current THEN ResetLock ELSE UNCHANGED manager
  /\ UNCHANGED <<notified, sentLocked, finished, start, active, shown>>

(* The lock object is destroyed otherwise: its client crashed or gave up.  *)
(* The session stays locked.                                               *)
Destroy(l) ==
  /\ state[l] \in {"alive", "inert"}
  /\ state' = [state EXCEPT ![l] = "gone"]
  /\ IF l = current THEN ResetLock ELSE UNCHANGED manager
  /\ UNCHANGED <<locked, notified, sentLocked, finished, start, active, shown>>

(* hl.clear_crashed_lockscreen and forceUnlock: no client holds the lock,  *)
(* every lock object is told that it is finished.                          *)
ForceUnlock ==
  /\ locked /\ ~ sent
  /\ locked' = FALSE /\ notified' = FALSE
  /\ state' = [l \in Locks |-> IF state[l] = "alive" THEN "inert" ELSE state[l]]
  /\ finished' = [l \in Locks |-> finished[l] \/ state[l] \in {"alive", "inert"}]
  /\ ResetLock
  /\ startLocked' = FALSE
  /\ UNCHANGED <<sentLocked, startCommand, active, shown>>

(* Outputs are enabled and disabled, or switched by DPMS.                  *)
SwitchOutput(m) ==
  /\ active' = IF m \in active THEN active \ {m} ELSE active \cup {m}
  /\ shown' = [shown EXCEPT ![m] = "off"]
  /\ UNCHANGED <<protocol, manager, start>>

Step ==
  \/ \E l \in Locks : OnLock(l) \/ UnlockAndDestroy(l) \/ Destroy(l)
  \/ \E m \in Monitors : MapSurface(m) \/ DropSurface(m) \/ Render(m) \/ SwitchOutput(m)
  \/ SendLockedTimer \/ LockdeadDelay \/ ForceUnlock

Next == Step /\ UNCHANGED setting

Spec == Init /\ [][Next]_vars

(* The event loop calls the timer; nothing is assumed of frames or clients.*)
FairSpec == Spec /\ WF_vars(SendLockedTimer /\ UNCHANGED setting)

-----------------------------------------------------------------------------
(* Every variable but the setting, which stays, in its domain; without a   *)
(* lock the manager holds nothing of one.                                  *)
TypeOK ==
  /\ {locked, notified, startLocked, startCommand} \subseteq BOOLEAN
  /\ state \in [Locks -> {"none", "alive", "inert", "gone"}]
  /\ sentLocked \in [Locks -> Nat] /\ finished \in [Locks -> BOOLEAN]
  /\ current \in Locks \cup {None}
  /\ {sent, timer, overdue, timedOut} \subseteq BOOLEAN
  /\ {mapped, rendered, active} \subseteq SUBSET Monitors
  /\ shown \in [Monitors -> Frames]
  /\ current = None => ~ sent /\ ~ timer /\ mapped = {} /\ rendered = {}

(* A lock that was sent locked before its five seconds were over covers    *)
(* every output that is on: none still shows the frame of before.  Not so  *)
(* when a lock takes over, whose grace period begins anew, or drops a      *)
(* surface.                                                                *)
Covered ==
  Settled /\ sent /\ ~ timedOut /\ locked => \A m \in active : shown[m] # "desktop"

(* A lock is sent locked at most once, whichever of the last lock frame,   *)
(* the timer and the force unlock comes first, and only while it is alive. *)
LockedOnce ==
  /\ \A l \in Locks : sentLocked[l] <= 1
  /\ current # None => state[current] = "alive" /\ (sent <=> sentLocked[current] = 1)

(* A session announced as locked, to its lock client or to those who       *)
(* listen for lock notifications, is locked and renders no workspace: "We  *)
(* stop to render workspaces as soon as the lockscreen was sent the        *)
(* "locked" [...] event" (Renderer.cpp:1106).                              *)
AnnouncedIsHidden == Settled /\ (notified \/ sent) => locked /\ Hides

(* Workspaces that are hidden stay hidden until the session is unlocked,   *)
(* through crashes of the lock client and other lock clients: "we make     *)
(* sure to stop rendering workspaces after misc:lockdead_screen_delay has  *)
(* passed" (Renderer.cpp:1107).                                            *)
HiddenStaysHidden == [][Settled /\ locked /\ Hides /\ locked' => Hides']_vars

(* A lock client is answered, unless it goes away or came while another    *)
(* lock was in a limbo, which onNewSessionLock silently ignores.           *)
Answered ==
  \A l \in Locks : (l = current /\ ~ sent) ~> (sentLocked[l] > 0 \/ state[l] # "alive")
=============================================================================
