-------------------------- MODULE SessionLockProofs --------------------------
(***************************************************************************)
(* Proofs about SessionLock: types and the single "locked" event hold for  *)
(* every setting; that an announced lock hides the workspaces, covers      *)
(* every output and keeps them hidden is proved for a session that no      *)
(* second lock client may take over.                                       *)
(***************************************************************************)
EXTENDS SessionLock, TLAPS

(* A lock object no client has asked for yet was sent nothing.             *)
Unasked == \A l \in Locks : state[l] = "none" => sentLocked[l] = 0

(* The inductive invariant for every setting.                              *)
SentInv == TypeOK /\ LockedOnce /\ Unasked

(* The only lock that is alive is the manager's, in a locked session;      *)
(* every output that was counted is on with a lock frame or was switched.  *)
Alone ==
  /\ ~ startCommand
  /\ current # None => locked
  /\ \A l \in Locks : state[l] = "alive" => l = current
  /\ rendered \subseteq mapped
  /\ \A m \in rendered : m \in active => shown[m] # "desktop"
  /\ notified => locked /\ Hides

HeldInv == SentInv /\ Alone /\ Covered

-----------------------------------------------------------------------------
(* Without assumptions on the settings a step keeps the types.             *)
LEMMA InitSentInv == Init => SentInv
<1> SUFFICES ASSUME Init PROVE SentInv
  OBVIOUS
<1>1. StartLocked \in BOOLEAN
  BY SettingsAssumption DEF Init, StartLocked
<1>2. {locked, notified, startLocked, startCommand} \subseteq BOOLEAN
  BY <1>1 DEF Init
<1>3. {sent, timer, overdue, timedOut} \subseteq BOOLEAN /\ {mapped, rendered, active} \subseteq SUBSET Monitors
  BY DEF Init
<1>4. /\ state \in [Locks -> {"none", "alive", "inert", "gone"}]
      /\ sentLocked \in [Locks -> Nat] /\ finished \in [Locks -> BOOLEAN]
      /\ shown \in [Monitors -> Frames]
  BY DEF Init, Frames
<1>5. LockedOnce /\ Unasked
  BY DEF Init, LockedOnce, Unasked
<1> QED
  BY <1>2, <1>3, <1>4, <1>5 DEF Init, SentInv, TypeOK

(* The first "locked" event of a lock makes one, and of no other lock.     *)
LEMMA SendIsFirst ==
  ASSUME SentInv, NEW l \in Locks, sentLocked[l] = 0, SendLocked(l)
  PROVE  /\ sentLocked' \in [Locks -> Nat] /\ notified' \in BOOLEAN
         /\ sentLocked'[l] = 1
         /\ \A k \in Locks : k # l => sentLocked'[k] = sentLocked[k]
         /\ \A k \in Locks : sentLocked'[k] <= 1
  BY DEF SentInv, TypeOK, LockedOnce, SendLocked

(* A lock in a limbo is alive and was sent nothing.                        *)
LEMMA LimboUnsent ==
  ASSUME SentInv, Limbo
  PROVE  current \in Locks /\ state[current] = "alive" /\ sentLocked[current] = 0
  BY NoneAssumption DEF SentInv, TypeOK, LockedOnce, Limbo

(* A reset leaves nothing of the lock with the manager.                    *)
LEMMA CleanReset ==
  ASSUME ResetLock
  PROVE  /\ current' = None /\ ~ sent' /\ ~ timer'
         /\ mapped' = {} /\ rendered' = {}
         /\ {sent', timer', overdue', timedOut'} \subseteq BOOLEAN
  BY DEF ResetLock

(* Every step keeps SentInv.                                               *)
LEMMA StepSentInv == SentInv /\ [Next]_vars => SentInv'
<1> SUFFICES ASSUME SentInv, [Next]_vars PROVE SentInv'
  OBVIOUS
<1> USE NoneAssumption
<1>1. CASE \E l \in Locks : OnLock(l)
  <2> PICK l \in Locks : OnLock(l) BY <1>1
  <2>1. state[l] = "none" /\ sentLocked[l] = 0 /\ l # current
    BY DEF OnLock, SentInv, Unasked, TypeOK, LockedOnce
  <2>2. CASE LockDenied(l)
    BY <2>1, <2>2 DEF OnLock, LockDenied, SentInv, TypeOK, LockedOnce, Unasked, manager, start
  <2>3. CASE LockIgnored(l)
    BY <2>1, <2>3 DEF OnLock, LockIgnored, SentInv, TypeOK, LockedOnce, Unasked, manager, start
  <2>4. CASE LockAccepted(l) /\ active = {}
    <3>1. SendLocked(l) /\ sent' = TRUE /\ timer' = FALSE
      BY <2>4 DEF LockAccepted
    <3>2. /\ sentLocked' \in [Locks -> Nat] /\ notified' \in BOOLEAN
          /\ sentLocked'[l] = 1
          /\ \A k \in Locks : k # l => sentLocked'[k] = sentLocked[k]
          /\ \A k \in Locks : sentLocked'[k] <= 1
      BY <2>1, <3>1, SendIsFirst
    <3>3. LockedOnce' /\ Unasked'
      BY <2>1, <2>4, <3>1, <3>2 DEF OnLock, LockAccepted, SentInv, TypeOK, LockedOnce, Unasked
    <3>4. {locked', notified', startLocked', startCommand'} \subseteq BOOLEAN
      BY <2>4, <3>2 DEF OnLock, LockAccepted, SentInv, TypeOK
    <3>5. /\ state' \in [Locks -> {"none", "alive", "inert", "gone"}]
          /\ finished' \in [Locks -> BOOLEAN] /\ current' = l
          /\ shown' \in [Monitors -> Frames]
      BY <2>4 DEF OnLock, LockAccepted, SentInv, TypeOK
    <3>6. /\ {sent', timer', overdue', timedOut'} \subseteq BOOLEAN
          /\ {mapped', rendered', active'} \subseteq SUBSET Monitors
      BY <2>4, <3>1 DEF OnLock, LockAccepted, SentInv, TypeOK
    <3> QED
      BY <3>2, <3>3, <3>4, <3>5, <3>6 DEF SentInv, TypeOK
  <2>5. CASE LockAccepted(l) /\ active # {}
    <3>1. LockedOnce' /\ Unasked'
      BY <2>1, <2>5 DEF OnLock, LockAccepted, SentInv, TypeOK, LockedOnce, Unasked
    <3>2. {locked', notified', startLocked', startCommand'} \subseteq BOOLEAN
      BY <2>5 DEF OnLock, LockAccepted, SentInv, TypeOK
    <3>3. /\ state' \in [Locks -> {"none", "alive", "inert", "gone"}]
          /\ sentLocked' \in [Locks -> Nat] /\ finished' \in [Locks -> BOOLEAN]
          /\ current' = l /\ shown' \in [Monitors -> Frames]
      BY <2>5 DEF OnLock, LockAccepted, SentInv, TypeOK
    <3>4. /\ {sent', timer', overdue', timedOut'} \subseteq BOOLEAN
          /\ {mapped', rendered', active'} \subseteq SUBSET Monitors
      BY <2>5 DEF OnLock, LockAccepted, SentInv, TypeOK
    <3> QED
      BY <3>1, <3>2, <3>3, <3>4 DEF SentInv, TypeOK
  <2> QED
    BY <2>2, <2>3, <2>4, <2>5 DEF OnLock
<1>2. CASE \E l \in Locks : UnlockAndDestroy(l)
  <2> PICK l \in Locks : UnlockAndDestroy(l) BY <1>2
  <2>1. /\ {locked', notified', startLocked', startCommand'} \subseteq BOOLEAN
        /\ state' = [state EXCEPT ![l] = "gone"] /\ state[l] # "none"
        /\ UNCHANGED <<sentLocked, finished, active, shown>>
    BY DEF UnlockAndDestroy, SentInv, TypeOK
  <2>2. Unasked'
    BY <2>1 DEF SentInv, TypeOK, Unasked
  <2>3. CASE l = current
    <3>1. ResetLock
      BY <2>3 DEF UnlockAndDestroy
    <3> QED
      BY <2>1, <2>2, <3>1, CleanReset DEF SentInv, TypeOK, LockedOnce
  <2>4. CASE l # current
    <3>1. UNCHANGED <<current, sent, mapped, rendered, timer, overdue, timedOut>>
      BY <2>4 DEF UnlockAndDestroy, manager
    <3> QED
      BY <2>1, <2>2, <2>4, <3>1 DEF SentInv, TypeOK, LockedOnce
  <2> QED
    BY <2>3, <2>4
<1>3. CASE \E l \in Locks : Destroy(l)
  <2> PICK l \in Locks : Destroy(l) BY <1>3
  <2>1. /\ {locked', notified', startLocked', startCommand'} \subseteq BOOLEAN
        /\ state' = [state EXCEPT ![l] = "gone"] /\ state[l] # "none"
        /\ UNCHANGED <<sentLocked, finished, active, shown>>
    BY DEF Destroy, SentInv, TypeOK, start
  <2>2. Unasked'
    BY <2>1 DEF SentInv, TypeOK, Unasked
  <2>3. CASE l = current
    <3>1. ResetLock
      BY <2>3 DEF Destroy
    <3> QED
      BY <2>1, <2>2, <3>1, CleanReset DEF SentInv, TypeOK, LockedOnce
  <2>4. CASE l # current
    <3>1. UNCHANGED <<current, sent, mapped, rendered, timer, overdue, timedOut>>
      BY <2>4 DEF Destroy, manager
    <3> QED
      BY <2>1, <2>2, <2>4, <3>1 DEF SentInv, TypeOK, LockedOnce
  <2> QED
    BY <2>3, <2>4
<1>4. CASE \E m \in Monitors : MapSurface(m)
  BY <1>4 DEF MapSurface, SentInv, TypeOK, LockedOnce, Unasked, protocol, start
<1>5. CASE \E m \in Monitors : DropSurface(m)
  BY <1>5 DEF DropSurface, SentInv, TypeOK, LockedOnce, Unasked, protocol, start
<1>6. CASE \E m \in Monitors : Render(m)
  <2> PICK m \in Monitors : Render(m) BY <1>6
  <2>1. Frame(m) \in Frames /\ shown' \in [Monitors -> Frames]
    BY DEF Render, Frame, Frames, Hides, SentInv, TypeOK
  <2>2. CASE UNCHANGED <<rendered, timer, sent, sentLocked, notified>>
    BY <2>1, <2>2 DEF Render, SentInv, TypeOK, LockedOnce, Unasked, start
  <2>3. CASE Limbo /\ rendered' = rendered \cup {m} /\ UNCHANGED <<timer, sent, sentLocked, notified>>
    BY <2>1, <2>3 DEF Limbo, Render, SentInv, TypeOK, LockedOnce, Unasked, start
  <2>4. CASE Limbo /\ rendered' = rendered \cup {m} /\ timer' = FALSE /\ sent' = TRUE /\ SendLocked(current)
    <3>1. current \in Locks /\ state[current] = "alive" /\ sentLocked[current] = 0
      BY <2>4, LimboUnsent
    <3>2. /\ sentLocked' \in [Locks -> Nat] /\ notified' \in BOOLEAN
          /\ sentLocked'[current] = 1
          /\ \A k \in Locks : k # current => sentLocked'[k] = sentLocked[k]
          /\ \A k \in Locks : sentLocked'[k] <= 1
      BY <2>4, <3>1, SendIsFirst
    <3> QED
      BY <2>1, <2>4, <3>1, <3>2 DEF Render, SentInv, TypeOK, LockedOnce, Unasked, start
  <2> QED
    BY <2>2, <2>3, <2>4 DEF Render, OnLockscreenRendered
<1>7. CASE \E m \in Monitors : SwitchOutput(m)
  BY <1>7 DEF SwitchOutput, SentInv, TypeOK, LockedOnce, Unasked, protocol, manager, start, Frames
<1>8. CASE SendLockedTimer
  <2>1. CASE ~ Limbo
    BY <1>8, <2>1 DEF SendLockedTimer, SentInv, TypeOK, LockedOnce, Unasked, start
  <2>2. CASE Limbo
    <3>1. current \in Locks /\ state[current] = "alive" /\ sentLocked[current] = 0
      BY <2>2, LimboUnsent
    <3>2. sent' = TRUE /\ timedOut' = TRUE /\ SendLocked(current)
      BY <1>8, <2>2 DEF SendLockedTimer
    <3>3. /\ sentLocked' \in [Locks -> Nat] /\ notified' \in BOOLEAN
          /\ sentLocked'[current] = 1
          /\ \A k \in Locks : k # current => sentLocked'[k] = sentLocked[k]
          /\ \A k \in Locks : sentLocked'[k] <= 1
      BY <3>1, <3>2, SendIsFirst
    <3> QED
      BY <1>8, <3>1, <3>2, <3>3 DEF SendLockedTimer, SentInv, TypeOK, LockedOnce, Unasked, start
  <2> QED
    BY <2>1, <2>2
<1>9. CASE LockdeadDelay
  BY <1>9 DEF LockdeadDelay, SentInv, TypeOK, LockedOnce, Unasked, protocol, start
<1>10. CASE ForceUnlock
  <2>1. /\ ResetLock /\ UNCHANGED <<sentLocked, active, shown>>
        /\ {locked', notified', startLocked', startCommand'} \subseteq BOOLEAN
    BY <1>10 DEF ForceUnlock, SentInv, TypeOK
  <2>2. /\ state' \in [Locks -> {"none", "alive", "inert", "gone"}]
        /\ \A l \in Locks : state'[l] = "none" => state[l] = "none"
        /\ finished' \in [Locks -> BOOLEAN]
    BY <1>10 DEF ForceUnlock, SentInv, TypeOK
  <2> QED
    BY <2>1, <2>2, CleanReset DEF SentInv, TypeOK, LockedOnce, Unasked
<1>11. CASE UNCHANGED vars
  BY <1>11 DEF vars, protocol, manager, start, SentInv, TypeOK, LockedOnce, Unasked
<1> QED
  BY <1>1, <1>2, <1>3, <1>4, <1>5, <1>6, <1>7, <1>8, <1>9, <1>10, <1>11 DEF Next, Step

(* In every reachable state SentInv holds.                                 *)
THEOREM SentInvariance == Spec => []SentInv
  BY InitSentInv, StepSentInv, PTL DEF Spec

(* Every variable stays in its domain, and m_sessionLock's fields go with  *)
(* it.                                                                     *)
THEOREM TypeCorrect == Spec => [](TypeOK /\ setting \in Settings)
<1>1. SentInv => TypeOK
  BY DEF SentInv
<1>2. Init => setting \in Settings
  BY DEF Init
<1>3. setting \in Settings /\ [Next]_vars => (setting \in Settings)'
  BY DEF Next, vars
<1> QED
  BY <1>1, <1>2, <1>3, SentInvariance, PTL DEF Spec

(* No lock is sent locked twice, whatever the settings.                    *)
THEOREM SentOnce == Spec => []LockedOnce
<1>1. SentInv => LockedOnce
  BY DEF SentInv
<1> QED
  BY <1>1, SentInvariance, PTL

-----------------------------------------------------------------------------
(* A session starts unlocked, with no lock.                                *)
LEMMA InitHeldInv == Settled /\ Init => HeldInv
<1> SUFFICES ASSUME Settled, Init PROVE HeldInv
  OBVIOUS
<1>1. StartLocked = FALSE
  BY SettingsAssumption DEF Init, Settled, StartLocked
<1>2. ~ startCommand /\ ~ notified /\ ~ sent /\ current = None
  BY <1>1 DEF Init
<1>3. rendered = {} /\ \A l \in Locks : state[l] = "none"
  BY DEF Init
<1>4. \A l \in Locks : state[l] # "alive"
  BY <1>3
<1>5. Alone /\ Covered
  BY <1>2, <1>3, <1>4 DEF Alone, Covered
<1> QED
  BY <1>5, InitSentInv DEF HeldInv

(* A frame shows workspaces only when nothing hides them.                  *)
LEMMA FrameHidden ==
  ASSUME NEW m \in Monitors, locked, m \in mapped \/ Hides
  PROVE  Frame(m) # "desktop"
  BY DEF Frame, Hides

(* A lock client is refused in a locked session, and otherwise the first.  *)
LEMMA OnLockSettled ==
  ASSUME Settled, HeldInv, NEW l \in Locks, OnLock(l)
  PROVE  \/ locked /\ LockDenied(l)
         \/ ~ locked /\ current = None /\ LockAccepted(l)
  BY DEF Settled, HeldInv, Alone, OnLock, LockDenied, LockIgnored, LockAccepted, Denies, Limbo

(* Every step keeps HeldInv when no lock can be taken over.                *)
LEMMA StepHeldInv == Settled /\ HeldInv /\ [Next]_vars => HeldInv'
<1> SUFFICES ASSUME Settled, HeldInv, [Next]_vars PROVE HeldInv'
  OBVIOUS
<1>0. SentInv' /\ TypeOK /\ TypeOK'
  BY StepSentInv DEF HeldInv, SentInv
<1> SUFFICES Alone' /\ Covered'
  BY <1>0 DEF HeldInv
<1> USE NoneAssumption
<1>1. CASE \E l \in Locks : OnLock(l)
  <2> PICK l \in Locks : OnLock(l) BY <1>1
  <2>1. CASE locked /\ LockDenied(l)
    BY <2>1 DEF OnLock, LockDenied, HeldInv, Alone, Covered, Hides, Missing, manager, start
  <2>2. CASE ~ locked /\ current = None /\ LockAccepted(l)
    <3>1. Covered'
      BY <2>2 DEF OnLock, LockAccepted, Covered, SendLocked
    <3>2. /\ ~ startCommand' /\ locked' /\ current' = l
          /\ \A k \in Locks : state'[k] = "alive" => k = l
          /\ rendered' = {}
      BY <1>0, <2>2 DEF OnLock, LockAccepted, HeldInv, Alone, TypeOK
    <3>3. ~ notified
      BY <2>2 DEF HeldInv, Alone
    <3>4. notified' => Hides'
      BY <2>2, <3>3 DEF LockAccepted, Hides
    <3> QED
      BY <3>1, <3>2, <3>4 DEF Alone
  <2> QED
    BY <2>1, <2>2, OnLockSettled
<1>2. CASE \E l \in Locks : UnlockAndDestroy(l)
  <2> PICK l \in Locks : UnlockAndDestroy(l) BY <1>2
  <2>1. l = current
    BY DEF UnlockAndDestroy, HeldInv, Alone
  <2> QED
    BY <1>0, <2>1 DEF UnlockAndDestroy, ResetLock, HeldInv, Alone, Covered, TypeOK
<1>3. CASE \E l \in Locks : Destroy(l)
  <2> PICK l \in Locks : Destroy(l) BY <1>3
  <2>1. CASE l = current
    BY <1>0, <2>1 DEF Destroy, ResetLock, HeldInv, Alone, Covered, TypeOK, Hides, Missing, start
  <2>2. CASE l # current
    BY <1>0, <2>2 DEF Destroy, HeldInv, Alone, Covered, TypeOK, Hides, Missing, manager, start
  <2> QED
    BY <2>1, <2>2
<1>4. CASE \E m \in Monitors : MapSurface(m)
  BY <1>4 DEF MapSurface, HeldInv, Alone, Covered, Hides, Missing, protocol, start
<1>5. CASE \E m \in Monitors : DropSurface(m)
  BY <1>5 DEF DropSurface, Settled
<1>6. CASE \E m \in Monitors : Render(m)
  <2> PICK m \in Monitors : Render(m) BY <1>6
  <2>1. shown' = [shown EXCEPT ![m] = Frame(m)] /\ UNCHANGED <<locked, state, current, mapped, overdue, timedOut, startCommand, active>>
    BY DEF Render, start
  <2>2. \A k \in Monitors : k # m => shown'[k] = shown[k]
    BY <1>0, <2>1 DEF TypeOK
  <2>3. shown'[m] = Frame(m)
    BY <1>0, <2>1 DEF TypeOK
  <2>4. CASE UNCHANGED <<rendered, timer, sent, sentLocked, notified>>
    <3>1. \A k \in rendered : k \in active => shown'[k] # "desktop"
      <4> SUFFICES ASSUME NEW k \in rendered, k \in active PROVE shown'[k] # "desktop"
        OBVIOUS
      <4>1. CASE k = m
        <5>1. locked /\ m \in mapped
          BY <1>0, <4>1 DEF HeldInv, Alone, TypeOK
        <5> QED
          BY <2>3, <4>1, <5>1, FrameHidden
      <4>2. CASE k # m
        BY <1>0, <2>2, <4>2 DEF HeldInv, Alone, TypeOK
      <4> QED
        BY <4>1, <4>2
    <3>2. Covered'
      <4> SUFFICES ASSUME sent, ~ timedOut, locked, NEW k \in active PROVE shown'[k] # "desktop"
        BY <2>1, <2>4 DEF Covered
      <4>1. CASE k = m
        BY <2>3, <4>1, FrameHidden DEF Hides
      <4>2. CASE k # m
        BY <1>0, <2>2, <4>2 DEF HeldInv, Covered, TypeOK
      <4> QED
        BY <4>1, <4>2
    <3> QED
      BY <2>1, <2>4, <3>1, <3>2 DEF HeldInv, Alone, Hides, Missing
  <2>5. CASE Frame(m) = "lock" /\ Limbo /\ rendered' = rendered \cup {m}
    <3>1. m \in mapped /\ locked
      BY <1>0, <2>5 DEF Frame, Hides, TypeOK
    <3>2. \A k \in rendered' : k \in active => shown'[k] # "desktop"
      BY <1>0, <2>2, <2>3, <2>5 DEF HeldInv, Alone, TypeOK
    <3>3. \/ UNCHANGED <<sent, notified>>
          \/ AllRendered(rendered') /\ sent' = TRUE /\ notified' = TRUE
      BY <2>5 DEF Render, OnLockscreenRendered, SendLocked
    <3>4. CASE UNCHANGED <<sent, notified>>
      BY <2>1, <2>5, <3>1, <3>2, <3>4 DEF HeldInv, Alone, Hides, Missing, Covered, Limbo
    <3>5. CASE AllRendered(rendered') /\ sent' = TRUE /\ notified' = TRUE
      BY <2>1, <2>5, <3>1, <3>2, <3>5 DEF HeldInv, Alone, Hides, Missing, Covered, AllRendered
    <3> QED
      BY <3>3, <3>4, <3>5
  <2> QED
    BY <2>4, <2>5 DEF Render, OnLockscreenRendered
<1>7. CASE \E m \in Monitors : SwitchOutput(m)
  BY <1>0, <1>7 DEF SwitchOutput, HeldInv, Alone, Covered, TypeOK, Hides, Missing, protocol, manager, start
<1>8. CASE SendLockedTimer
  BY <1>8 DEF SendLockedTimer, SendLocked, Limbo, HeldInv, Alone, Covered, Hides, Missing, start
<1>9. CASE LockdeadDelay
  BY <1>9 DEF LockdeadDelay, HeldInv, Alone, Covered, Hides, Missing, protocol, start
<1>10. CASE ForceUnlock
  BY <1>0, <1>10 DEF ForceUnlock, ResetLock, HeldInv, Alone, Covered, TypeOK
<1>11. CASE UNCHANGED vars
  BY <1>11 DEF vars, protocol, manager, start, HeldInv, Alone, Covered, Hides, Missing
<1> QED
  BY <1>1, <1>2, <1>3, <1>4, <1>5, <1>6, <1>7, <1>8, <1>9, <1>10, <1>11 DEF Next, Step

(* With nobody to take a lock over, HeldInv holds in every reachable state.*)
HeldIfSettled == Settled => HeldInv

LEMMA HeldInvariance == Spec => []HeldIfSettled
<1>1. Init => HeldIfSettled
  BY InitHeldInv DEF HeldIfSettled
<1>2. HeldIfSettled /\ [Next]_vars => HeldIfSettled'
  <2>1. ASSUME [Next]_vars, Settled' PROVE Settled
    BY <2>1 DEF Next, vars, Settled, MayRelock, StartLocked, MayDrop
  <2> QED
    BY <2>1, StepHeldInv DEF HeldIfSettled
<1> QED
  BY <1>1, <1>2, PTL DEF Spec

(* An early "locked" event means that no output shows workspaces.          *)
THEOREM AllCovered == Spec => []Covered
<1>1. HeldIfSettled => Covered
  BY DEF HeldIfSettled, HeldInv, Covered
<1> QED
  BY <1>1, HeldInvariance, PTL

(* A session announced as locked is locked and renders no workspace.       *)
THEOREM Announced == Spec => []AnnouncedIsHidden
<1>1. HeldIfSettled => AnnouncedIsHidden
  BY DEF HeldIfSettled, HeldInv, SentInv, TypeOK, Alone, AnnouncedIsHidden, Hides
<1> QED
  BY <1>1, HeldInvariance, PTL

(* Workspaces that are hidden stay hidden until the unlock.                *)
THEOREM StaysHidden == Spec => HiddenStaysHidden
<1>1. HeldIfSettled /\ [Next]_vars => [Settled /\ locked /\ Hides /\ locked' => Hides']_vars
  <2> SUFFICES ASSUME Settled, HeldInv, Next, locked, Hides, locked' PROVE Hides'
    BY DEF vars, HeldIfSettled
  <2>1. TypeOK /\ NoneAssumption
    BY NoneAssumption DEF HeldInv, SentInv
  <2>2. CASE \E l \in Locks : OnLock(l)
    BY <2>2, OnLockSettled DEF LockDenied, Hides, Missing, manager
  <2>3. CASE \E l \in Locks : UnlockAndDestroy(l)
    BY <2>3 DEF UnlockAndDestroy
  <2>4. CASE \E l \in Locks : Destroy(l)
    BY <2>4 DEF Destroy, ResetLock, Hides, Missing, manager
  <2>5. CASE \E m \in Monitors : MapSurface(m) \/ DropSurface(m) \/ SwitchOutput(m)
    BY <2>5 DEF MapSurface, DropSurface, SwitchOutput, Hides, Missing, manager
  <2>6. CASE \E m \in Monitors : Render(m)
    BY <2>6 DEF Render, OnLockscreenRendered, Hides, Missing
  <2>7. CASE SendLockedTimer
    BY <2>7 DEF SendLockedTimer, Hides, Missing
  <2>8. CASE LockdeadDelay
    BY <2>8 DEF LockdeadDelay, Hides, Missing
  <2>9. CASE ForceUnlock
    BY <2>9 DEF ForceUnlock
  <2> QED
    BY <2>2, <2>3, <2>4, <2>5, <2>6, <2>7, <2>8, <2>9 DEF Next, Step
<1> QED
  BY <1>1, HeldInvariance, PTL DEF Spec, HiddenStaysHidden
=============================================================================
