-------------------------- MODULE EventLoopProofs --------------------------
(***************************************************************************)
(* EventLoop for every set of timers and every bound: no recalc is lost, no*)
(* deferred function is stranded, no armed timer is slept past.            *)
(***************************************************************************)
EXTENDS EventLoop, TLAPS

(* What the helpers leave behind in the deferred functions.                *)
LEMMA ScheduleRecalcFacts ==
  ASSUME IInv, ScheduleRecalc
  PROVE  /\ recalc' = TRUE
         /\ fns' \in Seq(Entries) /\ source' \in BOOLEAN
         /\ fns' # <<>> => source'
         /\ \/ \E i \in DOMAIN batch : batch[i] = NUDGE
            \/ \E i \in DOMAIN fns' : fns'[i] = NUDGE
PROOF
<1>1. CASE recalc /\ UNCHANGED <<recalc, deferred>>
  BY <1>1 DEF IInv, TypeOK, NudgeComing, IdleArmed, deferred
<1>2. CASE ~recalc /\ recalc' = TRUE /\ Later(NUDGE)
  <2>1. NUDGE \in Entries /\ fns \in Seq(Entries)
    BY DEF IInv, TypeOK, Entries
  <2>2. fns' = Append(fns, NUDGE) /\ source' = TRUE
    BY <1>2 DEF Later
  <2>3. fns' \in Seq(Entries) /\ Len(fns') \in DOMAIN fns' /\ fns'[Len(fns')] = NUDGE
    BY <2>1, <2>2
  <2>. QED
    BY <1>2, <2>2, <2>3
<1>. QED
  BY <1>1, <1>2 DEF ScheduleRecalc

(* The nudge of a sequence is still there when another entry is removed.   *)
LEMMA RemovalKeeps ==
  ASSUME NEW f \in Seq(Entries), NEW j \in Jobs, NEW i \in DOMAIN f, f[i] = j,
         NEW g, g = [k \in 1..(Len(f) - 1) |-> IF k < i THEN f[k] ELSE f[k + 1]]
  PROVE  /\ g \in Seq(Entries) /\ Len(g) = Len(f) - 1
         /\ (\E k \in DOMAIN f : f[k] = NUDGE) => \E k \in DOMAIN g : g[k] = NUDGE
PROOF
<1>1. /\ DOMAIN f = 1..Len(f) /\ Len(f) \in Nat /\ i \in 1..Len(f)
      /\ \A k \in 1..Len(f) : f[k] \in Entries
      /\ Len(f) - 1 \in Nat
  <2>1. DOMAIN f = 1..Len(f) /\ Len(f) \in Nat
    OBVIOUS
  <2>2. \A k \in 1..Len(f) : f[k] \in Entries
    OBVIOUS
  <2>3. i \in 1..Len(f)
    BY <2>1
  <2>. QED
    BY <2>1, <2>2, <2>3
<1>2. \A k \in 1..(Len(f) - 1) : g[k] \in Entries
  BY <1>1
<1>3. g \in Seq(Entries) /\ Len(g) = Len(f) - 1 /\ DOMAIN g = 1..(Len(f) - 1)
  BY <1>1, <1>2
<1>4. ASSUME NEW k \in DOMAIN f, f[k] = NUDGE
      PROVE  \E m \in DOMAIN g : g[m] = NUDGE
  <2>1. k # i
    BY <1>4 DEF NUDGE, Jobs
  <2>2. CASE k < i
    BY <1>1, <1>3, <1>4, <2>2
  <2>3. CASE k > i
    <3>1. k - 1 \in DOMAIN g /\ g[k - 1] = f[k]
      BY <1>1, <1>3, <2>3
    <3>. QED
      BY <1>4, <3>1
  <2>. QED
    BY <1>1, <2>1, <2>2, <2>3
<1>. QED
  BY <1>3, <1>4

(* The event loop starts with no timer, no job and nothing to come.        *)
THEOREM InitIInv == Init => IInv
PROOF
<1>. SUFFICES ASSUME Init PROVE IInv
  OBVIOUS
<1>1. <<>> \in Seq(Entries)
  OBVIOUS
<1>2. Never \in -1..Never
  BY DelayAssumption DEF Never
<1>3. TypeOK
  <2>1. left \in [Timers -> -1..Never]
    BY <1>2 DEF Init
  <2>2. fd \in -1..(Horizon + 1) /\ jobs \in 0..MaxJobs
    BY DelayAssumption DEF Init, Off
  <2>. QED
    BY <1>1, <2>1, <2>2 DEF Init, TypeOK
<1>. QED
  BY <1>3 DEF Init, IInv, BatchOnlyIdle, NudgeComing, IdleArmed, NoOversleep

(***************************************************************************)
(* Callers.  Whatever disturbs the timers schedules a recalc; what does not*)
(* only takes timers out of the race.                                      *)
(***************************************************************************)
LEMMA RecalcSteps ==
  ASSUME IInv, NEW t \in Timers, UpdateTimeout(t) \/ AddTimer(t) \/ RemoveTimer(t)
  PROVE  IInv'
PROOF
<1>1. ScheduleRecalc /\ UNCHANGED <<owned, cancelled, fd, loop, history>>
  BY DEF UpdateTimeout, AddTimer, RemoveTimer
<1>2. left' \in [Timers -> -1..Never] /\ listed' \subseteq Timers
  <2>1. Never \in Nat /\ 0..MaxDelay \subseteq -1..Never
    BY DelayAssumption DEF Never
  <2>2. left \in [Timers -> -1..Never] /\ listed \subseteq Timers
    BY DEF IInv, TypeOK
  <2>3. CASE UpdateTimeout(t)
    <3>1. PICK d \in 0..MaxDelay \cup {Never} : left' = [left EXCEPT ![t] = d]
      BY <2>3 DEF UpdateTimeout
    <3>2. d \in -1..Never
      BY <2>1
    <3>. QED
      BY <2>2, <2>3, <3>1, <3>2 DEF UpdateTimeout
  <2>4. CASE AddTimer(t) \/ RemoveTimer(t)
    BY <2>2, <2>4 DEF AddTimer, RemoveTimer
  <2>. QED
    BY <2>3, <2>4
<1>3. TypeOK'
  BY <1>1, <1>2, ScheduleRecalcFacts DEF IInv, TypeOK, loop, history
<1>. QED
  BY <1>1, <1>3, ScheduleRecalcFacts
     DEF IInv, BatchOnlyIdle, NudgeComing, IdleArmed, NoOversleep, loop

(* The end of a timer callback schedules the recalculation it owes.        *)
LEMMA TimersDoneStep == IInv /\ TimersDone => IInv'
PROOF
<1>. SUFFICES ASSUME IInv, TimersDone PROVE IInv'
  OBVIOUS
<1>1. ScheduleRecalc /\ UNCHANGED <<timers, fd, copy, batch, history>>
      /\ control' = "poll" /\ active' = FALSE
  BY DEF TimersDone
<1>2. TypeOK'
  BY <1>1, ScheduleRecalcFacts DEF IInv, TypeOK, timers, history
<1>. QED
  <2>1. batch = <<>> /\ batch' = <<>>
    BY <1>1 DEF IInv, BatchOnlyIdle, TimersDone
  <2>. QED
    BY <1>1, <1>2, <2>1, ScheduleRecalcFacts
       DEF IInv, BatchOnlyIdle, NudgeComing, IdleArmed, NoOversleep

(* New, cancelled, lost and called timers: fewer armed timers are listed.  *)
LEMMA TimerSteps ==
  ASSUME IInv, NEW t \in Timers,
         NewTimer(t) \/ Cancel(t) \/ LoseTimer(t) \/ CallTimer(t)
  PROVE  IInv'
PROOF
<1>1. UNCHANGED <<listed, fd, recalc, deferred, control, batch, history>>
  BY DEF NewTimer, Cancel, LoseTimer, CallTimer, loop
<1>2. left' \in [Timers -> -1..Never] /\ Never \in -1..Never
  BY DelayAssumption DEF IInv, TypeOK, NewTimer, Cancel, LoseTimer, CallTimer, Never
<1>3. \A s \in listed' : left'[s] # Never => left'[s] = left[s]
  BY <1>1 DEF IInv, TypeOK, NewTimer, Cancel, LoseTimer, CallTimer
<1>4. TypeOK'
  BY <1>1, <1>2 DEF IInv, TypeOK, NewTimer, Cancel, LoseTimer, CallTimer, loop, deferred,
                    history
<1>5. NoOversleep'
  BY <1>1, <1>3 DEF IInv, NoOversleep
<1>. QED
  BY <1>1, <1>4, <1>5 DEF IInv, BatchOnlyIdle, NudgeComing, IdleArmed, deferred

(* doLater queues its job and arms the idle source when none is.           *)
LEMMA DoLaterStep == IInv /\ DoLater => IInv'
PROOF
<1>. SUFFICES ASSUME IInv, DoLater PROVE IInv'
  OBVIOUS
<1>1. /\ UNCHANGED <<timers, fd, recalc, loop, ran, removed>>
      /\ jobs < MaxJobs /\ jobs' = jobs + 1
      /\ fns' = Append(fns, jobs + 1) /\ source' = TRUE
  BY DEF DoLater, Later
<1>2. fns \in Seq(Entries) /\ jobs + 1 \in Entries /\ jobs + 1 \in 0..MaxJobs
  BY <1>1, DelayAssumption DEF IInv, TypeOK, Entries, Jobs
<1>3. /\ fns' \in Seq(Entries)
      /\ \A i \in DOMAIN fns : i \in DOMAIN fns' /\ fns'[i] = fns[i]
  BY <1>1, <1>2
<1>4. TypeOK'
  BY <1>1, <1>2, <1>3 DEF IInv, TypeOK, timers, loop
<1>5. NudgeComing'
  BY <1>1, <1>3 DEF IInv, NudgeComing, loop
<1>. QED
  BY <1>1, <1>4, <1>5 DEF IInv, BatchOnlyIdle, IdleArmed, NoOversleep, timers, loop

(* removeDoLater drops a queued job; the idle source goes with the last.   *)
LEMMA RemoveDoLaterStep ==
  ASSUME IInv, NEW j \in Jobs, RemoveDoLater(j)
  PROVE  IInv'
PROOF
<1>1. /\ UNCHANGED <<timers, fd, recalc, loop, jobs, ran>>
      /\ source' = (source /\ Len(fns') > 0)
      /\ removed' = removed \cup ({j} \ ran)
  BY DEF RemoveDoLater
<1>2. fns \in Seq(Entries)
  BY DEF IInv, TypeOK
<1>3. /\ fns' \in Seq(Entries)
      /\ (\E i \in DOMAIN fns : fns[i] = NUDGE) => \E i \in DOMAIN fns' : fns'[i] = NUDGE
      /\ fns' # <<>> => fns # <<>>
  <2>1. CASE fns' = fns
    BY <1>2, <2>1
  <2>2. CASE \E i \in DOMAIN fns :
               /\ fns[i] = j
               /\ fns' = [k \in 1..(Len(fns) - 1) |-> IF k < i THEN fns[k] ELSE fns[k + 1]]
    <3>1. PICK i \in DOMAIN fns :
            /\ fns[i] = j
            /\ fns' = [k \in 1..(Len(fns) - 1) |-> IF k < i THEN fns[k] ELSE fns[k + 1]]
      BY <2>2
    <3>2. fns # <<>>
      BY <1>2, <3>1
    <3>3. /\ fns' \in Seq(Entries)
          /\ (\E k \in DOMAIN fns : fns[k] = NUDGE) => \E k \in DOMAIN fns' : fns'[k] = NUDGE
      BY <1>2, <3>1, RemovalKeeps, ZenonT(40)
    <3>. QED
      BY <3>2, <3>3, Zenon
  <2>. QED
    BY <2>1, <2>2 DEF RemoveDoLater
<1>4. TypeOK'
  <2>1. source' \in BOOLEAN
    BY <1>1
  <2>2. removed' \subseteq Jobs /\ jobs' \in 0..MaxJobs /\ ran' \subseteq Jobs
    BY <1>1 DEF IInv, TypeOK
  <2>3. /\ UNCHANGED <<left, listed, owned, cancelled, fd, recalc>>
        /\ UNCHANGED <<control, copy, batch, active>>
    BY <1>1 DEF timers, loop
  <2>. QED
    BY <1>3, <2>1, <2>2, <2>3 DEF IInv, TypeOK
<1>5. NudgeComing'
  BY <1>1, <1>3 DEF IInv, NudgeComing, loop
<1>6. IdleArmed'
  <2>1. fns' # <<>> => Len(fns') > 0
    BY <1>3
  <2>. QED
    BY <1>1, <1>3, <2>1 DEF IInv, IdleArmed
<1>. QED
  BY <1>1, <1>4, <1>5, <1>6 DEF IInv, BatchOnlyIdle, NoOversleep, timers, loop

(***************************************************************************)
(* The loop.                                                               *)
(***************************************************************************)
LEMMA LoopSteps == IInv /\ (TimerFire \/ Idle \/ IdleDone) => IInv'
PROOF
<1>. SUFFICES ASSUME IInv, TimerFire \/ Idle \/ IdleDone PROVE IInv'
  OBVIOUS
<1>1. CASE TimerFire
  BY <1>1, DelayAssumption DEF IInv, BatchOnlyIdle, TypeOK, NudgeComing, IdleArmed, NoOversleep, TimerFire, Off,
     timers, deferred, history
<1>2. CASE Idle
  <2>0. /\ fns' = <<>> /\ batch' = fns /\ source' = FALSE /\ control' = "idle"
        /\ UNCHANGED <<timers, fd, recalc, copy, active, history>>
    BY <1>2 DEF Idle
  <2>1. TypeOK'
    <3>1. fns' \in Seq(Entries)
      BY <2>0
    <3>. QED
      BY <2>0, <3>1 DEF IInv, TypeOK, timers, history
  <2>2. NudgeComing' /\ IdleArmed'
    <3>1. batch = <<>>
      BY <1>2 DEF IInv, BatchOnlyIdle, Idle
    <3>2. recalc' => \E i \in DOMAIN fns : fns[i] = NUDGE
      BY <2>0, <3>1 DEF IInv, NudgeComing
    <3>. QED
      BY <2>0, <3>2 DEF NudgeComing, IdleArmed
  <2>3. NoOversleep'
    BY <1>2 DEF IInv, NoOversleep, Idle, timers
  <2>. QED
    BY <1>2, <2>1, <2>2, <2>3 DEF IInv, BatchOnlyIdle, Idle
<1>3. CASE IdleDone
  BY <1>3 DEF IInv, BatchOnlyIdle, TypeOK, NudgeComing, IdleArmed, NoOversleep, IdleDone, timers,
     deferred, history
<1>. QED
  BY <1>1, <1>2, <1>3

(* Time passes for the timerfd and for the timers alike.                   *)
LEMMA TickStep == IInv /\ Tick => IInv'
PROOF
<1>. SUFFICES ASSUME IInv, Tick PROVE IInv'
  OBVIOUS
<1>1. /\ UNCHANGED <<listed, owned, cancelled, recalc, deferred, loop, history>>
      /\ fd' = IF fd > 0 THEN fd - 1 ELSE fd
      /\ left' = [t \in Timers |-> IF left[t] \in {-1, Never} THEN left[t] ELSE left[t] - 1]
  BY DEF Tick
<1>2. Never \in Nat /\ Horizon \in Nat
  BY DelayAssumption DEF Never
<1>3. \A t \in Timers : left[t] \in -1..Never
  BY DEF IInv, TypeOK
<1>4. \A t \in Timers : left'[t] \in -1..Never
  BY <1>1, <1>2, <1>3
<1>5. left' \in [Timers -> -1..Never]
  BY <1>1, <1>4
<1>6. fd' \in -1..(Horizon + 1) /\ fd \in -1..(Horizon + 1)
  BY <1>1, <1>2 DEF IInv, TypeOK
<1>7. TypeOK'
  BY <1>1, <1>5, <1>6 DEF IInv, TypeOK, deferred, loop, history
<1>8. ASSUME ~recalc, control # "timers", NEW t \in listed, left'[t] # Never
      PROVE  fd' # Off /\ (fd' <= 1 \/ fd' <= left'[t] + 1)
  <2>1. t \in Timers
    BY DEF IInv, TypeOK
  <2>2. left[t] # Never
    BY <1>1, <1>8, <2>1
  <2>3. fd # Off /\ (fd <= 1 \/ fd <= left[t] + 1)
    BY <1>8, <2>2 DEF IInv, NoOversleep
  <2>4. left'[t] = IF left[t] = -1 THEN -1 ELSE left[t] - 1
    BY <1>1, <2>1, <2>2
  <2>. QED
    BY <1>1, <1>2, <1>3, <1>6, <2>1, <2>3, <2>4 DEF Off
<1>9. NoOversleep'
  BY <1>1, <1>8 DEF NoOversleep, loop
<1>. QED
  BY <1>1, <1>7, <1>9 DEF IInv, BatchOnlyIdle, NudgeComing, IdleArmed, deferred, loop

(* The idle source runs the next job of its batch.                         *)
LEMMA RunJobStep == IInv /\ RunJob => IInv'
PROOF
<1>. SUFFICES ASSUME IInv, RunJob PROVE IInv'
  OBVIOUS
<1>1. /\ control = "idle" /\ batch # <<>> /\ batch' = Tail(batch)
      /\ UNCHANGED <<left, owned, cancelled, deferred, control, copy, jobs, removed>>
  BY DEF RunJob
<1>2. /\ batch \in Seq(Entries) /\ batch' \in Seq(Entries)
      /\ Head(batch) \in Entries
      /\ \A i \in DOMAIN batch : i # 1 => i - 1 \in DOMAIN batch' /\ batch'[i - 1] = batch[i]
      /\ Head(batch) = batch[1]
  <2>1. batch \in Seq(Entries)
    BY DEF IInv, TypeOK
  <2>. QED
    BY <1>1, <2>1
<1>3. CASE Head(batch) = NUDGE /\ NudgeTimers /\ UNCHANGED <<active, ran>>
  <2>1. recalc' = FALSE /\ listed' = listed \cap owned
    BY <1>3 DEF NudgeTimers
  <2>2. PICK next \in {Horizon} \cup {left[t] : t \in listed'} :
          /\ next <= Horizon
          /\ \A t \in listed' : next <= left[t]
          /\ fd' = IF next + 1 < 1 THEN 1 ELSE next + 1
    BY <1>3 DEF NudgeTimers
  <2>3. next \in -1..Horizon /\ \A t \in listed' : left[t] \in -1..Never /\ t \in Timers
    BY <2>1, <2>2, DelayAssumption DEF IInv, TypeOK, Never
  <2>4. fd' \in 1..(Horizon + 1)
    BY <2>2, <2>3, DelayAssumption
  <2>5. \A t \in listed' : fd' <= 1 \/ fd' <= left[t] + 1
    BY <2>2, <2>3
  <2>6. TypeOK'
    <3>1. fd' \in -1..(Horizon + 1)
      BY <2>4, DelayAssumption
    <3>. QED
      BY <1>1, <1>2, <1>3, <2>1, <3>1 DEF IInv, TypeOK, deferred
  <2>7. NoOversleep'
    BY <1>1, <2>1, <2>4, <2>5 DEF NoOversleep, Off
  <2>. QED
    BY <1>1, <2>1, <2>6, <2>7 DEF IInv, BatchOnlyIdle, NudgeComing, IdleArmed, deferred
<1>4. CASE /\ Head(batch) # NUDGE
           /\ active' = TRUE
           /\ ran' = ran \cup {Head(batch)}
           /\ UNCHANGED <<recalc, listed, fd>>
  <2>1. Head(batch) \in Jobs
    BY <1>2, <1>4 DEF Entries
  <2>2. TypeOK'
    BY <1>1, <1>2, <1>4, <2>1 DEF IInv, TypeOK, deferred
  <2>3. NudgeComing'
    BY <1>1, <1>2, <1>4 DEF IInv, NudgeComing, deferred
  <2>. QED
    BY <1>1, <1>4, <2>2, <2>3 DEF IInv, BatchOnlyIdle, IdleArmed, NoOversleep, deferred
<1>. QED
  BY <1>3, <1>4 DEF RunJob

(* Every step of the event loop keeps IInv.                                *)
THEOREM StepIInv == IInv /\ [Next]_vars => IInv'
PROOF
<1>. SUFFICES ASSUME IInv, [Next]_vars PROVE IInv'
  OBVIOUS
<1>1. CASE \E t \in Timers : NewTimer(t) \/ Cancel(t) \/ LoseTimer(t) \/ CallTimer(t)
  BY <1>1, TimerSteps
<1>2. CASE \E t \in Timers : UpdateTimeout(t) \/ AddTimer(t) \/ RemoveTimer(t)
  BY <1>2, RecalcSteps
<1>3. CASE DoLater
  BY <1>3, DoLaterStep
<1>4. CASE \E j \in Jobs : RemoveDoLater(j)
  BY <1>4, RemoveDoLaterStep
<1>5. CASE TimerFire \/ Idle \/ IdleDone
  BY <1>5, LoopSteps
<1>6. CASE TimersDone
  BY <1>6, TimersDoneStep
<1>7. CASE RunJob
  BY <1>7, RunJobStep
<1>8. CASE Tick
  BY <1>8, TickStep
<1>9. CASE UNCHANGED vars
  BY <1>9 DEF IInv, BatchOnlyIdle, TypeOK, NudgeComing, IdleArmed, NoOversleep, vars, timers,
              deferred, loop, history
<1>. QED
  BY <1>1, <1>2, <1>3, <1>4, <1>5, <1>6, <1>7, <1>8, <1>9 DEF Next

(* IInv holds in every state of every behaviour.                           *)
THEOREM Invariance == Spec => []IInv
PROOF
  BY InitIInv, StepIInv, PTL DEF Spec

(* Every variable keeps its type.                                          *)
THEOREM TypeCorrect == Spec => []TypeOK
PROOF
<1>1. IInv => TypeOK
  BY DEF IInv
<1>. QED
  BY <1>1, Invariance, PTL

(* recalcScheduled never stays up without a nudgeTimers on its way.        *)
THEOREM RecalcsComing == Spec => []NudgeComing
PROOF
<1>1. IInv => NudgeComing
  BY DEF IInv
<1>. QED
  BY <1>1, Invariance, PTL

(* Deferred functions always have an idle source.                          *)
THEOREM NoStranded == Spec => []IdleArmed
PROOF
<1>1. IInv => IdleArmed
  BY DEF IInv
<1>. QED
  BY <1>1, Invariance, PTL

(* Unless a recalc is coming, the timerfd fires by the time the next armed *)
(* timer is due.                                                           *)
THEOREM NeverOversleeps == Spec => []NoOversleep
PROOF
<1>1. IInv => NoOversleep
  BY DEF IInv
<1>. QED
  BY <1>1, Invariance, PTL

-----------------------------------------------------------------------------
(* The order of deferred functions.  What waits is in two sequences, and    *)
(* each is described on its own.                                            *)
Before(s, t) ==
  \A i \in DOMAIN s, k \in DOMAIN t : s[i] # NUDGE /\ t[k] # NUDGE => s[i] < t[k]

NewerThan(s, done, last) ==
  \A i \in DOMAIN s : s[i] # NUDGE => s[i] <= last /\ \A j \in done : j < s[i]

OrderInv ==
  /\ InOrder(batch) /\ InOrder(fns) /\ Before(batch, fns)
  /\ NewerThan(batch, ran, jobs) /\ NewerThan(fns, ran, jobs)
  /\ \A j \in ran : j <= jobs

LEMMA InitOrder == Init => OrderInv
BY DEF Init, OrderInv, InOrder, Before, NewerThan

(* Another nudge at the end changes no order. *)
LEMMA RecalcOrder ==
  ASSUME IInv, OrderInv, ScheduleRecalc, UNCHANGED <<batch, ran, jobs>>
  PROVE  OrderInv'
<1>1. CASE fns' = fns
  BY <1>1 DEF OrderInv, InOrder, Before, NewerThan
<1>2. CASE fns' = Append(fns, NUDGE)
  <2>1. /\ DOMAIN fns = 1..Len(fns) /\ Len(fns) \in Nat
        /\ DOMAIN fns' = 1..(Len(fns) + 1) /\ fns'[Len(fns) + 1] = NUDGE
        /\ \A i \in 1..Len(fns) : fns'[i] = fns[i]
    BY <1>2 DEF IInv, TypeOK
  <2>2. \A i \in DOMAIN fns' : fns'[i] # NUDGE => i \in DOMAIN fns /\ fns'[i] = fns[i]
    BY <2>1
  <2> QED BY <2>2 DEF OrderInv, InOrder, Before, NewerThan
<1> QED BY <1>1, <1>2 DEF ScheduleRecalc, Later, deferred

(* A new function is newer than all that wait. *)
LEMMA DoLaterOrder == ASSUME IInv, OrderInv, DoLater PROVE OrderInv'
<1>1. /\ fns' = Append(fns, jobs + 1) /\ jobs' = jobs + 1 /\ UNCHANGED <<batch, ran>>
      /\ jobs \in Nat /\ fns \in Seq(Entries) /\ batch \in Seq(Entries) /\ Entries \subseteq Nat
      /\ ran \subseteq Nat
  BY DelayAssumption DEF DoLater, Later, loop, IInv, TypeOK, Entries, Jobs, NUDGE
<1>2. /\ DOMAIN fns = 1..Len(fns) /\ Len(fns) \in Nat
      /\ DOMAIN fns' = 1..(Len(fns) + 1) /\ fns'[Len(fns) + 1] = jobs + 1
      /\ \A i \in 1..Len(fns) : fns'[i] = fns[i]
  BY <1>1
<1>3. /\ \A i \in DOMAIN fns : fns[i] \in Nat
      /\ \A i \in DOMAIN batch : batch[i] \in Nat
  <2>1. /\ \A i \in DOMAIN fns : fns[i] \in Entries
        /\ \A i \in DOMAIN batch : batch[i] \in Entries
    BY <1>1
  <2> QED BY <1>1, <2>1
<1>4. InOrder(fns')
  <2> SUFFICES ASSUME NEW i \in DOMAIN fns', NEW k \in DOMAIN fns', i < k,
                      fns'[i] # NUDGE, fns'[k] # NUDGE
               PROVE  fns'[i] < fns'[k]
    BY DEF InOrder
  <2>1. i \in DOMAIN fns /\ fns'[i] = fns[i]
    BY <1>2
  <2>2. CASE k = Len(fns) + 1
    BY <1>1, <1>2, <1>3, <2>1, <2>2 DEF OrderInv, NewerThan
  <2>3. CASE k # Len(fns) + 1
    BY <1>2, <2>1, <2>3 DEF OrderInv, InOrder
  <2> QED BY <2>2, <2>3
<1>5. Before(batch, fns') /\ NewerThan(batch, ran, jobs + 1) /\ NewerThan(fns', ran, jobs + 1)
      /\ \A j \in ran : j <= jobs + 1
  BY <1>1, <1>2, <1>3 DEF OrderInv, Before, NewerThan
<1> QED BY <1>1, <1>4, <1>5 DEF OrderInv

(* What stays keeps its order when one is taken back. *)
LEMMA RemoveOrder ==
  ASSUME IInv, OrderInv, NEW j \in Jobs, RemoveDoLater(j)
  PROVE  OrderInv'
<1>1. UNCHANGED <<batch, ran, jobs>> /\ fns \in Seq(Entries)
  BY DEF RemoveDoLater, loop, IInv, TypeOK
<1>2. CASE fns' = fns
  BY <1>1, <1>2 DEF OrderInv, InOrder, Before, NewerThan
<1>3. CASE \E i \in DOMAIN fns : /\ fns[i] = j
               /\ fns' = [k \in 1..(Len(fns) - 1) |-> IF k < i THEN fns[k] ELSE fns[k + 1]]
  <2>1. PICK i \in DOMAIN fns : /\ fns[i] = j
               /\ fns' = [k \in 1..(Len(fns) - 1) |-> IF k < i THEN fns[k] ELSE fns[k + 1]]
    BY <1>3
  <2> DEFINE at(k) == IF k < i THEN k ELSE k + 1
  <2>2. DOMAIN fns = 1..Len(fns) /\ Len(fns) \in Nat /\ DOMAIN fns' = 1..(Len(fns) - 1)
    BY <1>1, <2>1
  <2>3. \A k \in DOMAIN fns' : at(k) \in DOMAIN fns /\ fns'[k] = fns[at(k)]
    BY <2>1, <2>2
  <2>4. \A k, m \in DOMAIN fns' : k < m => at(k) < at(m)
    BY <2>2
  <2> HIDE DEF at
  <2>5. InOrder(fns')
    BY <2>3, <2>4 DEF OrderInv, InOrder
  <2>6. Before(batch, fns') /\ NewerThan(fns', ran, jobs)
    BY <2>3 DEF OrderInv, Before, NewerThan
  <2> QED BY <1>1, <2>5, <2>6 DEF OrderInv
<1> QED BY <1>2, <1>3 DEF RemoveDoLater

(* The idle callback moves out what waits, when nothing is left of the last *)
(* batch.                                                                   *)
LEMMA IdleOrder == ASSUME IInv, OrderInv, Idle PROVE OrderInv'
<1>1. batch' = fns /\ fns' = <<>> /\ UNCHANGED <<ran, jobs>>
  BY DEF Idle, history
<1>2. DOMAIN fns' = {}
  BY <1>1
<1> QED BY <1>1, <1>2 DEF OrderInv, InOrder, Before, NewerThan

LEMMA RunJobOrder == ASSUME IInv, OrderInv, RunJob PROVE OrderInv'
<1>1. /\ batch # <<>> /\ batch' = Tail(batch) /\ UNCHANGED <<fns, jobs>>
      /\ \/ Head(batch) = NUDGE /\ ran' = ran
         \/ Head(batch) # NUDGE /\ ran' = ran \cup {Head(batch)}
      /\ batch \in Seq(Entries)
  BY DEF RunJob, deferred, IInv, TypeOK
<1>2. /\ DOMAIN batch = 1..Len(batch) /\ Len(batch) \in Nat /\ Len(batch) >= 1
      /\ DOMAIN batch' = 1..(Len(batch) - 1)
      /\ \A i \in DOMAIN batch' : i + 1 \in DOMAIN batch /\ batch'[i] = batch[i + 1]
      /\ Head(batch) = batch[1]
  BY <1>1
<1>3. InOrder(batch')
  BY <1>2 DEF OrderInv, InOrder
<1>4. Before(batch', fns)
  BY <1>2 DEF OrderInv, Before
<1>5. NewerThan(batch', ran, jobs)
  BY <1>2 DEF OrderInv, NewerThan
<1>6. CASE ran' = ran
  BY <1>1, <1>3, <1>4, <1>5, <1>6 DEF OrderInv
<1>7. CASE Head(batch) # NUDGE /\ ran' = ran \cup {Head(batch)}
  <2>1. 1 \in DOMAIN batch /\ batch[1] # NUDGE
    BY <1>2, <1>7
  <2>2. \A i \in DOMAIN batch' : batch'[i] # NUDGE => batch[1] < batch'[i]
    BY <1>2, <2>1 DEF OrderInv, InOrder
  <2>3. \A i \in DOMAIN fns : fns[i] # NUDGE => batch[1] < fns[i]
    BY <2>1 DEF OrderInv, Before
  <2>4. batch[1] <= jobs
    BY <2>1 DEF OrderInv, NewerThan
  <2>5. NewerThan(batch', ran', jobs) /\ NewerThan(fns, ran', jobs) /\ \A j \in ran' : j <= jobs
    BY <1>2, <1>5, <1>7, <2>2, <2>3, <2>4 DEF OrderInv, NewerThan
  <2> QED BY <1>1, <1>3, <1>4, <2>5 DEF OrderInv
<1> QED BY <1>1, <1>6, <1>7

LEMMA StepOrder == IInv /\ OrderInv /\ [Next]_vars => OrderInv'
<1> SUFFICES ASSUME IInv, OrderInv, [Next]_vars PROVE OrderInv'
  OBVIOUS
<1>1. ASSUME UNCHANGED <<fns, batch, ran, jobs>> PROVE OrderInv'
  BY <1>1 DEF OrderInv, InOrder, Before, NewerThan
<1>2. ASSUME NEW t \in Timers, NewTimer(t) \/ Cancel(t) \/ LoseTimer(t) \/ CallTimer(t)
      PROVE  OrderInv'
  BY <1>1, <1>2 DEF NewTimer, Cancel, LoseTimer, CallTimer, deferred, loop, history
<1>3. ASSUME NEW t \in Timers, UpdateTimeout(t) \/ AddTimer(t) \/ RemoveTimer(t)
      PROVE  OrderInv'
  BY <1>3, RecalcOrder DEF UpdateTimeout, AddTimer, RemoveTimer, loop, history
<1>4. CASE TimersDone
  BY <1>4, RecalcOrder DEF TimersDone, history
<1>5. CASE TimerFire \/ IdleDone \/ Tick \/ UNCHANGED vars
  BY <1>1, <1>5 DEF TimerFire, IdleDone, Tick, vars, deferred, loop, history
<1> QED BY <1>2, <1>3, <1>4, <1>5, DoLaterOrder, RemoveOrder, IdleOrder, RunJobOrder DEF Next

(* The two sequences in a row are in order. *)
LEMMA OrderImplies == IInv /\ OrderInv => JobsInOrder
<1> SUFFICES ASSUME IInv, OrderInv PROVE JobsInOrder
  OBVIOUS
<1> DEFINE all == batch \o fns
           n == Len(batch)
<1>1. batch \in Seq(Entries) /\ fns \in Seq(Entries)
  BY DEF IInv, TypeOK
<1>2. /\ n \in Nat /\ Len(fns) \in Nat /\ DOMAIN batch = 1..n /\ DOMAIN fns = 1..Len(fns)
      /\ DOMAIN all = 1..(n + Len(fns))
      /\ \A i \in DOMAIN all : \/ i <= n /\ i \in DOMAIN batch /\ all[i] = batch[i]
                               \/ i > n /\ i - n \in DOMAIN fns /\ all[i] = fns[i - n]
  BY <1>1
<1> HIDE DEF all, n
<1>3. InOrder(all)
  <2> SUFFICES ASSUME NEW i \in DOMAIN all, NEW k \in DOMAIN all, i < k,
                      all[i] # NUDGE, all[k] # NUDGE
               PROVE  all[i] < all[k]
    BY DEF InOrder
  <2>1. i \in Nat /\ k \in Nat
    BY <1>2
  <2>2. CASE i <= n /\ k <= n
    BY <1>2, <2>1, <2>2 DEF OrderInv, InOrder
  <2>3. CASE i <= n /\ k > n
    BY <1>2, <2>1, <2>3 DEF OrderInv, Before
  <2>4. CASE i > n /\ k > n
    <3>1. i - n < k - n /\ i - n \in DOMAIN fns /\ k - n \in DOMAIN fns
          /\ all[i] = fns[i - n] /\ all[k] = fns[k - n]
      BY <1>2, <2>1, <2>4
    <3> QED BY <3>1 DEF OrderInv, InOrder
  <2> QED BY <1>2, <2>1, <2>2, <2>3, <2>4
<1>4. \A i \in DOMAIN all : all[i] # NUDGE => all[i] <= jobs /\ \A j \in ran : j < all[i]
  BY <1>2 DEF OrderInv, NewerThan
<1> QED BY <1>3, <1>4 DEF JobsInOrder, all

(* Deferred functions run in the order in which they were deferred, and     *)
(* each once (doLater, removeDoLater and the idle callback).                *)
THEOREM AlwaysInOrder == Spec => []JobsInOrder
<1>1. Init => IInv /\ OrderInv
  BY InitIInv, InitOrder
<1>2. IInv /\ OrderInv /\ [Next]_vars => (IInv /\ OrderInv)'
  BY StepIInv, StepOrder
<1>3. IInv /\ OrderInv => JobsInOrder
  BY OrderImplies
<1> QED BY <1>1, <1>2, <1>3, PTL DEF Spec
=============================================================================
