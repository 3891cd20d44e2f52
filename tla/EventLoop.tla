----------------------------- MODULE EventLoop -----------------------------
(***************************************************************************)
(* CEventLoopManager: the timers behind one timerfd, and the functions     *)
(* deferred to an idle callback of libwayland.  One thread runs everything;*)
(* what makes it hard is re-entrancy, since every callback may add, remove,*)
(* re-arm or lose timers and defer or take back functions while the loop   *)
(* that called it still walks over them.                                   *)
(*                                                                         *)
(* Time is relative: left is what leftUs() returns, one unit standing for  *)
(* the microsecond the code rounds by, and -1 for any time overdue.        *)
(* A timer has one owner outside the manager.                              *)
(***************************************************************************)
EXTENDS Integers, Sequences

CONSTANTS
  Timers,
  MaxDelay,   \* bound: the longest timeout asked for
  Horizon,    \* the 10 s after which nudgeTimers looks again whatever happens
  MaxJobs     \* bound: functions deferred by the callers

ASSUME DelayAssumption == MaxDelay \in Nat /\ Horizon \in Nat /\ MaxJobs \in Nat

VARIABLES
  left,       \* leftUs() of each timer
  listed,     \* m_timers.timers
  owned,      \* timers somebody outside the manager still holds
  cancelled,  \* m_wasCancelled
  fd,         \* time until the timerfd is readable, Off when it is not set
  recalc,     \* m_timers.recalcScheduled
  fns,        \* m_idle.fns
  source,     \* m_idle.eventSource is set
  control,    \* where the thread is: "poll", in onTimerFire, in the idle batch
  copy,       \* onTimerFire: the timers of CPY still to be looked at
  batch,      \* the idle callback: the functions still to be run
  active,     \* this round of onTimerFire or of the batch has called a callback
  jobs,       \* history: functions deferred so far
  ran,        \* history: functions that ran
  removed     \* history: functions taken back before they ran

timers == <<left, listed, owned, cancelled>>
deferred == <<fns, source>>
loop == <<control, copy, batch, active>>
history == <<jobs, ran, removed>>
vars == <<timers, fd, recalc, deferred, loop, history>>

Never == MaxDelay + Horizon + 1     \* m_expires is not set
Off == -1
Passed(t) == left[t] = -1

NUDGE == 0                \* the nudgeTimers of scheduleRecalc
Jobs == 1..MaxJobs
Entries == {NUDGE} \cup Jobs

Init ==
  /\ left = [t \in Timers |-> Never]
  /\ listed = {} /\ owned = {} /\ cancelled = {}
  /\ fd = Off /\ recalc = FALSE
  /\ fns = <<>> /\ source = FALSE
  /\ control = "poll" /\ copy = {} /\ batch = <<>> /\ active = FALSE
  /\ jobs = 0 /\ ran = {} /\ removed = {}

(* Compositor code runs as a handler of the poll loop or from a callback.  *)
CallersRun == control = "poll" \/ active

(* doLater *)
Later(j) == fns' = Append(fns, j) /\ source' = TRUE

ScheduleRecalc ==
  \/ recalc /\ UNCHANGED <<recalc, deferred>>
  \/ ~recalc /\ recalc' = TRUE /\ Later(NUDGE)

(***************************************************************************)
(* What callers do.                                                        *)
(***************************************************************************)
NewTimer(t) ==
  /\ CallersRun
  /\ t \notin owned \cup listed \cup copy
  /\ owned' = owned \cup {t}
  /\ cancelled' = cancelled \ {t}
  /\ \E d \in 0..MaxDelay \cup {Never} : left' = [left EXCEPT ![t] = d]
  /\ UNCHANGED <<listed, fd, recalc, deferred, loop, history>>

(* Mutant: a timer that is re-armed does not schedule a recalc.            *)
UpdateTimeoutSilent(t) ==
  /\ CallersRun
  /\ t \in owned
  /\ \E d \in 0..MaxDelay \cup {Never} : left' = [left EXCEPT ![t] = d]
  /\ UNCHANGED <<listed, owned, cancelled, fd, recalc, deferred, loop, history>>

UpdateTimeout(t) ==
  /\ CallersRun
  /\ t \in owned
  /\ \E d \in 0..MaxDelay \cup {Never} : left' = [left EXCEPT ![t] = d]
  /\ ScheduleRecalc
  /\ UNCHANGED <<listed, owned, cancelled, fd, loop, history>>

(* Nothing is rescheduled: the timerfd may fire for a cancelled timer.     *)
Cancel(t) ==
  /\ CallersRun
  /\ t \in owned
  /\ cancelled' = cancelled \cup {t}
  /\ left' = [left EXCEPT ![t] = Never]
  /\ UNCHANGED <<listed, owned, fd, recalc, deferred, loop, history>>

AddTimer(t) ==
  /\ CallersRun
  /\ t \in owned \ listed
  /\ listed' = listed \cup {t}
  /\ ScheduleRecalc
  /\ UNCHANGED <<left, owned, cancelled, fd, loop, history>>

RemoveTimer(t) ==
  /\ CallersRun
  /\ t \in owned \cap listed
  /\ listed' = listed \ {t}
  /\ ScheduleRecalc
  /\ UNCHANGED <<left, owned, cancelled, fd, loop, history>>

(* The last pointer to the timer is dropped without removeTimer.           *)
LoseTimer(t) ==
  /\ CallersRun
  /\ t \in owned
  /\ owned' = owned \ {t}
  /\ UNCHANGED <<left, listed, cancelled, fd, recalc, deferred, loop, history>>

DoLater ==
  /\ CallersRun
  /\ jobs < MaxJobs
  /\ jobs' = jobs + 1
  /\ Later(jobs + 1)
  /\ UNCHANGED <<timers, fd, recalc, loop, ran, removed>>

(* Only m_idle.fns is searched: a function already moved out into the batch*)
(* that is being run stays there.                                          *)
RemoveDoLater(j) ==
  /\ CallersRun
  /\ j <= jobs
  /\ \/ \E i \in DOMAIN fns :
          /\ fns[i] = j
          /\ fns' = [k \in 1..(Len(fns) - 1) |-> IF k < i THEN fns[k] ELSE fns[k + 1]]
     \/ /\ \A i \in DOMAIN fns : fns[i] # j
        /\ fns' = fns
  /\ source' = (source /\ Len(fns') > 0)
  /\ removed' = removed \cup ({j} \ ran)
  /\ UNCHANGED <<timers, fd, recalc, loop, jobs, ran>>

(***************************************************************************)
(* What the loop does.                                                     *)
(***************************************************************************)
(* The timerfd is readable: onTimerFire copies the vector.                 *)
TimerFire ==
  /\ control = "poll"
  /\ fd = 0
  /\ fd' = Off
  /\ control' = "timers" /\ copy' = listed
  /\ UNCHANGED <<timers, recalc, deferred, batch, active, history>>

(* One turn of the loop.  strongRef() > 2 counts the copy, the vector and  *)
(* an owner: a timer that an earlier callback removed or lost is not called*)
CallTimer(t) ==
  /\ control = "timers"
  /\ t \in copy
  /\ copy' = copy \ {t}
  /\ IF t \in listed \cap owned /\ Passed(t) /\ t \notin cancelled
     THEN left' = [left EXCEPT ![t] = Never] /\ active' = TRUE
     ELSE UNCHANGED <<left, active>>
  /\ UNCHANGED <<listed, owned, cancelled, fd, recalc, deferred, control, batch, history>>

TimersDone ==
  /\ control = "timers"
  /\ copy = {}
  /\ ScheduleRecalc
  /\ control' = "poll" /\ active' = FALSE
  /\ UNCHANGED <<timers, fd, copy, batch, history>>

(* Mutant: the batch is copied out and m_idle is left as it is.            *)
IdleCopies ==
  /\ control = "poll"
  /\ source
  /\ batch' = fns
  /\ control' = "idle"
  /\ UNCHANGED <<timers, fd, recalc, deferred, copy, active, history>>

(* The idle callback moves the functions out and forgets its source.       *)
Idle ==
  /\ control = "poll"
  /\ source
  /\ batch' = fns /\ fns' = <<>> /\ source' = FALSE
  /\ control' = "idle"
  /\ UNCHANGED <<timers, fd, recalc, copy, active, history>>

(* Mutant: recalcScheduled is not reset.                                   *)
NudgeTimersForgets ==
  /\ UNCHANGED recalc
  /\ listed' = listed \cap owned
  /\ fd' = Horizon + 1

(* nudgeTimers: forget the lost timers, sleep until the next one is due,   *)
(* rounded up so that it has passed by then.                               *)
NudgeTimers ==
  /\ recalc' = FALSE
  /\ listed' = listed \cap owned
  /\ \E next \in {Horizon} \cup {left[t] : t \in listed'} :
       /\ next <= Horizon
       /\ \A t \in listed' : next <= left[t]
       /\ fd' = IF next + 1 < 1 THEN 1 ELSE next + 1

(* Mutant: the batch ends with its first function.                         *)
RunJobOnce ==
  /\ control = "idle"
  /\ batch # <<>>
  /\ batch' = <<>>
  /\ \/ Head(batch) = NUDGE /\ NudgeTimers /\ UNCHANGED <<active, ran>>
     \/ /\ Head(batch) # NUDGE
        /\ active' = TRUE
        /\ ran' = ran \cup {Head(batch)}
        /\ UNCHANGED <<recalc, listed, fd>>
  /\ UNCHANGED <<left, owned, cancelled, deferred, control, copy, jobs, removed>>

(* One function of the batch.                                              *)
RunJob ==
  /\ control = "idle"
  /\ batch # <<>>
  /\ batch' = Tail(batch)
  /\ \/ /\ Head(batch) = NUDGE
        /\ NudgeTimers
        /\ UNCHANGED <<active, ran>>
     \/ /\ Head(batch) # NUDGE
        /\ active' = TRUE
        /\ ran' = ran \cup {Head(batch)}
        /\ UNCHANGED <<recalc, listed, fd>>
  /\ UNCHANGED <<left, owned, cancelled, deferred, control, copy, jobs, removed>>

IdleDone ==
  /\ control = "idle"
  /\ batch = <<>>
  /\ control' = "poll" /\ active' = FALSE
  /\ UNCHANGED <<timers, fd, recalc, deferred, copy, batch, history>>

Tick ==
  /\ left' = [t \in Timers |-> IF left[t] \in {-1, Never} THEN left[t] ELSE left[t] - 1]
  /\ fd' = IF fd > 0 THEN fd - 1 ELSE fd
  /\ UNCHANGED <<listed, owned, cancelled, recalc, deferred, loop, history>>

Next ==
  \/ \E t \in Timers :
       \/ NewTimer(t) \/ UpdateTimeout(t) \/ Cancel(t)
       \/ AddTimer(t) \/ RemoveTimer(t) \/ LoseTimer(t) \/ CallTimer(t)
  \/ DoLater \/ \E j \in Jobs : RemoveDoLater(j)
  \/ TimerFire \/ TimersDone \/ Idle \/ RunJob \/ IdleDone \/ Tick

Spec == Init /\ [][Next]_vars

-----------------------------------------------------------------------------
(* Every variable in its domain.                                           *)
TypeOK ==
  /\ left \in [Timers -> -1..Never]
  /\ listed \subseteq Timers /\ owned \subseteq Timers
  /\ cancelled \subseteq Timers /\ copy \subseteq Timers
  /\ fd \in -1..(Horizon + 1)
  /\ recalc \in BOOLEAN /\ source \in BOOLEAN /\ active \in BOOLEAN
  /\ fns \in Seq(Entries) /\ batch \in Seq(Entries)
  /\ control \in {"poll", "timers", "idle"}
  /\ jobs \in 0..MaxJobs /\ ran \subseteq Jobs /\ removed \subseteq Jobs

(* The flag that suppresses a second recalc is only up while the first one *)
(* is on its way, in the batch being run or deferred behind an idle source *)
(* that is set.  Otherwise no timer would be looked at ever again.         *)
NudgeComing ==
  recalc => \/ \E i \in DOMAIN batch : batch[i] = NUDGE
            \/ \E i \in DOMAIN fns : fns[i] = NUDGE

(* Deferred functions are never stranded without an idle source.           *)
IdleArmed == fns # <<>> => source

(* The timerfd never sleeps past an armed timer: either a recalc is coming *)
(* or it fires, at the latest, one rounding step after the timer is due,   *)
(* whatever callbacks did to the timers since it was set.                  *)
NoOversleep ==
  (~recalc /\ control # "timers") =>
     \A t \in listed : left[t] # Never =>
        /\ fd # Off
        /\ fd <= 1 \/ fd <= left[t] + 1

BatchOnlyIdle == control # "idle" => batch = <<>>

IInv == TypeOK /\ NudgeComing /\ IdleArmed /\ NoOversleep /\ BatchOnlyIdle

(* Deferred functions run in the order in which they were deferred, each   *)
(* once: what waits is sorted, and newer than everything that ran.         *)
InOrder(s) ==
  \A i, k \in DOMAIN s : i < k /\ s[i] # NUDGE /\ s[k] # NUDGE => s[i] < s[k]
JobsInOrder ==
  /\ InOrder(batch \o fns)
  /\ \A i \in DOMAIN (batch \o fns) : (batch \o fns)[i] # NUDGE =>
       /\ (batch \o fns)[i] <= jobs
       /\ \A j \in ran : j < (batch \o fns)[i]

-----------------------------------------------------------------------------
(* The thread keeps going: callbacks return, idle sources and a readable   *)
(* timerfd are dispatched however often others are, and polling takes time:*)
(* if each wait ended within the microsecond by which the timerfd is set   *)
(* ahead, callers that re-arm a timer every time would put it off for ever.*)
Fairness ==
  /\ SF_vars(control = "poll" /\ ~recalc /\ Tick)
  /\ \A t \in Timers : WF_vars(CallTimer(t))
  /\ WF_vars(TimersDone) /\ WF_vars(RunJob) /\ WF_vars(IdleDone)
  /\ SF_vars(Idle) /\ SF_vars(TimerFire)

FairSpec == Spec /\ Fairness

(* An overdue timer is called, unless somebody stops or re-arms it first,  *)
(* or cancelled it before (a cancelled timer can be armed again, and then  *)
(* stays overdue).                                                         *)
TimersFire ==
  \A t \in Timers : LET Due == t \in (owned \cap listed) \ cancelled /\ Passed(t)
                    IN Due ~> ~Due

(* A deferred function runs or is taken back.                              *)
JobsRun == \A j \in Jobs : (j <= jobs) ~> (j \in ran \cup removed)
=============================================================================
