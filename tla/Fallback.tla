------------------------------- MODULE Fallback -------------------------------
(***************************************************************************)
(* CFallbackStateKeeper: an output FALLBACK stands in while the session has*)
(* no other.  It hears of monitors through three events of the event bus,  *)
(* arms a timer at startup, and adds or removes its output in a function   *)
(* left to doLater, so that what it decided and what the list of monitors  *)
(* says are apart until the loop is idle.                                  *)
(***************************************************************************)
EXTENDS Sequences

CONSTANTS
  Real,        \* the outputs of the backend
  FALLBACK

ASSUME FallbackAssumption == FALLBACK \notin Real

VARIABLES
  headless,   \* there is a headless backend, and it makes the output
  ready,      \* startCompositor emitted ready
  timer,      \* m_launchTimer: "unset", "armed" or "gone"
  started,    \* renderMonitor emitted start, once
  present,    \* m_realMonitors, without FALLBACK
  monitors,   \* m_monitors: the enabled ones
  active,     \* m_fallbackActive
  deferred,   \* m_fallbackStateUpdateDeferred
  jobs,       \* the keeper's functions left to doLater
  idling,     \* they are being run: no event comes in between
  lost        \* history: why the keeper is not active without an output of
              \* the backend: "start" or "unplug", else "no"

loop == <<jobs, idling>>
vars == <<headless, ready, timer, started, present, monitors, active, deferred, loop, lost>>

(* m_fallbackOutput: it is set when FALLBACK is added, which enables it.   *)
HasOutput == FALLBACK \in monitors

(* setFallbackActive; queue is what is left to doLater before. *)
SetFallbackActive(enabled, queue) ==
  /\ active' = enabled
  /\ deferred' = (deferred \/ enabled # active)
  /\ jobs' = IF enabled = active \/ deferred THEN queue ELSE Append(queue, "update")

Unaware == UNCHANGED <<active, deferred, jobs>>

Remember(why) ==
  lost' = IF active' \/ monitors' \cap Real # {} THEN "no"
          ELSE IF lost # "no" THEN lost ELSE why

Init ==
  /\ headless \in BOOLEAN
  /\ ready = FALSE /\ timer = "unset" /\ started = FALSE
  /\ present = {} /\ monitors = {}
  /\ active = FALSE /\ deferred = FALSE
  /\ jobs = <<>> /\ idling = FALSE /\ lost = "no"

(* Mutants: the listener does not look at the list; it does nothing. *)
OnAnyRemoved(m) == SetFallbackActive(TRUE, jobs)
OnRemovedNot(m) == Unaware

(* The listener of monitor.removed: the list may still have m. *)
OnRemoved(m) ==
  IF monitors \ {m} = {} THEN SetFallbackActive(TRUE, jobs) ELSE Unaware

(* Mutant: without the listener of monitor.added. *)
ConnectUnheard(m) ==
  /\ ~idling /\ m \notin monitors
  /\ present' = present \cup {m} /\ monitors' = monitors \cup {m}
  /\ Unaware
  /\ UNCHANGED <<headless, ready, timer, started, idling>>
  /\ Remember("no")

(* A new output, or a disabled one that a monitor rule enables: the        *)
(* listener of monitor.added.                                              *)
Connect(m) ==
  /\ ~idling /\ m \notin monitors
  /\ present' = present \cup {m} /\ monitors' = monitors \cup {m}
  /\ IF active THEN SetFallbackActive(FALSE, jobs) ELSE Unaware
  /\ UNCHANGED <<headless, ready, timer, started, idling>>
  /\ Remember("no")

MayGo == ready /\ ~idling

(* FALLBACK is still on the list, though it may be about to go.            *)
Overlooked == Remember(IF HasOutput THEN "unplug" ELSE "no")

Disable(m) ==
  /\ MayGo /\ m \in monitors
  /\ monitors' = monitors \ {m}
  /\ OnRemoved(m)
  /\ UNCHANGED <<headless, ready, timer, started, present, idling>>
  /\ Overlooked

(* The output is destroyed; removed is emitted for a disabled one as well. *)
Unplug(m) ==
  /\ MayGo /\ m \in present
  /\ present' = present \ {m} /\ monitors' = monitors \ {m}
  /\ OnRemoved(m)
  /\ UNCHANGED <<headless, ready, timer, started, idling>>
  /\ Overlooked

(* The loop does not run before startCompositor comes here. *)
Ready ==
  /\ ~ready
  /\ ready' = TRUE /\ timer' = "armed"
  /\ UNCHANGED <<headless, started, present, monitors, active, deferred, loop>>
  /\ Remember("no")

(* Mutant: it does not look for monitors but for the state of the keeper. *)
LaunchTimeoutOnce ==
  /\ timer = "armed" /\ ~idling
  /\ timer' = "gone"
  /\ IF active THEN SetFallbackActive(TRUE, jobs) ELSE Unaware
  /\ UNCHANGED <<headless, ready, started, present, monitors, idling>>
  /\ Remember("no")

LaunchTimeout ==
  /\ timer = "armed" /\ ~idling
  /\ timer' = "gone"
  /\ IF monitors \subseteq {FALLBACK} THEN SetFallbackActive(TRUE, jobs) ELSE Unaware
  /\ UNCHANGED <<headless, ready, started, present, monitors, idling>>
  /\ Remember("no")

(* The first frame of any monitor emits start. *)
RenderFirst(m) ==
  /\ ~started /\ ~idling /\ m \in monitors
  /\ started' = TRUE
  /\ timer' = IF timer = "armed" THEN "gone" ELSE timer
  /\ jobs' = Append(jobs, "leave")
  /\ UNCHANGED <<headless, ready, present, monitors, active, deferred, idling>>
  /\ Remember("no")

(* A function left to doLater runs; those left meanwhile run after it.     *)
IsNext(job) == ready /\ jobs # <<>> /\ Head(jobs) = job
Ran == idling' = (jobs' # <<>>) /\ UNCHANGED <<headless, ready, timer, started, present>>

(* Mutant: the flag of a queued update is not reset. *)
RunUpdateFlagged ==
  /\ IsNext("update")
  /\ jobs' = Tail(jobs)
  /\ \/ active /\ headless /\ monitors' = monitors \cup {FALLBACK}
     \/ active /\ ~headless /\ UNCHANGED monitors
     \/ ~active /\ monitors' = monitors \ {FALLBACK}
  /\ UNCHANGED <<active, deferred>>
  /\ Ran /\ Remember("no")

RunUpdate ==
  /\ IsNext("update")
  /\ jobs' = Tail(jobs)
  /\ deferred' = FALSE
  /\ \/ active /\ headless /\ monitors' = monitors \cup {FALLBACK}
     \/ active /\ ~headless /\ UNCHANGED monitors
     \/ ~active /\ monitors' = monitors \ {FALLBACK}
  /\ UNCHANGED active
  /\ Ran /\ Remember("no")

RunLeave ==
  /\ IsNext("leave")
  /\ SetFallbackActive(FALSE, Tail(jobs))
  /\ UNCHANGED monitors
  /\ Ran /\ Remember("start")

Next ==
  \/ \E m \in Real : Connect(m) \/ Disable(m) \/ Unplug(m)
  \/ Ready
  \/ LaunchTimeout
  \/ \E m \in Real \cup {FALLBACK} : RenderFirst(m)
  \/ RunUpdate
  \/ RunLeave

Spec == Init /\ [][Next]_vars

(* The event loop goes on: what is left to it runs, timers are called, and *)
(* startup comes to its end.                                               *)
Fairness == WF_vars(Ready) /\ WF_vars(LaunchTimeout) /\ WF_vars(RunUpdate \/ RunLeave)

FairSpec == Spec /\ Fairness

-------------------------------------------------------------------------------
TypeOK ==
  /\ {headless, ready, started, active, deferred, idling} \subseteq BOOLEAN
  /\ lost \in {"no", "start", "unplug"}
  /\ timer \in {"unset", "armed", "gone"}
  /\ present \subseteq Real /\ monitors \subseteq present \cup {FALLBACK}
  /\ jobs \in Seq({"update", "leave"})

(* The keeper is active only while there is no other output: whatever comes*)
(* or goes between its decision and the function that acts on it, it never *)
(* holds FALLBACK up beside an output that works.                          *)
ActiveAlone == active => monitors \subseteq {FALLBACK}

(* When nothing is left to doLater the output is there if and only if the  *)
(* keeper is active: the flag that keeps the function from being queued    *)
(* twice loses no change, in whatever order changes and idle runs come.    *)
Settled == jobs = <<>> => /\ ~deferred
                          /\ HasOutput => active
                          /\ headless /\ active => HasOutput

(* Once the launch timer is done with and the loop is idle there is an     *)
(* output, but for two ways to lose it: the function that start leaves to  *)
(* the loop ends the fallback, and an output goes again before FALLBACK has*)
(* left, which the listener counts (FallbackState.cpp:28).  No other order *)
(* of outputs that come and go, of the timer, the first frame and idle runs*)
(* ends without one.                                                       *)
Stranded == headless /\ timer = "gone" /\ jobs = <<>> /\ monitors = {}
NeverStranded == Stranded => lost # "no"

(* "If we're taking more than [timeout] to init - enter fallback so that   *)
(* everything else can run properly" (FallbackState.cpp:68-69).  But the   *)
(* first frame is then one of FALLBACK, and start takes FALLBACK away.     *)
StartStrandsNobody == Stranded => lost # "start"

(* FALLBACK does not stay beside an output that stays. *)
FallbackLeaves == monitors \cap Real # {} ~> ~HasOutput \/ monitors \cap Real = {}

(* A session without an output gets one, unless it was lost in one of the  *)
(* two ways.                                                               *)
OutputComes == headless /\ ready /\ monitors = {} ~> monitors # {} \/ lost # "no"
===============================================================================
