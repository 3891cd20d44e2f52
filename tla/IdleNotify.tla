------------------------------ MODULE IdleNotify ------------------------------
(***************************************************************************)
(* Idle notifications, each with a timer that input and inhibitors start   *)
(* again, and the one flag that says whether the session is inhibited.     *)
(* The flag is worked out anew by recheckIdleInhibitorStatus from the      *)
(* inhibitors of clients and the rules of windows, whenever somebody calls *)
(* it: what it looks at also changes where nobody does.                    *)
(***************************************************************************)
EXTENDS Integers

CONSTANTS
  Notifs,       \* slots of ext_idle_notification objects
  Obeying,      \* those of get_idle_notification, which obey inhibitors
  Timeout,      \* their timeouts, in ticks
  Limit,        \* history and forceidle count no further than that
  Inhibitors,   \* slots of inhibitor objects
  Surfaces,     \* wl_surfaces
  Layers,       \* the ones that become layer surfaces; the others are windows
  Rules         \* what windows may have as their rule idle_inhibit

None == "none"

ASSUME SetsAssumption == Obeying \subseteq Notifs /\ Layers \subseteq Surfaces
ASSUME RulesAssumption == Rules \subseteq {"no rule", "always", "focus or fullscreen"}
ASSUME TimesAssumption == Limit \in Nat /\ Timeout \in [Notifs -> 0..Limit]

VARIABLES
  role,         \* its CWLSurface's view: none, layer, or a window's rule
  mapped,       \* view and surface are mapped
  shown,        \* the window is neither hidden nor transparent
  met,          \* the condition of the window's rule is met
  stage,        \* inhibitor: "none", "listed", "dropped" from the list, "inert"
  on,           \* the surface it was made for
  nonDesktop,   \* which had no role then
  isInhibited,
  note,         \* the notifications
  sinceInput,   \* history: ticks since the last input
  sinceHeld,    \* history: ticks since isInhibited was last up
  unseen        \* history: something changed that nobody rechecks

surfaces == <<role, mapped, shown, met>>
inhibitors == <<stage, on, nonDesktop>>
vars == <<surfaces, inhibitors, isInhibited, note, sinceInput, sinceHeld, unseen>>

Roles(s) == IF s \in Layers THEN {"layer"} ELSE Rules
Older(t) == IF t < Limit THEN t + 1 ELSE t

TypeOK ==
  /\ role \in [Surfaces -> {None, "layer"} \cup Rules] /\ mapped \in [Surfaces -> BOOLEAN]
  /\ shown \in [Surfaces -> BOOLEAN] /\ met \in [Surfaces -> BOOLEAN]
  /\ stage \in [Inhibitors -> {None, "listed", "dropped", "inert"}]
  /\ on \in [Inhibitors -> Surfaces \cup {None}]
  /\ nonDesktop \in [Inhibitors -> BOOLEAN]
  /\ isInhibited \in BOOLEAN
  /\ note \in [Notifs -> [alive : BOOLEAN, idled : BOOLEAN, left : SUBSET (0..Limit),
                          credit : 0..Limit, age : 0..Limit]]
  /\ sinceInput \in 0..Limit /\ sinceHeld \in 0..Limit /\ unseen \in BOOLEAN

-------------------------------------------------------------------------------
(* One notification after update(elapsed): left is what its timer has to   *)
(* go, if it is armed; credit, the elapsed it was given, and age are       *)
(* history.                                                                *)
Updated(n, elapsed, inhibited) ==
  LET held == elapsed = 0 /\ inhibited /\ n \in Obeying
      waits == ~held /\ Timeout[n] > elapsed
  IN  [note[n] EXCEPT !.idled = ~held /\ ~waits,
                      !.left = IF waits THEN {Timeout[n] - elapsed} ELSE {},
                      !.credit = elapsed]

Updates(S, elapsed, inhibited) ==
  note' = [n \in Notifs |-> IF note[n].alive /\ n \in S
                            THEN Updated(n, elapsed, inhibited) ELSE note[n]]

(* The flag is set and the notifications of S are updated. *)
SetFlag(inhibited, S) ==
  /\ isInhibited' = inhibited
  /\ Updates(S, 0, inhibited)
  /\ sinceHeld' = IF inhibited \/ isInhibited THEN 0 ELSE sinceHeld

(* Mutant: setInhibit updates no notification when the inhibition ends.    *)
SetInhibitOnly(inhibited) == SetFlag(inhibited, IF inhibited THEN Obeying ELSE {})

SetInhibit(inhibited) == SetFlag(inhibited, Obeying)

(* IView::aliveAndVisible. *)
AliveAndVisible(s) == role[s] # None /\ mapped[s] /\ shown[s]

(* isWindowInhibiting with onlyHl: the rule counts while there is a window,*)
(* mapped or not.                                                          *)
IsWindowInhibiting(s) ==
  role[s] = "always" \/ (role[s] = "focus or fullscreen" /\ met[s])

HoldsAwake(i) ==
  /\ stage[i] = "listed"
  /\ nonDesktop[i] \/ AliveAndVisible(on[i])

Holders == {i \in Inhibitors : HoldsAwake(i)} \cup {s \in Surfaces : IsWindowInhibiting(s)}

(* recheckIdleInhibitorStatus, of what the step leaves behind; or nobody   *)
(* rechecks, be it that nothing inhibits because of the step or no longer  *)
(* does, or that it is overlooked.                                         *)
Recheck == SetInhibit(Holders' # {}) /\ unseen' = FALSE
NoRecheck == UNCHANGED <<isInhibited, note, sinceHeld, unseen>>
Overlooked == unseen' = TRUE /\ UNCHANGED <<isInhibited, note, sinceHeld>>

-------------------------------------------------------------------------------
Fresh == [alive |-> FALSE, idled |-> FALSE, left |-> {}, credit |-> 0, age |-> 0]

Init ==
  /\ role = [s \in Surfaces |-> None]
  /\ mapped = [s \in Surfaces |-> FALSE] /\ met = mapped
  /\ shown = [s \in Surfaces |-> TRUE]
  /\ stage = [i \in Inhibitors |-> None]
  /\ on = stage /\ nonDesktop = [i \in Inhibitors |-> FALSE]
  /\ isInhibited = FALSE
  /\ note = [n \in Notifs |-> Fresh]
  /\ sinceInput = 0 /\ sinceHeld = Limit /\ unseen = FALSE

Elsewhere == UNCHANGED <<surfaces, inhibitors, unseen>>

(* onGetNotification: the constructor updates it. *)
GetNotification(n) ==
  /\ ~note[n].alive
  /\ note' = [note EXCEPT ![n] = [Updated(n, 0, isInhibited) EXCEPT !.alive = TRUE]]
  /\ Elsewhere /\ UNCHANGED <<isInhibited, sinceInput, sinceHeld>>

(* destroyNotification, which takes the timer off the loop. *)
DestroyNotification(n) ==
  /\ note[n].alive
  /\ note' = [note EXCEPT ![n] = Fresh]
  /\ Elsewhere /\ UNCHANGED <<isInhibited, sinceInput, sinceHeld>>

(* onActivity, of every input event. Mutant: only idle ones are updated. *)
ActivityIdle ==
  /\ Updates({n \in Notifs : note[n].idled}, 0, isInhibited)
  /\ sinceInput' = 0
  /\ Elsewhere /\ UNCHANGED <<isInhibited, sinceHeld>>
Activity ==
  /\ Updates(Notifs, 0, isInhibited)
  /\ sinceInput' = 0
  /\ Elsewhere /\ UNCHANGED <<isInhibited, sinceHeld>>

(* The dispatcher forceidle: setTimers. *)
ForceIdle(elapsed) ==
  /\ Updates(Notifs, elapsed, isInhibited)
  /\ Elsewhere /\ UNCHANGED <<isInhibited, sinceInput, sinceHeld>>

(* The loop calls a timer that has passed, which disarms it: onTimerFired. *)
FireTimer(n) ==
  /\ note[n].left = {0}
  /\ note' = [note EXCEPT ![n].left = {}, ![n].idled = TRUE]
  /\ Elsewhere /\ UNCHANGED <<isInhibited, sinceInput, sinceHeld>>

(* Time passes; the loop may be late for a timer. *)
Tick ==
  /\ note' = [n \in Notifs |-> IF ~note[n].alive THEN note[n] ELSE
       [note[n] EXCEPT !.age = Older(@),
                       !.left = {IF t = 0 THEN 0 ELSE t - 1 : t \in @}]]
  /\ sinceInput' = Older(sinceInput)
  /\ sinceHeld' = IF isInhibited THEN 0 ELSE Older(sinceHeld)
  /\ Elsewhere /\ UNCHANGED isInhibited

-------------------------------------------------------------------------------
(* onCreateInhibitor and newIdleInhibitor. *)
CreateInhibitor(i, s) ==
  /\ stage[i] = None
  /\ stage' = [stage EXCEPT ![i] = "listed"]
  /\ on' = [on EXCEPT ![i] = s]
  /\ nonDesktop' = [nonDesktop EXCEPT ![i] = role[s] = None]
  /\ UNCHANGED <<surfaces, sinceInput>>
  /\ Recheck

(* The client destroys its inhibitor.  The destructor emits destroy unless *)
(* the surface went first.                                                 *)
DestroyInhibitor(i) ==
  /\ stage[i] # None
  /\ stage' = [stage EXCEPT ![i] = None] /\ on' = [on EXCEPT ![i] = None]
  /\ nonDesktop' = [nonDesktop EXCEPT ![i] = FALSE]
  /\ UNCHANGED <<surfaces, sinceInput>>
  /\ IF stage[i] = "inert" THEN NoRecheck ELSE Recheck

(* A window or layer surface is made of a wl_surface, and a window's rules *)
(* are read at its first commit.                                           *)
Assign(s) ==
  /\ role[s] = None
  /\ \E r \in Roles(s) : role' = [role EXCEPT ![s] = r]
  /\ UNCHANGED <<mapped, shown, met, inhibitors, sinceInput>>
  /\ IF role'[s] = "always" THEN Overlooked ELSE NoRecheck

(* mapWindow rechecks, CLayerSurface::onMap does not. *)
Map(s) ==
  /\ role[s] # None /\ ~mapped[s]
  /\ mapped' = [mapped EXCEPT ![s] = TRUE] /\ shown' = [shown EXCEPT ![s] = TRUE]
  /\ UNCHANGED <<role, met, inhibitors, sinceInput>>
  /\ IF s \in Layers THEN Overlooked ELSE Recheck

(* unmapWindow, which gives focus and fullscreen up first, rechecks;       *)
(* CLayerSurface::onUnmap only where it gives a window the focus back,     *)
(* which is FocusChange.  Mutant: unmapWindow does not recheck.            *)
UnmapSilent(s) ==
  /\ mapped[s]
  /\ mapped' = [mapped EXCEPT ![s] = FALSE] /\ met' = [met EXCEPT ![s] = FALSE]
  /\ UNCHANGED <<role, shown, inhibitors, sinceInput>>
  /\ NoRecheck
Unmap(s) ==
  /\ mapped[s]
  /\ mapped' = [mapped EXCEPT ![s] = FALSE] /\ met' = [met EXCEPT ![s] = FALSE]
  /\ UNCHANGED <<role, shown, inhibitors, sinceInput>>
  /\ IF s \in Layers THEN Overlooked ELSE Recheck

(* The inhibitors that surfaceDestroyListener erases with the CWLSurface.  *)
Attached(s) == {i \in Inhibitors : stage[i] = "listed" /\ on[i] = s /\ ~nonDesktop[i]}

(* destroyWindow or CLayerSurface::onDestroy, after the unmap: unassign    *)
(* erases inhibitors, and nothing rechecks.  The wl_surface stays.         *)
Unassign(s) ==
  /\ role[s] # None /\ ~mapped[s]
  /\ role' = [role EXCEPT ![s] = None]
  /\ stage' = [i \in Inhibitors |-> IF i \in Attached(s) THEN "dropped" ELSE stage[i]]
  /\ UNCHANGED <<mapped, shown, met, on, nonDesktop, sinceInput>>
  /\ IF role[s] = "always" THEN Overlooked ELSE NoRecheck

(* CWLSurfaceResource::destroy.  Its role listens and every inhibitor made *)
(* for the surface, which emits destroy and rechecks.  The role unmaps a   *)
(* window, which rechecks while its rule still counts, and then takes it   *)
(* off the list, which does not.  An inhibitor made for a window listens   *)
(* after it, others may be before.  The slot is then that of a new surface.*)
DestroySurface(s) ==
  LET gone == {i \in Inhibitors : stage[i] \in {"listed", "dropped"} /\ on[i] = s}
      unmaps == mapped[s] /\ s \notin Layers
      last == SetInhibit(Holders' # {} \/ role[s] = "always")
  IN  /\ role' = [role EXCEPT ![s] = None]
      /\ mapped' = [mapped EXCEPT ![s] = FALSE] /\ met' = [met EXCEPT ![s] = FALSE]
      /\ stage' = [i \in Inhibitors |-> IF i \in gone THEN "inert" ELSE stage[i]]
      /\ UNCHANGED <<shown, on, nonDesktop, sinceInput>>
      /\ \/ gone # {} /\ Recheck
         \/ Attached(s) = {} /\ (gone # {} \/ unmaps) /\ last /\ unseen' = (role[s] = "always")
         \/ gone = {} /\ ~unmaps /\ role[s] = "always" /\ Overlooked
         \/ gone = {} /\ ~unmaps /\ role[s] # "always" /\ NoRecheck

(* rawWindowFocus and setFullscreenMode recheck when a window gains or     *)
(* loses the focus or the fullscreen its rule asks for, and when it is     *)
(* another window's.                                                       *)
FocusChange ==
  /\ \/ UNCHANGED met
     \/ \E s \in Surfaces : /\ role[s] = "focus or fullscreen" /\ mapped[s]
                           /\ met' = [met EXCEPT ![s] = ~@]
  /\ UNCHANGED <<role, mapped, shown, inhibitors, sinceInput>>
  /\ Recheck

(* setHidden, which takes the focus from a window that is hidden, and the  *)
(* alpha of a window: nobody rechecks.                                     *)
Hide(s) ==
  /\ mapped[s] /\ s \notin Layers
  /\ shown' = [shown EXCEPT ![s] = ~@]
  /\ met' \in {met, [met EXCEPT ![s] = @ /\ ~shown[s]]}
  /\ UNCHANGED <<role, mapped, inhibitors, sinceInput>>
  /\ Overlooked

-------------------------------------------------------------------------------
SurfaceStep ==
  \/ \E s \in Surfaces : Assign(s) \/ Map(s) \/ Unmap(s) \/ Unassign(s)
                         \/ DestroySurface(s) \/ Hide(s)
  \/ \E i \in Inhibitors : DestroyInhibitor(i) \/ \E s \in Surfaces : CreateInhibitor(i, s)
  \/ FocusChange

ForceStep == \E elapsed \in 0..Limit : ForceIdle(elapsed)

Next ==
  \/ SurfaceStep \/ Activity \/ ForceStep \/ Tick
  \/ \E n \in Notifs : GetNotification(n) \/ DestroyNotification(n) \/ FireTimer(n)

Spec == Init /\ [][Next]_vars

(* The loop calls passed timers, and time goes on. *)
FairSpec == Spec /\ WF_vars(Tick) /\ \A n \in Notifs : WF_vars(FireTimer(n))

-------------------------------------------------------------------------------
(* The session is inhibited exactly while a client's inhibitor is in view  *)
(* or a window's rule applies, since the last step that is overlooked: all *)
(* other ways in which inhibitors, roles, windows and surfaces come and go *)
(* recheck, or need not.                                                   *)
InhibitedExactly == ~unseen => (isInhibited <=> Holders # {})

(* A notification goes idle, or tells the client so, only when nothing was *)
(* typed or moved for its timeout, less what forceidle credited it, it is  *)
(* that old, and no inhibitor it obeys held the session in that time.      *)
NoEarlyIdle ==
  \A n \in Notifs : note[n].alive /\ note[n].idled =>
    /\ sinceInput + note[n].credit >= Timeout[n]
    /\ note[n].age + note[n].credit >= Timeout[n]
    /\ n \in Obeying /\ note[n].credit = 0 => sinceHeld >= Timeout[n]

(* When nothing starts its timer any more, a notification is idle in the   *)
(* end, or the session is inhibited: ending an inhibition arms the timer.  *)
Disturbed(n) ==
  Activity \/ ForceStep \/ (n \in Obeying /\ SurfaceStep) \/ GetNotification(n)
    \/ DestroyNotification(n)
IdleInTheEnd ==
  \A n \in Notifs : <>[][~Disturbed(n)]_vars =>
    <>[](~note[n].alive \/ note[n].idled \/ (isInhibited /\ n \in Obeying))
===============================================================================
