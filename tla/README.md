# Verification of the Hyprland compositor

TLA+ models of the parts of Hyprland (`src/src/`, a Wayland compositor in C++)
whose correctness depends on the order in which things happen, the TLC runs
that check them on small instances, and TLAPS proofs of what matters most for
every value of the parameters.

Everything in the compositor runs on one thread.  What makes it hard is not
parallelism but *re-entrancy and asynchrony*: clients send requests at any
time, GPU fences, page flips, timers and idle callbacks arrive in any order,
and a callback may change the state that the code which called it still walks
over.  Those orders are what the models explore.

## 1. Inventory

| part | state it keeps | operations | hard behaviour |
|---|---|---|---|
| surfaces (`protocols/core/Compositor`, `protocols/types/Surface*`, `Fifo`, `CommitTiming`, `DRMSyncobj`) | pending and current state, a queue of committed states with lock bits | requests, commit, unlock, present, null commit, destroy | fences, presents and timers open locks in any order |
| event loop (`managers/eventLoop`) | timers, one timerfd, deferred functions, fd waiters | add, remove, re-arm, cancel, doLater, removeDoLater, onTimerFire, nudgeTimers | callbacks change the lists being walked |
| damage (`output/DamageRing`, `Monitor`, `render/Renderer`) | current region, ring of earlier regions, forced full frames | damage, rotate, getBufferDamage, setSize | buffer ages, failed commits, rollbacks |
| frame scheduling (`output/MonitorFrameScheduler`) | renderAtFrame, pendingThird, fences waited for | onFrame, onPresented, onSyncFired, commit | late frames, dropped events, deferred commits |
| session lock (`managers/SessionLockManager`, `protocols/SessionLock`, `protocols/LockNotify`) | locked flag, the current lock, its surfaces, outputs that rendered it | lock, map, render, sendLocked, unlock, destroy, force unlock | clients crash and are replaced, outputs come and go, a timer races the last frame |
| outputs (`output`) | modes, mirrors, VRR, direct scanout | rules, connect, disconnect, test and commit | backend refusals, reconfiguration during a frame |
| renderer (`render`) | passes, framebuffers, shaders | drawing | mostly data |
| subsurfaces, roles (`protocols/core/Subcompositor`, `desktop/view/Subsurface`) | cached states, z-order | sync, desync, place | a parent's commit applies the children's |
| xdg-shell (`protocols/XDGShell`) | configure serials | configure, ack, commit | acks out of step with commits |
| buffers (`protocols/types/Buffer`, `DMABuffer`) | references | attach, release | release while a state or a scanout still holds one |
| windows, groups, popups (`desktop/view`) | mapping, groups | map, unmap, group | destruction while iterated |
| workspaces (`desktop/Workspace`, `state`, parts of `output/Monitor`) | which workspace is on, shown on, and to return to which monitor; where windows are | show, move, swap, open special, connect, disconnect, disable | four records of one fact, nested moves, outputs that go in one order and return in another |
| fallback output (`state/FallbackState`) | active flag, deferred update, launch timer | monitor added and removed, ready, start, timeout | decided now, done when the loop is idle |
| focus (`desktop/state`, `desktop/history`) | focused window and monitor, history | focus, close | focusing shows and closes workspaces |
| fullscreen (`managers/fullscreen`) | internal and client modes | set, toggle | two modes per window |
| layouts (`layout`) | trees, columns | insert, remove, resize | tree invariants |
| window rules (`desktop/rule`) | rule lists | match, apply | mostly string data |
| input (`managers/input`, `SeatManager`, `KeybindManager`) | grabs, pressed keys, focus of the seat | enter, leave, grab | grabs that outlive their surface |
| drag and drop (`protocols/core/DataDevice`, `managers/SeatManager`) | the drag, two pointer focuses, offers | start, hover, drop, finish, abort | sources, surfaces, devices and receivers that go away in the middle |
| clipboard (`protocols/PrimarySelection`, ...) | the selection, offers | set, offer | - |
| screen sharing (`managers/screenshare`) | sessions, frames | share, stop | a frame whose source goes away |
| permissions (`managers/permissions`) | rules, pending requests | ask, answer | answers after the client left |
| idle (`protocols/IdleNotify`, `IdleInhibit`, `managers/input/IdleInhibitor`) | notifications with a timer each, inhibitors, one flag for the session | activity, forceidle, inhibit, recheck | the flag is stale where nobody rechecks; timers race input and inhibition |
| ANR (`managers/ANRManager`) | missed pings, dialogs | ping, pong, tick | late pongs |
| animations, configuration, XWayland, plugins, pointer, debug, other protocols | - | - | listed in `PROJECT.json` with the reason |
| launcher, hyprctl, hyprpm (`start`, `hyprctl`, `hyprpm`) | separate programs | - | the launcher restarts a crashed compositor |

How the modelled parts meet:

```
 client --requests--> SURFACE --applied state--> damage --> DAMAGE RING
                        ^  ^                                   |
      fences, timers ---+  +--- presents                  what to repaint
            |                      |                           v
       EVENT LOOP  <-timers-  FRAME SCHEDULER --render, commit--> swapchain
            |                      |                            (aquamarine)
       lock timer             lock frames
            v                      v
         SESSION LOCK  <--- surfaces, crashes of the lock client

 backend --outputs--> FALLBACK KEEPER --adds, removes--> FALLBACK output
    |                    ^  doLater, launch timer (EVENT LOOP)
    +---- connect, disconnect ----> WORKSPACES <---- dispatchers, windows
 client --start_drag, offers--> DRAG AND DROP <---- pointer (seat), surfaces
```

What each must guarantee:

* **surface**: commits are applied in order, each at most once, none before its
  fence unless the code forces it, none left behind when nothing holds it any
  more; frame callbacks are answered once.
* **event loop**: an armed timer is called soon after it is due, a deferred
  function runs, both whatever callbacks do; nobody is called who left.
* **damage**: a frame shows nothing from before the last change, on whichever
  buffer of the swapchain it is painted.
* **frame scheduler**: damage leads to a frame, late frames included, and no
  buffer is painted while it is on the screen.
* **workspaces**: every monitor shows a workspace that says it is there, no
  window is left on an output that is gone, the focused monitor is one that is
  there, and a workspace returns to the output it was first taken from.
* **fallback output**: there is an output whenever the session needs one, and
  FALLBACK never stays beside another.
* **drag and drop**: what is dropped goes to the client that was offered it, the
  source is answered, the drag ends and the pointer is given back.
* **idle**: the session is inhibited while something inhibits it and no longer;
  nobody is told idle before their time, and everybody in the end.
* **session lock**: hidden content stays hidden until somebody who may unlocks;
  the `locked` event is sent once, and early only when every output is covered.

## 2. Modules

| module | what it is |
|---|---|
| `ContentUpdates` | abstract: what a surface promises a client about its commits, without locks, fences or timers |
| `SurfaceQueue` | one `wl_surface` with its queue and every extension that locks it; implements `ContentUpdates` |
| `SurfaceFrames` | `SurfaceQueue` with the frames of its outputs: presents come from frames, frames from what asks for one |
| `EventLoop` | `CEventLoopManager`: timers behind one timerfd, functions behind one idle source |
| `DamageRing` | `CDamageRing` together with the swapchain it describes |
| `OutputFrames` | `CMonitorFrameScheduler`, the frame part of the renderer, the output |
| `OutputFramesMC` | its instance: every setting |
| `SessionLock` | protocol objects, manager, timer, lock notifications, what outputs show |
| `SessionLockMC` | its two sessions: a settled one with three lock clients, and one with two where everything may happen |
| `Workspaces` | the placement controller, monitors that come and go, dispatchers and windows as far as they place workspaces |
| `WorkspacesMC` | its two instances: one with windows and a special workspace, one with workspace rules |
| `Fallback` | `CFallbackStateKeeper` with startup, the first frame and the list of monitors |
| `DragAndDrop` | `wl_data_device` drags, the seat's pointer focus, offers |
| `DragAndDropMC` | its instance: two clients with a surface each |
| `IdleNotify` | `ext_idle_notify` and `zwp_idle_inhibit` with the rules of windows, and time |
| `IdleNotifyMC` | its timeouts |
| `...Proofs` | theorems about each, in a module of its own; `DamageRingFallbackProofs` has those of two small modules |

A definition whose comment begins with "Mutant:" is a deliberately wrong
variant of the definition that follows it.  It is used by nothing; substituted
for the right one it must break the property `PROJECT.json` pairs it with, which
shows that the property depends on that piece of the code.

### SurfaceQueue

Variables are the members of `CWLSurfaceResource` and `CSurfaceStateQueue` that
decide when a state is applied: `pending` is `m_pending`, `queue` is
`m_stateQueue` (`lockMask`, `barrierSet`, `timer` as in `SSurfaceState`),
`barrier`, `texture` and `callbacks` are in `m_current`.  A commit is a number,
its place in the client's stream; regions, geometry and pixels are left out.
`CommitRejectedEarly`, `CommitNull`, `CommitRejected`, `CommitWaits`,
`CommitReady` and `CommitUnwaited` are the paths through the commit handler,
split by its early returns and by whether a fence is still to be waited for.
`TryProcess` is written as what the loop leaves behind: the longest prefix of
open states is applied.  `FenceReadable`, `FenceFails`, `TimerFires`,
`Presented`, `SameBufferScanout` and `UnfocusedTick` are everything that opens a
lock.  `waiters` are the fds in the event loop on behalf of a state; they live
on when the state is gone, as in the code.

`ContentOrder` is the refinement mapping to `ContentUpdates`: `waiting` is the
sequence of queued numbers, `shown` the last applied one, `unready` the commits
whose fence is out or failed and that nobody forced.

Not modelled: synchronised subsurfaces, buffer references and their release,
input regions, the tearing and content-type hints, viewports.

### SurfaceFrames

`SurfaceQueue` lets an output present at any time; that is enough for safety, but no
reason to expect that it ever does.  Here an output only renders when it was asked to
(`due`), and only presents what it rendered (`flipping`).  It is asked by what is
damaged: mapping and unmapping, a commit if it damages anything, which is the
client's choice (`Asked`), a workspace that is shown or hidden, and whatever else is
on the output (`ShowOrHide`, `DamageElsewhere`).  `view` says whether the surface is
hidden, drawn, or scanned out itself, which only a dmabuf can be (`content`);
`RenderSameBuffer` is the frame of an unmodified buffer that is scanned out, which
commits and presents nothing.  `unpaced` is a history variable: why, since the last
present, a barrier may be set with no present to come.  Frame callbacks, which only
ask for more frames, and `debug:fifo_pending_workaround`, which is off by default,
are left out.

### EventLoop

Time is relative.  `left[t]` is `leftUs()` with one unit for the microsecond
the code rounds by, -1 for any time overdue; `fd` is the time until the timerfd
is readable.  `control`, `copy` and `batch` say where the thread is: in the poll
loop, in the loop of `onTimerFire`, or in the idle callback.  `CallersRun` is
true in the poll loop and inside a callback, so every operation of the interface
may happen between any two steps of the two loops: that is the re-entrancy.  A
timer's reference count is two sets, `listed` (the manager's) and `owned`
(somebody else's); `strongRef() > 2` in the copy loop means both.
`doOnReadable` appears where it is used, as `waiters` and `syncs` in the other
modules.

### DamageRing

The screen is a set of tiles.  A buffer of the swapchain is represented by the
tiles it does *not* show correctly (`stale`), which the code cannot see: it has
only the ring and the age of the buffer.  `Render` is a frame from `beginRender`
to a successful `endRender` and commit, `BeginRenderFails` and `CommitFails` the
two failure paths, `Restyle` a change announced through `m_forceFullFrames` only
(`Forced` holds the numbers the code asks for), `SetSize` a mode change.
`missed` remembers buffers that `beginRender` acquired and gave up, `skipped` those
whose turn comes after the last frame that a refresh forced, both until they are
repainted as a whole.

### OutputFrames

`FrameIdle` and `FrameAfterFlip` deliver frame events to `OnFrame`, `PageFlip`
is the present event, `OnSyncFired` the render fence, `CommitThird` the commit
that `onPresented` defers to the idle queue.  Two present/frame steps are split
(`handling`) because other code runs between them in one dispatch only: nothing
else is enabled meanwhile.  A render is `Skip` or `Paint`; a commit is
`Accepted` or `Refused`, and a refused one rolls the swapchain back and damages
the monitor.  Here a frame is painted whole; what must be repainted is
`DamageRing`'s question.  A fence may be late whatever it is the fence of: after a
render that was skipped too, when there is no flip to wait for, or with a frame
painted ahead already (`SyncLate`).  `setting` never changes within a behaviour: it says
whether frames may be late, commits fail and `newSchedulingEnabled` change, and
each property names the settings it is about.  Tearing, direct scanout as a source of commits, and an
inactive seat session are left out.

### SessionLock

`state` of the lock objects is the client's side, `current` the lock
`CSessionLockManager` holds (`m_sessionLock`); they differ when a client was
refused, ignored or replaced.  `shown[m]` is what the last frame of an output
leaves on it, computed by `Frame` from the conditions of `renderWorkspace` and
`renderLockscreen`.  `setting` is what the session is like, the same throughout: which
lock clients come, `misc:allow_session_lock_restore` (`MayRelock`), a session that
starts locked, and clients that destroy a lock surface before the lock; `Settled` is
a session with none of the three.  `Destroy` is a crash as well as a client that gives up.
`SwitchOutput` is connection, disconnection and DPMS.  Configure and
acknowledgement of lock surfaces and keyboard focus are left out.

### Workspaces

All state is one record, `desk`, and every operator is one C++ function from a
desk to the desk it leaves: `MoveWorkspaceToMonitor`, `SwapActiveWorkspaces`,
`EnsurePersistent` and `EnsureAssigned` of the placement controller;
`ChangeWorkspace`, `SetSpecialWorkspace`, `SetupDefaultWS`, `OnConnect` and
`OnDisconnect` of the monitor; `RawWindowFocus` of the focus.  They are nested
as the code nests them, so an action is a whole handler: `Unplug` is
`onDisconnect` with a move for each workspace, each of which may plug a gap,
change what is shown, and focus.  The actions are outputs that connect, go or
are disabled (`Disable` keeps the object, `Unplug` destroys it and empties weak
references), the function `onConnect` leaves to `doLater`, the dispatchers
(`ChangeTo`, `BringHere`, `MoveToMonitor`, `ToggleSpecial`, `Swap`,
`FocusMonitor`, `MoveWindow`, `PinWindow`, `GoToWindow`), clicks and activations
(`ClickWindow`) and windows that map
and unmap.

A workspace is only held by weak references; it ceases to exist when no monitor,
no window, no persistence and no running function holds it.  `Collect` is that,
and its second argument is what the running function holds.

The setup is one of `Setups`: the workspace rules (which ids are bound to which
output, and the persistent ones in the order of the rules, since
`ensurePersistentWorkspacesPresent` goes through them in that order), the default workspace of each
output and `binds:hide_special_on_workspace_change`, together with what may
happen under it.  Left out: names, groups, mirrors, fullscreen, `input:follow_mouse`
(taken to be 0, so that focus does not follow hit tests) and
`input:special_fallthrough` (off), the X11 side, and which of several windows of
a workspace is the last focused.

`Orderly` keeps three cases out of the run of the invariants, each of which
leaves something behind on an output that goes: a pinned window on it (windows
do not follow when their workspace is moved, `WorkspacePlacementController.cpp`
passes over pinned ones); a gap that may be plugged with a workspace that a rule makes
persistent when it is created, which keeps it alive on the output; and
the last output going with more than an empty workspace, which is what
`workspaces_orphans` looks at.

`FirstOwnerKept` needs no `Orderly`.  It is about workspaces that something holds
until the handler is through: a window that is not pinned, or a workspace rule
(`KeptAlive`).  Any other may be dropped in the middle of a handler and the same
id made anew, without a monitor to return to.  That happens even to a workspace
that is persistent, in the function `onConnect` leaves to the event loop: when the
monitor of its rule is away, `ensurePersistentWorkspacesPresent` lets the empty workspace
go, and `moveWorkspaceToMonitor` may find its id free for the gap it has to plug.  It
takes three outputs, more than the run has; the attempt to prove the property
without the condition found it.

### Fallback

`monitors` is the list of enabled outputs, `present` those that exist; the order
in which the listeners of `monitor.removed` are called is why `OnRemoved` looks
at the list without the output, as the code does.  `jobs` are the keeper's
functions in the idle queue, and `idling` keeps events from coming between them.
The first frame ever may be one of FALLBACK, and outputs go while functions are left
to run.  `lost` is a history variable: when the keeper is not active and there is no
output of the backend, it says whether `start` or an output that went made it so.

### DragAndDrop

`dnd` holds `m_dnd` and what it works on: the seat's `pointerFocus` (`ptr`) and
`dndPointerFocus` (`focus`), the surface each device has entered, and the offers.
As in Workspaces, an operator is one function from such a record to the next, and
`AbortDrag` within `InitiateDrag` is the nested call of the code.  Requests on an
offer may come at any time after it was made; `Usable` is the check in each
handler.  Clients are taken to follow the protocol (they finish only what was
dropped on them), but they need not finish: `DestroyOffer` and `DestroyDevice` may come
at any time, and leave a drag that nobody can end (`Deserted`).  `overtaken` is a
history variable: the user went to another surface, or started another drag, before
a drop was finished.

### IdleNotify

`isInhibited` is the flag of `CIdleNotifyProtocol`; `Recheck` is
`recheckIdleInhibitorStatus`, which looks at all inhibitors and windows
(`Holders`) and updates the notifications that obey it.  Each action says whether
the code behind it calls that function (`Recheck`), need not (`NoRecheck`: nothing
inhibits because of the step or ceases to), or does not although it may matter
(`Overlooked`, which the history variable `unseen` remembers until somebody rechecks).
Windows that map or unmap, focus, fullscreen and inhibitors recheck; layer surfaces,
hidden and transparent windows, and windows with the rule `always` that come or go
are overlooked.  A window whose surface is destroyed is unmapped first, which rechecks
with its rule still on the list, and taken off it then, which does not
(`DestroySurface`; `XDGShell.cpp:505`, `Window.cpp:2702`, `2796`).  `role` is what a
surface is: nothing, a layer surface, or a window with one of `Rules`.  The rule `always` counts as long as the window exists; of
`focus` and `fullscreen` the variable `met` says whether their condition is met.
An inhibitor is `listed` from its request on, `dropped` when the `CWLSurface` it
was made for ends (the manager forgets it, its destructor still rechecks), and
`inert` when its `wl_surface` is gone.

A notification's `left` is what its timer has to go, a set of none or one; `idled`
is `m_idled`.  Time goes on in `Tick`, however late the loop is for a timer.  Four
history variables say how long ago the last input was (`sinceInput`) and the
session was last inhibited (`sinceHeld`), how old a notification is (`age`) and
what `forceidle` credited it with (`credit`).

Left out: a workspace that stops being visible under a fullscreen window without
a change of focus, and rules or properties changed while the window is there.

## 3. Runs

Ten runs pass, two show a disagreement between the code and its own comments.

| run | instance | shows |
|---|---|---|
| `surface_wide` | 2 outputs, 2 commits, 2 fds, every extension | `NoMissedWakeup`, `InCommitOrder`, `LocksHaveOwners`, `FenceRespected`, `CallbacksAccounted`, `UpdatesSpec` (the refinement) |
| `surface_frames` | 1 output, 3 commits, FIFO, fences | `OneBarrierPerStep`, `QueueDrains` |
| `loop` | 2 timers, 2 functions | `NoOversleep`, `JobsInOrder`, `TimersFire`, `JobsRun` |
| `damage_ring` | 2 tiles, 3 buffers, ring of 3, forced frames 2 and 5 | `Fresh` |
| `frames` | frames may be late, commits fail and scheduling change, in every combination; 3 damages, 3 fences | `BlockedOnlyWhileScheduled`, `NoFrontWrites`, `DamageComing`, `DamageShown` |
| `lock` | 2 outputs; 3 lock clients in a settled session, 2 in one with restoring, a locked start and surfaces that go away | `Covered`, `LockedOnce`, `AnnouncedIsHidden`, `HiddenStaysHidden`, `Answered` |
| `workspaces` | 2 outputs and FALLBACK; a window, a special workspace and pins, or a bound persistent workspace and outputs that all go | `Shown`, `NoWindowLeft`, `WindowBesideWorkspace`, `FirstOwnerKept` |
| `fallback` | 3 outputs, with and without a headless backend | `ActiveAlone`, `Settled`, `NeverStranded`, `FallbackLeaves`, `OutputComes` |
| `dnd` | 2 clients, 2 sources, 2 offers; a source, a surface and a device may go | `PointerLocked`, `TargetHasOffer`, `HoverEnds`, `SourceAnswered`, `DragEnds` |
| `idle` | 2 notifications of which one obeys inhibitors; an inhibitor, a layer surface, a window with either kind of rule, hidden and shown | `InhibitedExactly`, `NoEarlyIdle`, `IdleInTheEnd` |
| `workspaces_orphans` | the last output may go with windows | **violated** `OrphansRecovered` |
| `fallback_start` | no output but FALLBACK | **violated** `StartStrandsNobody` |

### What the violated runs show

**Orphans.** When the last output goes, its workspaces stay without a monitor.
`Monitor.cpp:330` means to "temporarily recover orphaned workspaces" when an
output connects and is the only real one, but it counts the list of monitors
before the connecting one is on it (the `added` event at line 388 puts it there).
So the first output that comes recovers nothing, unless it bears the name the
workspaces remember, and the second one takes them.

**Stranded by start.**  When no output comes in time, FALLBACK does "so that everything
else can run properly" (`FallbackState.cpp:68`).  The `start` event takes it away
again (line 96), but it comes with the first frame of any monitor, FALLBACK's own
included: the session is left without an output.

### What the passing runs except

A property that holds only under a condition names it; each condition excludes
something the code does:

* `BlockedOnlyWhileScheduled`: `~ MayToggle`.  A late frame blocks frame events until
  its fence.  When that fence fires while the new scheduling is off, `onSyncFired`
  returns first (`MonitorFrameScheduler.cpp:22`) and nothing unblocks frames once it
  is on again.
* `DamageComing`: `~ MayLate`.  `onSyncFired` blocks frames because "we already
  scheduled" (line 39) before it knows whether `renderMonitor` paints; without
  `needsFrame` it does not, and the frame event of the next damage is dropped.
* `NoFrontWrites`: `~ MayLate`.  The commit that `onPresented` defers may run after a
  frame event has committed; it fails on the pending flip, and the rollback that is to
  "avoid writing to the front buffer that is being displayed" (`Renderer.cpp:2453`)
  moves the swapchain back onto the committed buffer.
* `DamageShown`: no late frame, no failing commit, no setting that changes.  Nobody
  but damage need ask for a frame.
* `Fresh`: not on buffers that `beginRender` acquired in vain, or that a refresh of the
  screen shader or of the blur forces too few frames for: two
  (`PropRefresher.cpp:73`, `84`), where `Monitor.cpp:340` forces three "to make sure
  there is no blinking due to double-buffering".  The third buffer keeps the old look
  until it is repainted as a whole.
* `QueueDrains`: not for a surface that is hidden or whose client gives up pacing; nor
  after a barrier was set by a state that brings no frame, since "presented might
  never come because we are waiting on the barrier to unlock and no damage is around"
  (`Fifo.cpp:52`); nor after a frame of an unmodified buffer that is scanned out, until
  the next present.  That frame "unlocks fifo" itself (`ConfigValues.cpp:640`,
  `Monitor.cpp:2125`), but unlike `presented()` it leaves `barrierSet` as it was, so
  the next commit that waits is locked again.
* `NeverStranded`, `OutputComes`: not when `start` took FALLBACK away, which
  `fallback_start` shows, nor when an output ends the fallback and goes again before
  the deferred function has run: the listener, which should be "entering fallback"
  (`FallbackState.cpp:37`), counts FALLBACK as another monitor (line 28) and returns,
  and then the function takes FALLBACK away.  `lost` remembers either.
* `DragEnds`: only if receivers finish or destroy what is dropped on them, and not for
  a drag whose receiver is gone.  After a drop only `finish` ends the drag; if the
  receiver destroys its offer or its client dies, the pointer has no focus until
  Escape is pressed, "for moments where it gets stuck" (`DataDevice.hpp:147`).
* `HoverEnds`: not for a drop that was overtaken, when a late `finish` ends another
  drag than its own (`DataDevice.cpp:71`).
* `InhibitedExactly`: not since a step that nobody rechecks (`unseen`).  One of those
  is a window with the rule `always` that closes: `unmapWindow` means to "recheck idle
  inhibitors" (`Window.cpp:2701`), but the window is still on the list with its rule
  then, and `destroyWindow` takes it off (line 2796) without a recheck, so the session
  stays inhibited until the focus changes or an inhibitor comes or goes.
* `LocksHaveOwners`: not for a state of which an fd failed; the event loop drops the
  function with the fd, and nobody else would open the lock.

### Bounds, and why they suffice

* *Commits*: two commits suffice for a lock taken and opened in every way, with
  all extensions and both outputs.  A paced pair behind an applied barrier needs
  three, and so does a state that is left behind after another of two that wait.  With
  frames (`SurfaceFrames`) an output more would only bring more presents.  Order is checked on all permutations of fences of those.
* *fds*: two exported fds give one that is waited for after another.
* *Timers and functions*: two timers let one be removed, lost or re-armed by
  the callback of the other; two functions let one be deferred, taken back or
  reordered around a nudge.  `MaxDelay` and `Horizon` of one unit give the cases
  due, not yet due, never, and capped by the horizon.
* *Buffers*: three, as `updateSwapchain` asks for; the ring is as long as the
  code's.  Tiles are independent of each other, two are enough to tell a partial
  repaint from none.
* *Damage and fences waited for*: three of each, one more than a late frame and
  its successor need.
* *Workspaces*: two outputs, the fallback output and one window, special
  workspace and rule each: a workspace moves between two monitors, and the one
  that stays behind needs a second workspace.  `Crowd` of three live workspaces
  gives one shown on each output and a hidden one; ids beyond those asked for are
  what gaps are plugged with.  `Jobs` bounds the deferred functions to one; a
  second output does not come while FALLBACK is there and that function is left.
* *Fallback*: three outputs, so that one may go, one come and one stay between a
  decision and the function that acts on it; the queue is not bounded.
* *Drags*: two clients, so that one is left for the other; two offers at a time,
  so that one is dead, dropped or destroyed while another is live; of the sources
  one may go and the other may be dragged again (`Mortal`, `Reusable`).
* *Idle*: an inhibitor, a layer surface and a window with a rule, so that one holder
  goes while the other holds; timeouts of one and two ticks and a `Limit` of two for
  the histories, so that a timer is at its start, half way, due and late.
* *Locks*: three in a settled session, so that one is current, one ignored or
  refused, one still to come; two where restoring lets the second replace the first;
  two outputs, so that some are covered and some are not.

Every bound is a CONSTANT in the guards (`MaxCommits`, `MaxFds`, `MaxJobs`,
`MaxDelay`, `Horizon`, `MaxChanges`, `MaxSyncs`, `Regular`, `Crowd`, `Jobs`, `Offers`,
`Limit`).

Deadlock is only checked where the model never stops (`OutputFrames`: something
may always ask for a frame; `DragAndDrop`: the pointer may always move;
`IdleNotify`: time goes on).  The other models end legitimately: clients make no
further requests, every lock object is used up, or no tile is damaged.

### Fairness

* `SurfaceQueue`: none; it has no liveness property.
* `SurfaceFrames`: fences signal, armed timers fire (`EventLoop` shows that they do),
  and an output that was asked for a frame renders and presents it.  No present is
  promised, and nothing is assumed of the client.
* `EventLoop`: callbacks return and the loops advance (weak fairness); idle
  sources and a readable timerfd are dispatched however often others are, and
  time passes in the poll loop (strong fairness, since each is disabled again
  and again by the other).  Nothing is assumed of the callers.
* `OutputFrames`: flips, fences and the idle queue are served.  Nobody is assumed to
  ask for a frame.
* `SessionLock`: only that the timer fires.
* `Fallback`: the loop goes on: startup ends, the timer fires, deferred functions
  run.  Nothing is assumed of outputs.
* `DragAndDrop`: the user lets go.  That a receiver finishes or destroys what was
  dropped on it is a premise of `DragEnds`, not of the specification; nothing is
  assumed of sources, or of when a receiver answers.
* `IdleNotify`: time goes on and the loop calls a timer that has passed.  Nothing is
  assumed of input, clients or windows.
* `Workspaces`: none; it has no liveness property.

## 4. Proofs

Checked by TLAPS for every value of the constants that satisfies the named
assumptions.  Each follows the same line: an inductive invariant, one step for
each action, one step for each conjunct the action can disturb.

| module | theorems | inductive invariant |
|---|---|---|
| `SurfaceQueueProofs` | `TypeCorrect`, `WakeupsKept`, `OrderKept`, `OwnersKept`, `FencesKept`, `Implements`, `CallbacksKept`, `Paced` | `IInv`: besides the properties, that a number waited for was committed, that an fd is waited for once (`WaitersKnown`), and that the queued state of a running fence is locked (`FenceHeld`); for `CallbacksKept` (`CInv`) also that no queued state was discarded |
| `EventLoopProofs` | `TypeCorrect`, `RecalcsComing`, `NoStranded`, `NeverOversleeps`, `AlwaysInOrder` | `IInv`: besides the properties, that a batch exists only in the idle callback; for `AlwaysInOrder` that numbers in the batch, in the queue and still to come increase |
| `DamageRingFallbackProofs` | of `DamageRing`: `RingTypeCorrect`, `FramesFresh` | `Covered`: a buffer acquired *k* frames ago lacks at most the *k* newest regions, or comes round while full frames are still forced, or is one of those excepted |
| | of `Fallback`: `TypeCorrect`, `AlwaysActiveAlone`, `AlwaysSettled`, `AlwaysAnOutput` | the flag `deferred` is set exactly while an update is queued, and without one the output agrees with `active`; for `AlwaysAnOutput` (`StandsIn`), that a keeper that is not active has an output of the backend, unless `lost` says how it was lost |
| `OutputFramesProofs` | `TypeCorrect`, `Unblocked`, `NeverTorn`, `DamageNeverForgotten` | for `NeverTorn`, where the pending, committed and shown buffers are relative to the swapchain's position; for `DamageNeverForgotten` also that nothing blocks frames |
| `SessionLockProofs` | `TypeCorrect`, `SentOnce`, `AllCovered`, `Announced`, `StaysHidden` | what the manager holds of the current lock agrees with the lock objects and with what the outputs show |
| `WorkspacesProofs` | `TypeCorrect`, `AlwaysShown`, `NeverAWindowLeft`, `AlwaysBeside`, `FirstOwner`, and `Invariance` of the invariant itself | `Counted`, for `TypeCorrect` and `FirstOwner`: the desk is one of `Desks` and no more is persistent than the rules say. `IInv`, for the others: the desk is `Sound` between two handlers. `Fine` says that what a monitor shows is alive and there (`ShowsItsOwn`), that `m_visible` is set on exactly that, that whatever lives is on a monitor (`Housed`), windows on what lives (`Peopled`) and, unless pinned, beside it; `Sound` adds that the monitors on the list, and only they, show something |
| `DragAndDropProofs` | `TypeCorrect`, `AlwaysPointerLocked`, `AlwaysTargetHasOffer`, `HoversEnd`, `CursorComesBack`, `AlwaysAnswered` | `Core`: no pointer focus and a cursor while the drag is held, no device without a drag, and live offers are the focused client's, of whatever source; `Tidy`: what holds until a drop is overtaken, such as that a drag still held has no dropped offer |
| `IdleNotifyProofs` | `TypeCorrect`, `AlwaysInhibitedExactly`, `AlwaysHeldAwake`, `NeverEarly` | `Timely`: a timer with *t* ticks to go has waited all but *t* of its timeout, by every one of the clocks; `Settled`: mapped surfaces have a role, rules are met only by mapped windows, inhibitors know their surface; `HeldAwake` (an inhibition keeps what obeys it from idling) is inductive as it is |

`Implements` is the refinement itself: the initial state maps to an initial state,
and each step to a step or a stutter.  The proof sorts the steps of `SurfaceQueue`
by what they do to the queue: a commit behind it (`Appends`), locks opened and
`tryProcess` run (`Releases`), the queue cleared, or nothing a client can see
(`Settles`).  What makes a release legal is `FenceHeld`: whatever `tryProcess` gets
past has no fence lock, so its fence is done or was forced.  `Paced` rests on
`NoMissedWakeup`: an unlock that reaches a state behind the front leaves the front
locked by something else.

`WorkspacesProofs` is the longest, since a handler there is a composition of a dozen
functions.  Each function of the code has a lemma `...Fine` that says it keeps `Fine`,
for any set of monitors that may have workspaces: those on the list, and the one
that `onConnect` prepares before it is on the list, or that `onDisconnect` empties
before it leaves.  `moveWorkspaceToMonitor` is the heart: `Moved` is all that it can
change, and the proof of `MoveFine` has a case for each of its paths.  While an
output comes (`Coming`) or goes (`Going`) the desk is not `Sound`; for one that
goes, everything still on it at the end only plugs the gap (`Plug`) and dies
with it.  The handlers are folds over the lists of workspaces and rules.  The
induction theorems of the library take an operator, which no prover here can
instantiate, so induction is first proved over sets (`NatInd`, from the
well-foundedness of `<`) and a loop rule from it: `LoopExists` and
`LoopKeeps` give, for a `FoldLeft` whose steps stay in a set, what holds after
any number of them.

`FirstOwner` is proved apart from that, on any desk of the right type, in order or
not.  `Returns(d, e, m, v)` says what a function may do to `m_lastMonitor` on the way
from `d` to `e`: of all that is held, only what was to return to `m` forgets its
owner, and `v`, the workspace that starts anew on an output that comes; `Stays` is
the case in which nothing is forgotten, that of almost all functions.  Each function
has a lemma `Stays...`, `Owners...` or `...Returns`, which compose.  Only
`CMonitor::onDisconnect` records owners, and only for workspaces that have none: that
condition is what the theorem rests on.

Why the strengthenings are needed: `FenceRespected` alone is not inductive,
since a waiter of a number that is committed later could appear from nowhere;
`Fresh` speaks of the newest buffer only, while the next frame is painted on the
oldest, so `Covered` has to follow all of them through the ring; `LockedOnce`
says nothing of the lock that is current but not yet sent, whose count must be
zero; `NoEarlyIdle` speaks of what is idle, while it is decided by a timer that was
set long before.

Conditions of theorems, each necessary (section 3, *What the passing runs except*);
those on settings are part of the properties, the others assumptions on constants:

* `FramesFresh`: none but what the property excepts, buffers acquired in vain
  (`missed`) or that a refresh forced too few frames for (`skipped`).
* `Unblocked`: `~ MayToggle`.  `NeverTorn`, `DamageNeverForgotten`: `~ MayLate`
  (in the properties).
* `AlwaysAnOutput`: none but `lost`, in the property.
* `AlwaysInhibitedExactly`: `~unseen` (in the property), that is somebody rechecked
  since the last step that is overlooked.
* Those of `WorkspacesProofs`: `Orderly` (not for `TypeCorrect` and `FirstOwner`), which
  leaves out the three cases above in which `onDisconnect` leaves something behind,
  one of them a violated run; and `IdsNeverRunOut`, that some regular id without a rule is always free.  The code
  looks for one by counting up until it finds it (`findAvailableDefaultWS`, the loop
  in `moveWorkspaceToMonitor`), over 64-bit integers; the runs have five ids and
  `Crowd` keeps one free, so they check the code with few ids and the proof with
  as many as it likes.
* `AllCovered`, `Announced`, `StaysHidden`: `Settled` (in the properties), that is no restoring, no
  locked start and no lock surface that goes away before its lock.  Restoring
  hands the session to a new lock, which has its own grace period
  (`misc:lockdead_screen_delay`), and a lock client that drops a surface uncovers
  its output; in neither case do the documents promise more.  `SentOnce` and
  `TypeCorrect` hold without it.

Only model-checked: liveness (`QueueDrains`, `TimersFire`,
`JobsRun`, `DamageShown`, `Answered`, `FallbackLeaves`, `OutputComes`,
`DragEnds`, `IdleInTheEnd`), which is out of the prover's reach.  `RECURSIVE` operators are out of its reach too; the modules have none.

## 5. What is taken from outside the repository

Aquamarine (the backend) and libwayland are not in the repository.  They are
modelled from how the code in `src/src` uses them and marked external in the map:

* the swapchain is round robin, `rollback` undoes one `next`, and the age of a
  buffer is the length of the swapchain;
* a commit is refused while a page flip is pending, and may be refused
  otherwise;
* a page flip is reported as a present event and then, in the same dispatch, as
  a frame event unless one is in the idle queue;
* the fence of a frame is reported before its flip;
* the idle queue runs between two dispatches, so what was deferred has run before
  the next flip;
* an idle source of libwayland runs once, a timerfd fires once per setting, and
  an fd that errors is reported once.

The backend also brings and removes outputs (`Connect`, `Unplug`), and clients
act on what they are sent; both are inputs of the models, not definitions.

## 6. Plan

The order followed how much the rest of the compositor leans on a part:

1. Surface commits, event loop, damage ring, frame scheduling, session lock, with
   their type theorems and main safety theorems.
2. Workspaces and monitors that come and go; the fallback output; drag and drop;
   the order of deferred functions proved; idle notification and inhibition.

3. `SurfaceFrames`: presents come from frames.

What could follow, each as a composition with what is there: `SurfaceFrames` with
`OutputFrames` (frames may be late and commits fail) and with frame callbacks, several
`SurfaceQueue`s as a tree of synchronised subsurfaces with "a tree is updated
atomically" as the abstract specification, `EventLoop` under the timers of
`SessionLock`, `Fallback` and `IdleNotify`, and seat grabs beside `DragAndDrop`.

## 7. Not modelled

Drawing, shaders and layout geometry (data, not control); configuration parsing,
window-rule matching, notifications, debug output and translations (strings);
the XWayland bridge and plugins (their other half is not in the repository);
groups, fullscreen modes, xdg-shell configure and buffer release (little
interleaves there, or the other half is the kernel); input grabs and binds; thin
protocol wrappers around the managers; the separate programs `hyprctl` and
`hyprpm`; tests and vendored code.  `PROJECT.json` lists each with its reason,
and every hazard of the modelled code with the property that would catch it or
the reason why none does yet.
