------------------------------ MODULE Workspaces ------------------------------
(***************************************************************************)
(* Which workspace is on which monitor: CWorkspacePlacementController, the *)
(* parts of CMonitor that show, move and restore workspaces as outputs come*)
(* and go, the lists of CMonitorStateTracker and CWorkspaceStateTracker,   *)
(* and the dispatchers that use them.                                      *)
(*                                                                         *)
(* Four places say where a workspace is: its own m_monitor, the monitor's  *)
(* m_activeWorkspace or m_activeSpecialWorkspace, its m_visible, and the   *)
(* m_monitor of its windows.  No function writes all four; each operator   *)
(* below is one C++ function that takes the whole desk to the desk it      *)
(* leaves, so that a handler is the composition its code spells out.       *)
(*                                                                         *)
(* A workspace lives as long as somebody holds it: a monitor that shows it,*)
(* a window on it, its own reference while it is persistent, or the        *)
(* function that is running (Collect).                                     *)
(***************************************************************************)
EXTENDS Naturals, Sequences, SequencesExt

CONSTANTS
  Real,         \* the outputs of the backend, by name
  FALLBACK,     \* the output of CFallbackStateKeeper
  None,
  Regular,      \* the ids of the regular workspaces
  Special,      \* special workspaces
  Windows,
  Crowd,        \* bound: nobody asks for a new workspace when this many live
  Jobs,         \* bound: on the functions onConnect has left to doLater
  Orderly,      \* nothing is left behind on an output that goes: NothingLeft
  Setups        \* configurations, and what happens under each:
  (* bound       workspace rule "monitor:" of each regular workspace; its   *)
  (*             domain bounds the ids in use: enough that one is free     *)
  (* persistent  workspaces with a rule "persistent:true", in the order of *)
  (*             the rules                                                 *)
  (* default     the workspace with the rule "default:true" of each output *)
  (* hide        binds:hide_special_on_workspace_change                    *)
  (* asked       bound: the workspaces the user asks for                   *)
  (* windows     bound: the windows there can be                           *)
  (* lonely      bound: the last output may go too, and FALLBACK comes     *)

Outputs == Real \cup {FALLBACK}
All == Regular \cup Special

ASSUME SetupAssumption ==
  /\ Jobs \in Nat \ {0}
  /\ Regular \subseteq Nat /\ None \notin Outputs \cup All /\ FALLBACK \notin Real
  /\ Regular \cap Special = {}
  /\ \A s \in Setups :
    /\ DOMAIN s.bound \subseteq Regular /\ s.persistent \in Seq(DOMAIN s.bound)
    /\ \A w \in DOMAIN s.bound : s.bound[w] \in Real \cup {None}
    /\ s.default \in [Real -> Regular \cup {None}]
    /\ s.asked \subseteq All /\ s.windows \subseteq Windows
    /\ {s.hide, s.lonely} \subseteq BOOLEAN

VARIABLE desk
  (* mons        m_monitors: the enabled ones, in the order they came      *)
  (* ws          m_workspaces, in the order they were created              *)
  (* active, special    m_activeWorkspace, m_activeSpecialWorkspace        *)
  (* home, last, visible, persistent    of each workspace: m_monitor,      *)
  (*                    m_lastMonitor, m_visible, m_selfPersistent         *)
  (* seen        m_seenMonitorWorkspaceMap                                 *)
  (* focus       the focused monitor                                       *)
  (* winWs, winMon, pinned    of each window                               *)
VARIABLE ensure   \* how many functions onConnect left to doLater are to run
VARIABLE setup    \* the configuration, one of Setups

vars == <<desk, ensure, setup>>

IsLive(d, w) == w \in ToSet(d.ws)
OnList(d, m) == m \in ToSet(d.mons)
(* The elements of s that are in T, in their order. *)
Only(s, T) ==
  LET upto[i \in 0..Len(s)] ==
        IF i = 0 THEN <<>>
        ELSE IF s[i] \in T THEN Append(upto[i-1], s[i]) ELSE upto[i-1]
  IN upto[Len(s)]
WindowsOn(d, w) == {x \in Windows : d.winWs[x] = w}

Empty ==
  [mons |-> <<>>, ws |-> <<>>,
   active |-> [m \in Outputs |-> None], special |-> [m \in Outputs |-> None],
   home |-> [w \in All |-> None], last |-> [w \in All |-> None],
   visible |-> {}, persistent |-> {},
   seen |-> [m \in Outputs |-> None], focus |-> None,
   winWs |-> [x \in Windows |-> None], winMon |-> [x \in Windows |-> None],
   pinned |-> {}]

(***************************************************************************)
(* Life of a workspace.                                                    *)
(***************************************************************************)
Held(d) ==
  {d.active[m] : m \in Outputs} \cup {d.special[m] : m \in Outputs}
    \cup {d.winWs[x] : x \in Windows} \cup d.persistent

Keep(d, kept) ==
  [d EXCEPT !.ws = Only(@, kept),
            !.home = [w \in All |-> IF w \in kept THEN @[w] ELSE None],
            !.last = [w \in All |-> IF w \in kept THEN @[w] ELSE None],
            !.visible = @ \cap kept]

(* Drops the workspaces nobody holds; local are held by what is running. *)
Collect(d, local) == Keep(d, Held(d) \cup local)

(* CWorkspace::create *)
NewWorkspace(d, w, m) ==
  [d EXCEPT !.ws = Append(@, w), !.home[w] = m,
            !.persistent = @ \cup ({w} \cap ToSet(setup.persistent))]

BoundMonitor(d, w) ==
  IF w \in DOMAIN setup.bound /\ OnList(d, setup.bound[w]) THEN setup.bound[w] ELSE None

(* CWorkspaceStateTracker::create: a rule outweighs the monitor asked for *)
Create(d, w, m) ==
  NewWorkspace(d, w, IF BoundMonitor(d, w) # None THEN BoundMonitor(d, w) ELSE m)

Least(S) == CHOOSE i \in S : \A j \in S : i <= j

(* The id moveWorkspaceToMonitor plugs a gap with.                         *)
PlugId(d, m) ==
  Least({i \in DOMAIN setup.bound : ~IsLive(d, i) /\ BoundMonitor(d, i) \in {None, m}})

(* CMonitor::findAvailableDefaultWS *)
FindAvailableDefaultWS(d, m) ==
  Least({i \in DOMAIN setup.bound : ~IsLive(d, i) /\ setup.bound[i] \in {None, m}})

(***************************************************************************)
(* Showing.  Focusing a window matters here by the monitor it focuses and  *)
(* by the special workspace it closes; a pinned window is taken to be the  *)
(* focused one, which keeps setSpecialWorkspace from focusing another.     *)
(***************************************************************************)
FocusLastWindow(d, m, w) ==
  IF WindowsOn(d, w) # {} /\ ~\E x \in d.pinned : d.winMon[x] = m
  THEN [d EXCEPT !.focus = m] ELSE d

CloseSpecial(d, m) == [d EXCEPT !.special[m] = None, !.visible = @ \ {d.special[m]}]

(* Mutant: the monitor a special workspace was open on keeps it. *)
StolenNot(d, from, w) == d

(* The monitor w was open on loses it: *)
Stolen(d, from, w) ==
  IF from # None /\ d.special[from] = w THEN [d EXCEPT !.special[from] = None] ELSE d

OpenSpecial(d, m, w) ==
  [d EXCEPT !.special[m] = w, !.home[w] = m, !.visible = @ \cup {w},
            !.winMon = [x \in Windows |-> IF d.winWs[x] = w THEN m ELSE @[x]]]

(* CMonitor::setSpecialWorkspace *)
SetSpecialWorkspace(d, m, w) ==
  IF w = d.special[m] THEN d
  ELSE IF w = None THEN FocusLastWindow(CloseSpecial(d, m), m, d.active[m])
  ELSE FocusLastWindow(OpenSpecial(Stolen(CloseSpecial(d, m), d.home[w], w), m, w), m, w)

(* Pinned windows follow to the workspace shown next, unless internal. *)
CarryPinned(d, old, w) ==
  [d EXCEPT !.winWs = [x \in Windows |->
                         IF x \in d.pinned /\ @[x] = old THEN w ELSE @[x]],
            !.winMon = [x \in Windows |->
                          IF x \in d.pinned /\ d.winWs[x] = old THEN d.home[w] ELSE @[x]]]

(* CMonitor::changeWorkspace *)
ChangeWorkspace(d, m, w, internal) ==
  IF w \in Special THEN SetSpecialWorkspace(d, m, w)
  ELSE IF w \in {None, d.active[m]} THEN d
  ELSE [IF internal THEN d ELSE CarryPinned(d, d.active[m], w)
          EXCEPT !.active[m] = w, !.visible = (@ \ {d.active[m]}) \cup {w}]

(* CFocusState::rawWindowFocus.  A window that is not visible is shown, and*)
(* changeWorkspace focuses it unless a special workspace or a pinned window*)
(* has the focus; a pinned one was last on the monitor in focus.           *)
FocusVisible(d, w, m) ==
  IF d.special[m] = w THEN [d EXCEPT !.focus = m]
  ELSE SetSpecialWorkspace([d EXCEPT !.focus = m], m, None)

FocusShown(d, w, m) ==
  IF d.special[d.focus] # None \/ \E x \in d.pinned : d.winMon[x] = m THEN d
  ELSE FocusVisible(d, w, m)

ShowHidden(d, w, m) ==
  IF w \in Special THEN ChangeWorkspace(d, d.focus, w, FALSE)
  ELSE IF m = None THEN d
  ELSE FocusShown(ChangeWorkspace(d, m, w, FALSE), w, m)

RawWindowFocus(d, x) ==
  IF d.winWs[x] \notin d.visible THEN ShowHidden(d, d.winWs[x], d.winMon[x])
  ELSE IF x \in d.pinned \/ d.winMon[x] = None THEN d
  ELSE FocusVisible(d, d.winWs[x], d.winMon[x])

(* CFocusState::fullWindowFocus *)
FocusWindow(d, x) ==
  IF d.winWs[x] = None THEN d
  ELSE RawWindowFocus(IF x \in d.pinned THEN [d EXCEPT !.winWs[x] = d.active[d.focus]] ELSE d, x)

(* fullWindowFocus on a window of w, when there is one *)
FocusCandidate(d, w) ==
  IF WindowsOn(d, w) = {} THEN d
  ELSE FocusWindow(d, CHOOSE x \in WindowsOn(d, w) : TRUE)

(***************************************************************************)
(* CWorkspacePlacementController.                                          *)
(***************************************************************************)
(* What else can be shown on old when w leaves. *)
Others(d, w, old) == Only(d.ws, {v \in Regular \ {w} : d.home[v] = old})

(* moveWorkspaceToMonitor keeps the old monitor showing something: next. *)
Gap(d, next, old) == [desk |-> ChangeWorkspace(d, old, next, FALSE), next |-> next]
PlugGap(d, w, old) ==
  IF Others(d, w, old) # <<>> THEN Gap(d, Head(Others(d, w, old)), old)
  ELSE LET next == PlugId(d, old) IN Gap(Create(d, next, old), next, old)

(* Mutant: the windows keep the monitor they had. *)
CarryNothing(d, w, m, next) ==
  [d EXCEPT !.home[w] = m,
            !.winWs = [x \in Windows |->
                         IF @[x] = w /\ x \in d.pinned THEN next ELSE @[x]]]

(* The windows of w go along to m, but the pinned ones stay, on next. *)
CarryWindows(d, w, m, next) ==
  [d EXCEPT !.home[w] = m,
            !.winWs = [x \in Windows |->
                         IF @[x] = w /\ x \in d.pinned THEN next ELSE @[x]],
            !.winMon = [x \in Windows |->
                          IF d.winWs[x] = w /\ x \notin d.pinned THEN m ELSE @[x]]]

(* What was shown on the monitor in focus is shown on the new one. *)
Hidden(d, w) == [d EXCEPT !.visible = @ \ {w}]
Replaced(d, m) == IF setup.hide THEN SetSpecialWorkspace(d, m, None) ELSE d
ShownThere(d, w, m) ==
  [d EXCEPT !.focus = m, !.active[m] = w, !.visible = @ \cup {w}]
TakeOver(d, w, m) == ShownThere(Replaced(Hidden(d, d.active[m]), m), w, m)

Relocate(gap, w, old, m) ==
  IF gap.next # w /\ old = gap.desk.focus
  THEN TakeOver(CarryWindows(gap.desk, w, m, gap.next), w, m)
  ELSE CarryWindows(gap.desk, w, m, gap.next)

MoveWorkspaceToMonitor(d, w, m, local) ==
  LET old == d.home[w] IN
  IF w = None \/ m = None \/ old = m THEN d
  ELSE IF w \in Special /\ old # None /\ d.special[old] = w
  THEN SetSpecialWorkspace(d, m, w)
  ELSE Collect(Relocate(IF old # None /\ d.active[old] = w THEN PlugGap(d, w, old)
                        ELSE [desk |-> d, next |-> w],
                        w, old, m),
               local \cup {w})

(* The pinned windows pass from wa to wb and, in the second loop, back. *)
Exchange(d, a, b, wa, wb) ==
  [CarryWindows(CarryWindows(d, wa, b, wb), wb, a, wa)
     EXCEPT !.active[a] = wb, !.active[b] = wa]

SwapActiveWorkspaces(d, a, b) ==
  LET Refocused(e) ==
        IF e.focus \in {a, b} THEN FocusCandidate(e, e.active[e.focus]) ELSE e
  IN Refocused(Exchange(d, a, b, d.active[a], d.active[b]))

(* ensurePersistentWorkspacesPresent for the rule of one workspace *)
Ensured(d, w, m) ==
  MoveWorkspaceToMonitor([IF IsLive(d, w) THEN d ELSE Create(d, w, m)
                            EXCEPT !.persistent = @ \cup {w}], w, m, {})

EnsureRule(d, w) == Ensured(d, w, IF setup.bound[w] = None THEN d.focus ELSE setup.bound[w])

(* A rule whose monitor is away is passed over, and its workspace is then  *)
(* not persistent any more.                                                *)
InForce(d) == {w \in DOMAIN setup.bound : setup.bound[w] = None \/ OnList(d, setup.bound[w])}

EnsurePersistent(d) ==
  LET rules == Only(setup.persistent, InForce(d))
  IN IF d.focus = None THEN d
     ELSE Collect([FoldLeft(EnsureRule, d, rules) EXCEPT !.persistent = ToSet(rules)], {})

(* ensureWorkspacesOnAssignedMonitors *)
EnsureAssigned(d) ==
  LET Assign(e, w) == MoveWorkspaceToMonitor(e, w, BoundMonitor(e, w), ToSet(d.ws))
  IN FoldLeft(Assign, d, d.ws)

(***************************************************************************)
(* Outputs that come and go.                                               *)
(***************************************************************************)
(* CMonitor::setupDefaultWS *)
DefaultWorkspace(d, m) ==
  IF m = FALLBACK \/ setup.default[m] = None THEN FindAvailableDefaultWS(d, m) ELSE setup.default[m]

StartOn(d, w, m) ==
  [IF IsLive(d, w) THEN MoveWorkspaceToMonitor(d, w, m, {}) ELSE NewWorkspace(d, w, m)
     EXCEPT !.active[m] = w, !.visible = @ \cup {w}, !.last[w] = None]

SetupDefaultWS(d, m) == StartOn(d, DefaultWorkspace(d, m), m)

(* The loop of onConnect over all workspaces: those that were last here    *)
(* return, and orphans are recovered if one real monitor is on the list,   *)
(* which does not have m yet.                                              *)
Recovery(d, w) ==
  /\ d.home[w] = None \/ ~OnList(d, d.home[w])
  /\ Len(Only(d.mons, Real)) = 1

ReturnWorkspaces(d, m) ==
  LET Here(e, w) == e.last[w] = m \/ Recovery(e, w)
      Back(e, w) == [e EXCEPT !.last[w] = IF @ = m THEN None ELSE @]
      Take(e, w) ==
        Back(IF Here(e, w) THEN MoveWorkspaceToMonitor(e, w, m, ToSet(d.ws)) ELSE e, w)
  IN Collect(FoldLeft(Take, d, d.ws), {})

(* "if we saw this monitor before, set it to the workspace it was on" *)
ShowRemembered(d, m) ==
  IF d.seen[m] = None \/ ~IsLive(d, d.seen[m]) THEN d
  ELSE ChangeWorkspace(MoveWorkspaceToMonitor(d, d.seen[m], m, {}), m, d.seen[m], TRUE)

(* The last part of onConnect and the listeners of the added event; found: *)
(* the focused monitor was on the list.                                    *)
Added(d, m, found) ==
  Collect([d EXCEPT !.focus = IF found THEN @ ELSE m, !.mons = Append(@, m)], {})

WithFocus(d, m) == [d EXCEPT !.focus = IF @ = None THEN m ELSE @]

(* CMonitor::onConnect *)
OnConnect(d, m) ==
  Added(ShowRemembered(WithFocus(ReturnWorkspaces(SetupDefaultWS(d, m), m), m), m), m,
        OnList(d, d.focus))

(* Mutant: what is shown stays. *)
LeavingHidden(d, m) ==
  Only(d.ws, {w \in All \ {d.active[m]} : d.home[w] \in {m, None}})

(* The workspaces of m and those of no monitor; the first monitor that went*)
(* owns where a workspace is to return.                                    *)
Leaving(d, m) == Only(d.ws, {w \in All : d.home[w] \in {m, None}})
(* Mutant: the last monitor that went owns a workspace. *)
OwnedAgain(d, m) ==
  [d EXCEPT !.seen[m] = IF d.active[m] = None THEN @ ELSE d.active[m],
            !.last = [w \in All |-> IF w \in ToSet(Leaving(d, m)) THEN m ELSE @[w]]]

Owned(d, m) ==
  [d EXCEPT !.seen[m] = IF d.active[m] = None THEN @ ELSE d.active[m],
            !.last = [w \in All |->
               IF w \in ToSet(Leaving(d, m)) /\ @[w] = None THEN m ELSE @[w]]]

Removed(d, m, others, backup) ==
  Collect([d EXCEPT !.visible = @ \ {d.active[m]},
                    !.active[m] = None,
                    !.focus = IF backup = None \/ @ = m THEN backup ELSE @,
                    !.mons = others], {})

(* CMonitor::onDisconnect and the listeners of the removed event *)
OnDisconnect(d, m) ==
  LET others == Only(d.mons, Outputs \ {m})
      backup == IF others = <<>> THEN None ELSE Head(others)
      Away(e, w) == MoveWorkspaceToMonitor(e, w, backup, ToSet(Leaving(d, m)))
  IN Removed(FoldLeft(Away, Owned(d, m), Leaving(d, m)), m, others, backup)

(* The object of m is destroyed: weak references to it are empty. *)
Destroyed(d, m) ==
  Collect([d EXCEPT !.special[m] = None,
                    !.home = [w \in All |-> IF @[w] = m THEN None ELSE @[w]],
                    !.winMon = [x \in Windows |-> IF @[x] = m THEN None ELSE @[x]]], {})

(***************************************************************************)
(* Events.                                                                 *)
(***************************************************************************)
Monitors == ToSet(desk.mons)

(* A handler ends with its local references dropped. *)
Done(d) == desk' = Collect(d, {}) /\ UNCHANGED setup

(* The dispatchers' lookup of a workspace by id, created when there is none*)
Resolved(w) == IF IsLive(desk, w) THEN desk ELSE Create(desk, w, desk.focus)

(* onConnect leaves a function to doLater.  Without a rule for a workspace *)
(* it finds nothing to do, and is left out.                                *)
Work == IF setup.persistent = <<>> /\ \A w \in DOMAIN setup.bound : setup.bound[w] = None
        THEN 0 ELSE 1

(* A new output; or one a monitor rule enables again.  Bound: never two    *)
(* while FALLBACK is still there.                                          *)
Connect(m) ==
  /\ m \in Real /\ m \notin Monitors /\ ensure < Jobs
  /\ FALLBACK \in Monitors => Len(desk.mons) = 1
  /\ Done(OnConnect(desk, m))
  /\ ensure' = ensure + Work

(* CFallbackStateKeeper adds its output when all others are gone, *)
ConnectFallback ==
  /\ desk.mons = <<>> /\ ensure < Jobs
  /\ Done(OnConnect(desk, FALLBACK))
  /\ ensure' = ensure + Work

(* Orderly leaves out the three cases in which something is left behind on *)
(* m: no other output takes over and there is more than one empty          *)
(* workspace; a pinned window is on it; the workspace that plugs the gap   *)
(* may be one that is persistent as soon as it is created.                 *)
NothingLeft(m) ==
  /\ \/ Monitors # {m}
        /\ \A w \in ToSet(setup.persistent) :
             BoundMonitor(desk, w) \in {None, m} => w \in desk.persistent
     \/ Monitors = {m} /\ ToSet(desk.ws) = {desk.active[m]} /\ desk.persistent = {}
        /\ \A x \in Windows : desk.winWs[x] = None
  /\ \A x \in desk.pinned : desk.winMon[x] # m /\ desk.home[desk.winWs[x]] # m

(* and removes it when one is back. *)
DisconnectFallback ==
  /\ FALLBACK \in Monitors /\ Monitors # {FALLBACK}
  /\ Orderly => NothingLeft(FALLBACK)
  /\ Done(Destroyed(OnDisconnect(desk, FALLBACK), FALLBACK))
  /\ UNCHANGED ensure

MayGo(m) ==
  /\ m \in Monitors \cap Real
  /\ setup.lonely \/ Monitors # {m}
  /\ Orderly => NothingLeft(m)

(* A monitor rule disables m: its object stays. *)
Disable(m) ==
  /\ MayGo(m)
  /\ Done(OnDisconnect(desk, m))
  /\ UNCHANGED ensure

Unplug(m) ==
  /\ MayGo(m)
  /\ Done(Destroyed(OnDisconnect(desk, m), m))
  /\ UNCHANGED ensure

(* The function onConnect left to doLater. *)
EnsurePlacement ==
  /\ ensure > 0
  /\ Done(EnsureAssigned(EnsurePersistent(desk)))
  /\ ensure' = ensure - 1

(* The dispatchers and the windows. *)
Served(d) == Done(d) /\ UNCHANGED ensure

(* Actions::changeWorkspace *)
ShowOn(d, w, owner) ==
  ChangeWorkspace(Replaced([d EXCEPT !.focus = owner], owner), owner, w, FALSE)

ShowWorkspace(d, w) ==
  IF w \in Special THEN SetSpecialWorkspace(d, d.focus, w)
  ELSE IF d.home[w] = None THEN d
  ELSE IF d.home[w] = d.focus THEN ShowOn(d, w, d.focus)
  ELSE FocusCandidate(ShowOn(d, w, d.home[w]), w)

ChangeTo(w) ==
  /\ desk.focus # None /\ desk.active[desk.focus] # None
  /\ Served(ShowWorkspace(Resolved(w), w))

(* changeWorkspaceOnCurrentMonitor *)
BringHere(w) ==
  LET d == Resolved(w)
      owner == d.home[w] IN
  /\ desk.focus # None /\ owner # None
  /\ IF owner # d.focus /\ d.active[owner] = w
     THEN Served(SwapActiveWorkspaces(d, owner, d.focus))
     ELSE Served(ShowWorkspace(MoveWorkspaceToMonitor(d, w, d.focus, {}), w))

MoveToMonitor(w, m) ==
  /\ IsLive(desk, w) /\ m \in Monitors
  /\ Served(MoveWorkspaceToMonitor(desk, w, m, {}))

ToggleSpecial(w) ==
  /\ w \in Special /\ desk.focus # None
  /\ Served(SetSpecialWorkspace(Resolved(w), desk.focus,
                              IF desk.special[desk.focus] = w THEN None ELSE w))

Swap(a, b) ==
  /\ {a, b} \subseteq Monitors /\ a # b
  /\ Served(SwapActiveWorkspaces(desk, a, b))

(* tryMoveFocusToMonitor *)
FocusMonitor(m) ==
  LET w == IF desk.special[m] # None THEN desk.special[m] ELSE desk.active[m] IN
  /\ m \in Monitors /\ desk.focus \notin {None, m}
  /\ Served([FocusCandidate(desk, w) EXCEPT !.focus = m])

(* CWindow::mapWindow, without a rule about its workspace *)
MapWindow(x) ==
  LET m == desk.focus
      w == IF desk.special[m] # None THEN desk.special[m] ELSE desk.active[m] IN
  /\ desk.winWs[x] = None /\ m # None /\ w # None
  /\ Served([desk EXCEPT !.winWs[x] = w, !.winMon[x] = m])

(* unmapWindow and onUnmap, which closes a special workspace left empty *)
UnmapWindow(x) ==
  LET w == desk.winWs[x]
      m == desk.winMon[x]
      gone == [desk EXCEPT !.winWs[x] = None, !.winMon[x] = None, !.pinned = @ \ {x}] IN
  /\ w # None
  /\ IF w \in Special /\ WindowsOn(gone, w) = {} /\ m # None /\ desk.special[m] = w
     THEN Served(SetSpecialWorkspace(gone, m, None)) ELSE Served(gone)

(* What movetoworkspace does when it is not silent: the special workspace  *)
(* is opened, or the one that x was on is closed; then x is shown.         *)
Followed(d, w, m, old) ==
  IF w \in Special THEN SetSpecialWorkspace(d, m, w)
  ELSE IF old \in Special THEN SetSpecialWorkspace(d, d.home[old], None)
  ELSE d

(* movetoworkspace and movetoworkspacesilent *)
MoveWindow(x, w, silent) ==
  LET d == Resolved(w)
      m == d.home[w]
      moved == [d EXCEPT !.winWs[x] = w, !.winMon[x] = m] IN
  /\ desk.winWs[x] \notin {None, w}
  /\ desk.focus # None /\ m # None
  /\ d.winWs[x] \in Special => d.home[d.winWs[x]] # None
  /\ ~(x \in desk.pinned /\ w \in Special)
  /\ IF silent THEN Served(moved)
     ELSE Served(FocusWindow(
                 ChangeWorkspace(Followed([moved EXCEPT !.focus = m], w, m, d.winWs[x]),
                                 m, w, FALSE), x))

(* Actions::pinWindow, of a floating window *)
PinWindow(x) ==
  LET m == desk.winMon[x]
      w == desk.active[m] IN
  /\ desk.winWs[x] # None /\ m # None /\ w # None
  /\ Served([desk EXCEPT !.pinned = IF x \in @ THEN @ \ {x} ELSE @ \cup {x},
                       !.winWs[x] = w, !.winMon[x] = desk.home[w]])

(* CWindow::activate, or a click *)
ClickWindow(x) ==
  /\ desk.winWs[x] # None /\ desk.focus # None
  /\ Served(FocusWindow(desk, x))

(* Actions::focus: what is not on the monitor in focus is shown first. *)
GoToWindow(x) ==
  LET w == desk.winWs[x]
      shown == w \in {desk.active[desk.focus], desk.special[desk.focus]} IN
  /\ w # None /\ desk.focus # None
  /\ Served(FocusWindow(IF shown THEN desk ELSE ShowWorkspace(desk, w), x))

Init ==
  /\ setup \in Setups
  /\ \E m \in Real : desk = OnConnect(Empty, m)
  /\ ensure = Work

Room(w) == IsLive(desk, w) \/ Len(desk.ws) < Crowd

Next ==
  \/ \E m \in Real : Connect(m) \/ Disable(m) \/ Unplug(m)
  \/ ConnectFallback \/ DisconnectFallback
  \/ EnsurePlacement
  \/ \E w \in setup.asked : Room(w) /\ (ChangeTo(w) \/ BringHere(w) \/ ToggleSpecial(w))
  \/ \E w \in setup.asked, m \in Outputs : MoveToMonitor(w, m)
  \/ \E a, b \in Outputs : Swap(a, b)
  \/ \E m \in Outputs : FocusMonitor(m)
  \/ \E x \in setup.windows : MapWindow(x) \/ UnmapWindow(x) \/ PinWindow(x)
  \/ \E x \in setup.windows : ClickWindow(x) \/ GoToWindow(x)
  \/ \E x \in setup.windows, w \in setup.asked, silent \in BOOLEAN :
       Room(w) /\ MoveWindow(x, w, silent)

Spec == Init /\ [][Next]_vars

-------------------------------------------------------------------------------
MonitorOrNone == Outputs \cup {None}

(* What a desk looks like: no monitor ever has a special workspace for its *)
(* regular one, or the other way round, and no more functions are left to  *)
(* doLater than onConnect put there.                                       *)
TypeOK ==
  /\ Monitors \subseteq Outputs /\ ToSet(desk.ws) \subseteq All
  /\ desk.active \in [Outputs -> Regular \cup {None}]
  /\ desk.special \in [Outputs -> Special \cup {None}]
  /\ desk.home \in [All -> MonitorOrNone] /\ desk.last \in [All -> MonitorOrNone]
  /\ desk.visible \subseteq All /\ desk.persistent \subseteq Regular
  /\ desk.focus \in MonitorOrNone
  /\ desk.winWs \in [Windows -> All \cup {None}]
  /\ desk.winMon \in [Windows -> MonitorOrNone]
  /\ ensure \in 0..Jobs /\ setup \in Setups

(* However workspaces were moved, swapped, lost and restored, every monitor*)
(* on the list shows a workspace, what it shows says it is there, no       *)
(* workspace is shown twice, the flag m_visible agrees with what is shown, *)
(* and the focus is on a monitor that shows something, which dispatchers   *)
(* dereference: the renderer goes by the monitors, focus and input by the  *)
(* flag.                                                                   *)
Shown ==
  LET shown == {desk.active[m] : m \in Monitors} \cup {desk.special[m] : m \in Monitors} IN
  /\ \A m \in Monitors :
       /\ desk.active[m] # None /\ desk.home[desk.active[m]] = m
       /\ desk.special[m] # None => desk.home[desk.special[m]] = m
  /\ desk.visible = shown \ {None}
  /\ IF desk.mons = <<>> THEN desk.focus = None ELSE desk.focus \in Monitors

(* Unplugging and disabling outputs leaves no window on a workspace that no*)
(* monitor on the list has: what is on it could not be reached any more.   *)
NoWindowLeft ==
  Monitors \cap Real # {} =>
    \A x \in Windows : desk.winWs[x] # None => desk.home[desk.winWs[x]] \in Monitors

(* The two records of where a window is agree, whichever of the functions  *)
(* that move windows, workspaces and special workspaces ran: the monitor it*)
(* has is that of its workspace.                                           *)
WindowBesideWorkspace ==
  \A x \in Windows \ desk.pinned :
    desk.winWs[x] # None => desk.winMon[x] = desk.home[desk.winWs[x]]

(* "The first disconnected monitor owns where a workspace should return":  *)
(* cascaded disconnects and reconnects of other outputs leave m_lastMonitor*)
(* alone; it is dropped when the owner is back, or when the workspace is   *)
(* the default one of an output that comes.  This is said of a workspace   *)
(* that something holds until the handler is through, a window or its rule;*)
(* any other may be dropped in the middle of one and made anew.            *)
KeptAlive(w) ==
  \/ \E x \in Windows \ desk.pinned : desk.winWs[x] = w
  \/ w \in desk.persistent /\ (ensure' < ensure => w \in InForce(desk))

FirstOwnerKept ==
  [][\A w \in All : KeptAlive(w) /\ desk.last[w] # None /\ desk'.last[w] # desk.last[w] =>
       \/ w \notin ToSet(desk'.ws)
       \/ desk.last[w] \in ToSet(desk'.mons) /\ desk'.last[w] = None
       \/ \E m \in ToSet(desk'.mons) \ Monitors : DefaultWorkspace(desk, m) = w]_vars

(* "temporarily recover orphaned workspaces": when an output connects, what*)
(* was left without a monitor is taken to it, so no window stays hidden.   *)
OrphansRecovered ==
  [][\A m \in ToSet(desk'.mons) \ Monitors, x \in Windows :
       m \in Real /\ desk'.winWs[x] # None
         => desk'.home[desk'.winWs[x]] \in ToSet(desk'.mons)]_vars
===============================================================================
