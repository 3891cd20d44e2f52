----------------------------- MODULE DragAndDrop -----------------------------
(***************************************************************************)
(* wl_data_device drags: one drag of a data source at a time, the device   *)
(* of the client under the pointer that is entered and offered the source, *)
(* the drop, and what the receiver still does with its offer afterwards.   *)
(* The seat takes the pointer focus away for as long as the drag is active *)
(* and keeps a focus of its own for it; the end of a drag gives the focus  *)
(* back, which tells the data devices again.  Clients are asynchronous:    *)
(* an offer may be used long after the pointer, the drag or even the       *)
(* source has gone.  Clients are taken to follow the protocol.  The device *)
(* of Xwayland, the icon and the motions are left out.                     *)
(***************************************************************************)
EXTENDS FiniteSets

CONSTANTS
  Clients, Surfaces, Owner,   \* Owner[x] is the client of surface x
  Sources,                    \* data sources, each made once
  Offers,                     \* bounds the offers that exist at once
  Mortal,                     \* bounds which sources, surfaces and devices may go
  Reusable,                   \* bounds which sources are dragged again
  None

(* An offer of a drag.  dropped is what its client knows: wl_data_device   *)
(* told it drop while it had this offer.                                   *)
Offer == [to : Clients, source : Sources, dead : BOOLEAN, accepted : BOOLEAN,
          recvd : BOOLEAN, dropped : BOOLEAN]

ASSUME OwnerAssumption == Owner \in [Surfaces -> Clients]
ASSUME NoneAssumption == None \notin Clients \cup Surfaces \cup Sources \cup Offer

VARIABLES
  dnd,       \* m_dnd, and the seat, offers and devices it works on
  under,     \* the surface below the cursor
  sources, surfaces, devices,   \* those that exist
  overtaken  \* history: the user went on before a drop was finished

vars == <<dnd, under, sources, surfaces, devices, overtaken>>

Maybe(S) == S \cup {None}

DndState == [source : Maybe(Sources), device : Maybe(Clients),
             grip : BOOLEAN,     \* the listeners of initiateDrag
             cursor : BOOLEAN,   \* overriddenCursor
             ptr : Maybe(Surfaces),        \* m_state.pointerFocus
             focus : Maybe(Surfaces),      \* m_state.dndPointerFocus
             entered : [Clients -> Maybe(Surfaces)],
             offers : [Offers -> Maybe(Offer)],
             ends : [Sources -> SUBSET {"cancelled", "finished"}]]

Existing(d) == {o \in Offers : d.offers[o] # None}
Active(d) == d.source # None

SendLeave(d, c) == IF c = None THEN d ELSE [d EXCEPT !.entered[c] = None]
Tell(d, s, what) == IF s = None THEN d ELSE [d EXCEPT !.ends[s] = @ \cup {what}]

(* The loop of onDndPointerFocus over the offers. *)
Dead(d) == [d EXCEPT !.offers =
              [o \in Offers |-> IF @[o] = None THEN None ELSE [@[o] EXCEPT !.dead = TRUE]]]

(* A surface that is gone is no focus; the first device of its client is  *)
(* offered the source and entered.                                        *)
UpdateDrag(d) ==
  LET left == SendLeave(d, d.device)
      client == Owner[d.focus]
      slot == CHOOSE o \in Offers : d.offers[o] = None
  IN IF ~Active(d) THEN d
     ELSE IF d.focus = None THEN left
     ELSE IF client \notin devices THEN [left EXCEPT !.device = None]
     ELSE [left EXCEPT !.device = client,
                       !.entered[client] = d.focus,
                       !.offers[slot] = [to |-> client, source |-> d.source, dead |-> FALSE,
                                         accepted |-> FALSE, recvd |-> FALSE, dropped |-> FALSE]]

(* Mutant: the offers of the surface that was left live on. *)
OnDndPointerFocusKeeps(d) == UpdateDrag(d)

OnDndPointerFocus(d) == UpdateDrag(Dead(d))

(* Mutant: a drag does not keep the pointer from surfaces. *)
SetPointerFocusAnyway(d, x) ==
  IF x = d.ptr THEN d
  ELSE IF x = None THEN [d EXCEPT !.ptr = None, !.focus = None]
  ELSE OnDndPointerFocus([d EXCEPT !.ptr = x, !.focus = x])

(* CSeatManager::setPointerFocus *)
SetPointerFocus(d, x) ==
  IF x = d.ptr \/ (Active(d) /\ x = d.focus /\ x # None) THEN d
  ELSE IF x = None THEN [d EXCEPT !.ptr = None, !.focus = None]
  ELSE OnDndPointerFocus([d EXCEPT !.focus = x, !.ptr = IF Active(d) THEN @ ELSE x])

(* simulateMouseMovement and resendEnterEvents when no drag is active: the*)
(* surface below the cursor is left and entered again, which makes offers  *)
(* dead; below nothing, none of it happens.                                *)
PointerBack(d) ==
  IF under = None THEN SetPointerFocus(d, None)
  ELSE [Dead(d) EXCEPT !.ptr = under, !.focus = under]

(* cleanupDndState: the listeners go, and m_dnd.dndSurface. *)
Ungripped(d) == [d EXCEPT !.grip = FALSE]
Forgotten(d) == [d EXCEPT !.source = None, !.device = None]

(* Mutant: the source is forgotten before it is told. *)
AbortDragSilent(d) ==
  IF Active(d) \/ d.device # None
  THEN PointerBack(Forgotten(SendLeave([Ungripped(d) EXCEPT !.cursor = FALSE], d.device)))
  ELSE [Ungripped(d) EXCEPT !.cursor = FALSE]

AbortDrag(d) ==
  LET free == [Ungripped(d) EXCEPT !.cursor = FALSE]
  IN IF Active(d) \/ d.device # None
     THEN PointerBack(Forgotten(Tell(SendLeave(free, d.device), d.source, "cancelled")))
     ELSE free

CompleteDrag(d) ==
  IF Active(d) \/ d.device # None
  THEN PointerBack(Forgotten(Ungripped(Tell(d, d.source, "finished"))))
  ELSE d

(* wasDragSuccessful: a live offer of the source was taken up. *)
TakenUp(d) == {o \in Existing(d) : /\ ~d.offers[o].dead /\ d.offers[o].source = d.source
                                   /\ d.offers[o].accepted \/ d.offers[o].recvd}

(* The offer the client of the device last heard of is what is dropped.   *)
DropOn(d) == [d EXCEPT !.offers =
  [o \in Offers |-> IF @[o] # None /\ @[o].to = d.device /\ ~@[o].dead
                    THEN [@[o] EXCEPT !.dropped = TRUE] ELSE @[o]]]

(* Mutants: the device is not left; a drop on nothing is not answered.     *)
DropDragInside(d) ==
  IF d.device = None \/ TakenUp(d) = {} THEN AbortDrag(d)
  ELSE [Ungripped(DropOn(d)) EXCEPT !.cursor = FALSE]

DropDragNowhere(d) ==
  IF d.device = None THEN d
  ELSE IF TakenUp(d) = {} THEN AbortDrag(d)
  ELSE [Ungripped(SendLeave(DropOn(d), d.device)) EXCEPT !.cursor = FALSE]

DropDrag(d) ==
  IF d.device = None \/ TakenUp(d) = {} THEN AbortDrag(d)
  ELSE [Ungripped(SendLeave(DropOn(d), d.device)) EXCEPT !.cursor = FALSE]

(* The focus of the drag outlives that of the pointer. *)
InitiateDrag(d, s) ==
  LET fresh == IF Active(d) THEN AbortDrag(d) ELSE d
      gripped == [fresh EXCEPT !.source = s, !.grip = TRUE, !.cursor = TRUE]
      unfocused == [SetPointerFocus(gripped, None) EXCEPT !.focus = fresh.focus]
  IN UpdateDrag(unfocused)

-----------------------------------------------------------------------------
Room == \E o \in Offers : dnd.offers[o] = None
Unfinished == \E o \in Existing(dnd) : dnd.offers[o].dropped
World == <<sources, surfaces, devices>>

Init ==
  /\ dnd = [source |-> None, device |-> None, grip |-> FALSE, cursor |-> FALSE,
            ptr |-> None, focus |-> None, entered |-> [c \in Clients |-> None],
            offers |-> [o \in Offers |-> None], ends |-> [s \in Sources |-> {}]]
  /\ under = None
  /\ sources = Sources /\ surfaces = Surfaces /\ devices = Clients
  /\ overtaken = FALSE

(* The pointer, a finger or a pen moves to a surface or to none. *)
Move(x) ==
  /\ Room
  /\ under # x
  /\ under' = x /\ dnd' = SetPointerFocus(dnd, x)
  /\ overtaken' = (overtaken \/ (Active(dnd) /\ ~dnd.grip /\ x \notin {None, dnd.focus}))
  /\ UNCHANGED World

(* wl_data_device.start_drag; neither the serial nor m_used refuse it.    *)
StartDrag(s) ==
  /\ Room
  /\ s \in sources
  /\ dnd.ends[s] # {} => s \in Reusable
  /\ dnd' = InitiateDrag(dnd, s)
  /\ overtaken' = (overtaken \/ Unfinished)
  /\ UNCHANGED <<under, World>>

Step(d) == dnd' = d /\ UNCHANGED <<under, World, overtaken>>

(* A button, a finger or the pen is released. *)
Release == dnd.grip /\ Step(DropDrag(dnd))
IconDestroyed == dnd.grip /\ Step(AbortDrag(dnd))
Escape == Active(dnd) /\ Step(AbortDrag(dnd))

(* Requests on an offer: of a client that still has it. *)
Usable(o) == ~dnd.offers[o].dead /\ dnd.offers[o].source \in sources

Accept(o, mime) ==
  /\ o \in Existing(dnd)
  /\ Usable(o)
  /\ Step([dnd EXCEPT !.offers[o].accepted = mime])

Receive(o) ==
  /\ o \in Existing(dnd)
  /\ Usable(o)
  /\ Step([dnd EXCEPT !.offers[o].recvd = TRUE])

(* Finish is asked of a drop only.  It looks at the offer, never at which *)
(* drag is the current one.                                               *)
Finish(o) ==
  /\ o \in Existing(dnd)
  /\ dnd.offers[o].dropped
  /\ LET offer == dnd.offers[o]
         closed == [dnd EXCEPT !.offers[o].dead = TRUE, !.offers[o].dropped = FALSE]
     IN Step(IF offer.source \in sources /\ offer.recvd /\ offer.accepted
             THEN CompleteDrag(closed) ELSE AbortDrag(closed))

(* Also of one that was dropped, by a receiver that gives up or crashes.   *)
DestroyOffer(o) ==
  /\ o \in Existing(dnd)
  /\ LET gone == [dnd EXCEPT !.offers[o] = None]
     IN Step(IF Usable(o) THEN Tell(gone, dnd.offers[o].source, "finished") ELSE gone)

DestroySource(s) ==
  /\ s \in sources \cap Mortal
  /\ sources' = sources \ {s}
  /\ dnd' = IF dnd.source = s THEN AbortDrag(dnd) ELSE dnd
  /\ UNCHANGED <<under, surfaces, devices, overtaken>>

(* m_entered and dndPointerFocus are weak; the pointer's focus listens.   *)
DestroySurface(x) ==
  /\ x \in surfaces \cap Mortal
  /\ surfaces' = surfaces \ {x}
  /\ dnd' = [dnd EXCEPT !.ptr = IF @ = x THEN None ELSE @,
                        !.focus = IF x \in {@, dnd.ptr} THEN None ELSE @,
                        !.entered = [c \in Clients |-> IF @[c] = x THEN None ELSE @[c]]]
  /\ under' = IF under = x THEN None ELSE under
  /\ UNCHANGED <<sources, devices, overtaken>>

(* focusedDevice is weak. *)
DestroyDevice(c) ==
  /\ c \in devices \cap Mortal
  /\ devices' = devices \ {c}
  /\ dnd' = [dnd EXCEPT !.device = IF @ = c THEN None ELSE @, !.entered[c] = None]
  /\ UNCHANGED <<under, sources, surfaces, overtaken>>

GetDataDevice(c) ==
  /\ c \notin devices
  /\ devices' = devices \cup {c}
  /\ UNCHANGED <<dnd, under, sources, surfaces, overtaken>>

OfOffer(o) == \/ \E mime \in BOOLEAN : Accept(o, mime)
              \/ Receive(o) \/ Finish(o) \/ DestroyOffer(o)

Next ==
  \/ \E x \in Maybe(surfaces) : Move(x)
  \/ \E s \in Sources : StartDrag(s) \/ DestroySource(s)
  \/ Release \/ IconDestroyed \/ Escape
  \/ \E o \in Offers : OfOffer(o)
  \/ \E x \in Surfaces : DestroySurface(x)
  \/ \E c \in Clients : DestroyDevice(c) \/ GetDataDevice(c)

Spec == Init /\ [][Next]_vars

(* The user lets go; nothing is assumed of clients.                       *)
FairSpec == Spec /\ WF_vars(Release)

-----------------------------------------------------------------------------
TypeOK ==
  /\ dnd \in DndState
  /\ under \in Maybe(surfaces)
  /\ sources \subseteq Sources /\ surfaces \subseteq Surfaces /\ devices \subseteq Clients
  /\ overtaken \in BOOLEAN

(* No surface has the pointer while a drag is active: the buttons and      *)
(* motions of the drag go to nobody (setPointerFocus, initiateDrag).       *)
PointerLocked == Active(dnd) => dnd.ptr = None

(* wasDragSuccessful asks for any live offer of the source, not for one of *)
(* the device that is sent the drop: they are the same client's, although  *)
(* offers, devices, surfaces and drags of one source come and go.          *)
TargetHasOffer ==
  \A o \in Existing(dnd) : (~dnd.offers[o].dead /\ dnd.offers[o].source = dnd.source) =>
     dnd.device \in {dnd.offers[o].to, None}

(* A client is entered by a drag only while the user holds it, and only    *)
(* the one the drag is at; unless the user went on before a drop was       *)
(* finished: completeDrag leaves no device.                                *)
HoverEnds == overtaken \/ \A c \in Clients : dnd.entered[c] # None =>
                             dnd.device = c /\ dnd.grip

(* The cursor is overridden exactly while the user holds something; unless *)
(* the user went on before a drop was finished: a late finish completes    *)
(* the wrong drag, and completeDrag does not give the cursor back.         *)
CursorBack == overtaken \/ dnd.cursor = dnd.grip

(* A drag ends with an answer to its source, which may free what it holds, *)
(* whether it is dropped, refused, aborted, finished or followed by        *)
(* another: cancelled or dnd_finished.                                     *)
SourceAnswered == [][Active(dnd) /\ dnd'.source # dnd.source =>
     dnd.source \notin sources' \/ dnd'.ends[dnd.source] # {}]_vars

(* Dropped, and nobody is left who could finish it.                        *)
Deserted == Active(dnd) /\ ~dnd.grip /\ \A o \in Existing(dnd) : ~dnd.offers[o].dropped

(* If receivers finish or destroy what is dropped on them, every drag ends,*)
(* and with it the refusal of pointer focus, but for those that a receiver *)
(* deserts: no loss of a source, surface or device and no second drag      *)
(* leaves one that the user still holds or that a finish would not end.  A *)
(* source that is dragged again and again needs no other end of its drags. *)
(* A deserted drag waits for Escape, "for moments where it gets stuck"     *)
(* (DataDevice.hpp:147).                                                   *)
DragEnds == WF_vars(\E o \in Offers : Finish(o)) =>
  \A s \in Sources : \/ dnd.source = s ~> dnd.source # s \/ Deserted
                     \/ []<><<StartDrag(s)>>_vars
=============================================================================
