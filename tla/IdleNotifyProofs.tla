--------------------------- MODULE IdleNotifyProofs ---------------------------
(***************************************************************************)
(* Proofs about IdleNotify for any notifications, inhibitors and surfaces, *)
(* with any timeouts.                                                      *)
(***************************************************************************)
EXTENDS IdleNotify, TLAPS

Record == [alive : BOOLEAN, idled : BOOLEAN, left : SUBSET (0..Limit),
           credit : 0..Limit, age : 0..Limit]

(* What update makes of a notification, field by field.                    *)
LEMMA UpdatedFacts ==
  ASSUME TypeOK, NEW n \in Notifs, NEW e \in 0..Limit, NEW b \in BOOLEAN
  PROVE  /\ Updated(n, e, b) \in Record
         /\ Updated(n, e, b).alive = note[n].alive
         /\ Updated(n, e, b).age = note[n].age
         /\ Updated(n, e, b).credit = e
         /\ e = 0 /\ b /\ n \in Obeying =>
              ~Updated(n, e, b).idled /\ Updated(n, e, b).left = {}
         /\ Updated(n, e, b).idled => e >= Timeout[n]
         /\ \A t \in Updated(n, e, b).left : t = Timeout[n] - e /\ Timeout[n] > e
<1> DEFINE held == e = 0 /\ b /\ n \in Obeying
           waits == ~held /\ Timeout[n] > e
           left == IF waits THEN {Timeout[n] - e} ELSE {}
<1>1. note[n] \in Record
  BY DEF TypeOK, Record
<1>2. Timeout[n] \in 0..Limit /\ Limit \in Nat
  BY TimesAssumption
<1>3. left \in SUBSET (0..Limit)
  BY <1>2
<1>4. Updated(n, e, b) = [note[n] EXCEPT !.idled = ~held /\ ~waits, !.left = left, !.credit = e]
  BY DEF Updated
<1> HIDE DEF left
<1>5. /\ Updated(n, e, b) \in Record
      /\ Updated(n, e, b).alive = note[n].alive
      /\ Updated(n, e, b).age = note[n].age
      /\ Updated(n, e, b).credit = e
      /\ Updated(n, e, b).left = left
      /\ Updated(n, e, b).idled = (~held /\ ~waits)
  BY <1>1, <1>3, <1>4 DEF Record
<1>6. \A t \in left : t = Timeout[n] - e /\ Timeout[n] > e
  BY DEF left
<1>7. ~held /\ ~waits => e >= Timeout[n]
  BY <1>2
<1>8. held => left = {} /\ ~(~held /\ ~waits)
  BY DEF left
<1> QED
  BY <1>5, <1>6, <1>7, <1>8

(* A notification that is updated without elapsed time: what GetNotification*)
(* makes.                                                                  *)
LEMMA NewFacts ==
  ASSUME TypeOK, NEW n \in Notifs
  PROVE  /\ Updated(n, 0, isInhibited) \in Record
         /\ Updated(n, 0, isInhibited).credit = 0
         /\ isInhibited /\ n \in Obeying =>
              ~Updated(n, 0, isInhibited).idled /\ Updated(n, 0, isInhibited).left = {}
<1>1. 0 \in 0..Limit
  BY TimesAssumption
<1>2. isInhibited \in BOOLEAN
  BY DEF TypeOK
<1> QED
  BY <1>1, <1>2, UpdatedFacts

(* Updates, notification by notification.                                  *)
LEMMA UpdatesFacts ==
  ASSUME TypeOK, NEW S, NEW e \in 0..Limit, NEW b \in BOOLEAN, Updates(S, e, b)
  PROVE  /\ note' \in [Notifs -> Record]
         /\ \A n \in Notifs : note'[n] = IF note[n].alive /\ n \in S
                                         THEN Updated(n, e, b) ELSE note[n]
<1>1. \A n \in Notifs : Updated(n, e, b) \in Record /\ note[n] \in Record
  BY UpdatedFacts DEF TypeOK, Record
<1> QED
  BY <1>1 DEF Updates

-------------------------------------------------------------------------------
(* The steps by what they do to the notifications.                         *)
Calm == UNCHANGED <<isInhibited, note, sinceInput, sinceHeld>>
Checked == (\E b \in BOOLEAN : SetInhibit(b)) /\ UNCHANGED sinceInput
Looked == Recheck \/ NoRecheck \/ Overlooked

LEMMA SurfaceSteps ==
  ASSUME unseen \in BOOLEAN, SurfaceStep
  PROVE  (Calm \/ Checked) /\ unseen' \in BOOLEAN
<1>1. ASSUME Looked, UNCHANGED sinceInput
      PROVE  (Calm \/ Checked) /\ unseen' \in BOOLEAN
  <2>1. (NoRecheck \/ Overlooked) => Calm /\ unseen' \in BOOLEAN
    BY <1>1 DEF NoRecheck, Overlooked, Calm
  <2>2. Recheck => Checked /\ unseen' \in BOOLEAN
    BY <1>1 DEF Recheck, Checked
  <2> QED
    BY <1>1, <2>1, <2>2 DEF Looked
<1>2. ASSUME NEW s \in Surfaces, Assign(s) \/ Map(s) \/ Unmap(s)
      PROVE  Looked /\ UNCHANGED sinceInput
  BY <1>2 DEF Assign, Map, Unmap, Looked
<1>3. ASSUME NEW s \in Surfaces, Unassign(s) \/ Hide(s)
      PROVE  Looked /\ UNCHANGED sinceInput
  BY <1>3 DEF Unassign, Hide, Looked
<1>4. ASSUME NEW i \in Inhibitors, DestroyInhibitor(i) \/ \E s \in Surfaces : CreateInhibitor(i, s)
      PROVE  Looked /\ UNCHANGED sinceInput
  BY <1>4 DEF DestroyInhibitor, CreateInhibitor, Looked
<1>5. ASSUME FocusChange
      PROVE  Looked /\ UNCHANGED sinceInput
  BY <1>5 DEF FocusChange, Looked
<1>6. ASSUME NEW s \in Surfaces, DestroySurface(s)
      PROVE  (Calm \/ Checked) /\ unseen' \in BOOLEAN
  <2>1. CASE Looked
    BY <1>1, <1>6, <2>1 DEF DestroySurface
  <2>2. CASE SetInhibit(Holders' # {} \/ role[s] = "always") /\ unseen' = (role[s] = "always")
    <3>1. (Holders' # {} \/ role[s] = "always") \in BOOLEAN /\ UNCHANGED sinceInput
      BY <1>6 DEF DestroySurface
    <3>2. unseen' \in BOOLEAN
      BY <2>2
    <3> QED
      BY <2>2, <3>1, <3>2 DEF Checked
  <2> QED
    BY <1>6, <2>1, <2>2 DEF DestroySurface, Looked
<1> QED
  BY <1>1, <1>2, <1>3, <1>4, <1>5, <1>6 DEF SurfaceStep

(* Surfaces and inhibitors stay in their domains.                          *)
SurfacesTypeOK ==
  /\ role \in [Surfaces -> {None, "layer"} \cup Rules] /\ mapped \in [Surfaces -> BOOLEAN]
  /\ shown \in [Surfaces -> BOOLEAN] /\ met \in [Surfaces -> BOOLEAN]
InhibitorsTypeOK ==
  /\ stage \in [Inhibitors -> {None, "listed", "dropped", "inert"}]
  /\ on \in [Inhibitors -> Surfaces \cup {None}]
  /\ nonDesktop \in [Inhibitors -> BOOLEAN]

LEMMA SurfacesTyped ==
  ASSUME TypeOK, SurfaceStep \/ UNCHANGED <<surfaces, inhibitors>>
  PROVE  SurfacesTypeOK' /\ InhibitorsTypeOK'
<1> USE DEF SurfacesTypeOK, InhibitorsTypeOK
<1>1. CASE UNCHANGED <<surfaces, inhibitors>>
  BY <1>1 DEF TypeOK, surfaces, inhibitors
<1>2. ASSUME NEW s \in Surfaces, Assign(s) \/ Map(s) \/ Unmap(s) \/ Hide(s)
      PROVE  SurfacesTypeOK' /\ InhibitorsTypeOK'
  <2>1. CASE Assign(s)
    <3>1. PICK r \in Roles(s) : role' = [role EXCEPT ![s] = r]
      BY <2>1 DEF Assign
    <3>2. r \in {None, "layer"} \cup Rules
      BY DEF Roles
    <3>3. role' \in [Surfaces -> {None, "layer"} \cup Rules]
      BY <3>1, <3>2 DEF TypeOK
    <3> QED
      BY <2>1, <3>3 DEF TypeOK, Assign, inhibitors
  <2>2. CASE Map(s)
    BY <2>2 DEF TypeOK, Map, inhibitors
  <2>3. CASE Unmap(s)
    BY <2>3 DEF TypeOK, Unmap, inhibitors
  <2>4. CASE Hide(s)
    BY <2>4 DEF TypeOK, Hide, inhibitors
  <2> QED
    BY <1>2, <2>1, <2>2, <2>3, <2>4
<1>3. ASSUME NEW s \in Surfaces, Unassign(s) \/ DestroySurface(s)
      PROVE  SurfacesTypeOK' /\ InhibitorsTypeOK'
  BY <1>3 DEF TypeOK, Unassign, DestroySurface
<1>4. ASSUME NEW i \in Inhibitors, DestroyInhibitor(i)
      PROVE  SurfacesTypeOK' /\ InhibitorsTypeOK'
  BY <1>4 DEF TypeOK, DestroyInhibitor, surfaces
<1>5. ASSUME NEW i \in Inhibitors, NEW s \in Surfaces, CreateInhibitor(i, s)
      PROVE  SurfacesTypeOK' /\ InhibitorsTypeOK'
  BY <1>5 DEF TypeOK, CreateInhibitor, surfaces
<1>6. CASE FocusChange
  BY <1>6, SetsAssumption DEF TypeOK, FocusChange, inhibitors
<1> QED
  BY <1>1, <1>2, <1>3, <1>4, <1>5, <1>6 DEF SurfaceStep

(* The other steps leave surfaces and inhibitors alone.                    *)
LEMMA OtherSteps ==
  ASSUME [Next]_vars, ~SurfaceStep
  PROVE  /\ UNCHANGED <<surfaces, inhibitors>>
         /\ \/ Activity \/ ForceStep \/ Tick \/ UNCHANGED vars
            \/ \E n \in Notifs : GetNotification(n) \/ DestroyNotification(n) \/ FireTimer(n)
  BY DEF Next, vars, Activity, ForceStep, ForceIdle, Tick, GetNotification,
    DestroyNotification, FireTimer, Elsewhere

-------------------------------------------------------------------------------
NotesTypeOK ==
  /\ isInhibited \in BOOLEAN
  /\ note \in [Notifs -> Record]
  /\ sinceInput \in 0..Limit /\ sinceHeld \in 0..Limit

LEMMA TypeParts ==
  TypeOK <=> SurfacesTypeOK /\ InhibitorsTypeOK /\ NotesTypeOK /\ unseen \in BOOLEAN
  BY DEF TypeOK, SurfacesTypeOK, InhibitorsTypeOK, NotesTypeOK, Record

LEMMA UnseenTyped ==
  ASSUME unseen \in BOOLEAN, [Next]_vars
  PROVE  unseen' \in BOOLEAN
<1>1. ASSUME SurfaceStep PROVE unseen' \in BOOLEAN
  BY <1>1, SurfaceSteps
<1>2. ASSUME ~SurfaceStep PROVE unseen' = unseen
  BY <1>2, OtherSteps DEF Activity, ForceStep, ForceIdle, Tick, GetNotification,
    DestroyNotification, FireTimer, Elsewhere, vars
<1> QED
  BY <1>1, <1>2

(* The flag set anew, spelled out.                                         *)
LEMMA CheckedFacts ==
  ASSUME TypeOK, Checked
  PROVE  /\ isInhibited' \in BOOLEAN
         /\ Updates(Obeying, 0, isInhibited')
         /\ sinceHeld' = IF isInhibited' \/ isInhibited THEN 0 ELSE sinceHeld
         /\ sinceInput' = sinceInput
  BY DEF Checked, SetInhibit, SetFlag

(* Time, notification by notification.                                     *)
Aged(r) == [r EXCEPT !.age = Older(@), !.left = {IF t = 0 THEN 0 ELSE t - 1 : t \in @}]

LEMMA TickFacts ==
  ASSUME TypeOK, Tick
  PROVE  /\ note' = [n \in Notifs |-> IF note[n].alive THEN Aged(note[n]) ELSE note[n]]
         /\ \A n \in Notifs : Aged(note[n]) \in Record
         /\ sinceInput' = Older(sinceInput)
         /\ sinceHeld' = IF isInhibited THEN 0 ELSE Older(sinceHeld)
         /\ isInhibited' = isInhibited
<1>1. ASSUME NEW n \in Notifs
      PROVE  Aged(note[n]) \in Record
  <2>1. note[n] \in Record
    BY DEF TypeOK, Record
  <2>2. Older(note[n].age) \in 0..Limit
    BY <2>1, TimesAssumption DEF Record, Older
  <2>3. {IF t = 0 THEN 0 ELSE t - 1 : t \in note[n].left} \in SUBSET (0..Limit)
    BY <2>1, TimesAssumption DEF Record
  <2> QED
    BY <2>1, <2>2, <2>3 DEF Record, Aged
<1>2. note' = [n \in Notifs |-> IF note[n].alive THEN Aged(note[n]) ELSE note[n]]
  BY DEF Tick, Aged
<1> QED
  BY <1>1, <1>2 DEF Tick

(* Every step keeps the types.                                             *)
LEMMA TypeStep ==
  ASSUME TypeOK, [Next]_vars
  PROVE  TypeOK'
<1> USE TimesAssumption
<1>0. NotesTypeOK
  BY TypeParts
<1>1. ASSUME Checked PROVE NotesTypeOK'
  <2>1. Updates(Obeying, 0, isInhibited') /\ isInhibited' \in BOOLEAN /\ 0 \in 0..Limit
    BY <1>1, CheckedFacts
  <2>2. note' \in [Notifs -> Record]
    BY <2>1, UpdatesFacts
  <2> QED
    BY <1>0, <1>1, <2>2, CheckedFacts DEF NotesTypeOK
<1>2. ASSUME Activity \/ ForceStep PROVE NotesTypeOK'
  <2>1. PICK e \in 0..Limit : Updates(Notifs, e, isInhibited)
    BY <1>2 DEF Activity, ForceStep, ForceIdle
  <2>2. note' \in [Notifs -> Record]
    BY <1>0, <2>1, UpdatesFacts DEF NotesTypeOK
  <2> QED
    BY <1>0, <1>2, <2>2 DEF Activity, ForceStep, ForceIdle, NotesTypeOK
<1>3. ASSUME NEW n \in Notifs, GetNotification(n) PROVE NotesTypeOK'
  <2>1. Updated(n, 0, isInhibited) \in Record
    BY NewFacts
  <2>2. [Updated(n, 0, isInhibited) EXCEPT !.alive = TRUE] \in Record
    BY <2>1 DEF Record
  <2> QED
    BY <1>0, <1>3, <2>2 DEF GetNotification, NotesTypeOK
<1>4. ASSUME NEW n \in Notifs, DestroyNotification(n) PROVE NotesTypeOK'
  <2>1. Fresh \in Record
    BY DEF Fresh, Record
  <2> QED
    BY <1>0, <1>4, <2>1 DEF DestroyNotification, NotesTypeOK
<1>5. ASSUME NEW n \in Notifs, FireTimer(n) PROVE NotesTypeOK'
  <2>1. [note[n] EXCEPT !.left = {}, !.idled = TRUE] \in Record
    BY <1>0 DEF NotesTypeOK, Record
  <2>2. note' = [note EXCEPT ![n] = [note[n] EXCEPT !.left = {}, !.idled = TRUE]]
    BY <1>0, <1>5 DEF FireTimer, NotesTypeOK, Record
  <2> QED
    BY <1>0, <1>5, <2>1, <2>2 DEF FireTimer, NotesTypeOK
<1>6. ASSUME Tick PROVE NotesTypeOK'
  <2>1. note' \in [Notifs -> Record]
    BY <1>0, <1>6, TickFacts DEF NotesTypeOK
  <2> QED
    BY <1>0, <1>6, <2>1, TickFacts DEF Older, NotesTypeOK
<1>7. ASSUME SurfaceStep PROVE SurfacesTypeOK' /\ InhibitorsTypeOK' /\ NotesTypeOK'
  <2>1. NotesTypeOK'
    BY <1>0, <1>1, <1>7, SurfaceSteps DEF Calm, NotesTypeOK, TypeOK
  <2> QED
    BY <1>0, <2>1, <1>7, SurfacesTyped
<1>8. ASSUME ~SurfaceStep PROVE SurfacesTypeOK' /\ InhibitorsTypeOK' /\ NotesTypeOK'
  <2>1. NotesTypeOK'
    BY <1>0, <1>2, <1>3, <1>4, <1>5, <1>6, <1>8, OtherSteps DEF vars, NotesTypeOK
  <2>2. SurfacesTypeOK' /\ InhibitorsTypeOK'
    BY <1>8, OtherSteps, SurfacesTyped
  <2> QED
    BY <2>1, <2>2
<1>9. unseen' \in BOOLEAN
  BY UnseenTyped DEF TypeOK
<1> QED
  BY <1>7, <1>8, <1>9 DEF TypeOK, SurfacesTypeOK, InhibitorsTypeOK, NotesTypeOK, Record

LEMMA TypeInit ==
  ASSUME Init
  PROVE  TypeOK
<1>1. SurfacesTypeOK
  BY DEF Init, SurfacesTypeOK
<1>2. InhibitorsTypeOK
  BY DEF Init, InhibitorsTypeOK
<1>3. Fresh \in Record
  BY TimesAssumption DEF Fresh, Record
<1>4. note \in [Notifs -> Record]
  BY <1>3 DEF Init
<1>5. sinceInput \in 0..Limit /\ sinceHeld \in 0..Limit
  BY TimesAssumption DEF Init
<1>6. isInhibited \in BOOLEAN
  BY Zenon DEF Init
<1>7. NotesTypeOK
  BY <1>4, <1>5, <1>6 DEF NotesTypeOK
<1>8. unseen \in BOOLEAN
  BY Zenon DEF Init
<1> QED
  BY <1>1, <1>2, <1>7, <1>8, TypeParts

(* The model stays in its domains.                                         *)
THEOREM TypeCorrect == Spec => []TypeOK
<1> QED
  BY TypeInit, TypeStep, PTL DEF Spec

-------------------------------------------------------------------------------
(* While the session is inhibited a notification that obeys neither is     *)
(* idle nor waits to be, unless forceidle made it.                         *)
HeldAwake ==
  isInhibited => \A n \in Obeying : note[n].alive =>
    note[n].credit > 0 \/ (~note[n].idled /\ note[n].left = {})

(* update(e), for every notification of S, under an inhibition or not.     *)
LEMMA UpdatesAwake ==
  ASSUME TypeOK, NEW S, Obeying \subseteq S, NEW e \in 0..Limit, NEW b \in BOOLEAN,
         Updates(S, e, b), isInhibited' = b
  PROVE  HeldAwake'
<1>1. SUFFICES ASSUME b, NEW n \in Obeying, note'[n].alive
               PROVE  note'[n].credit > 0 \/ (~note'[n].idled /\ note'[n].left = {})
  BY DEF HeldAwake
<1>2. n \in Notifs /\ n \in S
  BY SetsAssumption
<1>3. note[n].alive => note'[n] = Updated(n, e, b)
  BY <1>2, UpdatesFacts
<1>4. note[n].alive
  BY <1>1, <1>2, UpdatesFacts
<1>5. CASE e = 0
  <2>1. ~Updated(n, e, b).idled /\ Updated(n, e, b).left = {}
    BY <1>1, <1>2, <1>5, UpdatedFacts
  <2> QED
    BY <1>3, <1>4, <2>1
<1>6. CASE e > 0
  BY <1>2, <1>3, <1>4, <1>6, UpdatedFacts
<1> QED
  BY <1>5, <1>6, TimesAssumption

LEMMA AwakeStep ==
  ASSUME TypeOK, HeldAwake, [Next]_vars
  PROVE  HeldAwake'
<1> USE TimesAssumption, SetsAssumption
<1>0. NotesTypeOK
  BY TypeParts
<1>1. CASE UNCHANGED <<isInhibited, note>>
  BY <1>1 DEF HeldAwake
<1>2. CASE Checked
  <2>1. 0 \in 0..Limit
    OBVIOUS
  <2> QED
    BY <1>2, <2>1, CheckedFacts, UpdatesAwake
<1>3. CASE Activity \/ ForceStep
  <2>1. PICK e \in 0..Limit : Updates(Notifs, e, isInhibited)
    BY <1>3 DEF Activity, ForceStep, ForceIdle
  <2>2. isInhibited' = isInhibited
    BY <1>3 DEF Activity, ForceStep, ForceIdle
  <2> QED
    BY <1>0, <2>1, <2>2, UpdatesAwake DEF NotesTypeOK
<1>4. ASSUME NEW m \in Notifs, GetNotification(m) PROVE HeldAwake'
  <2>1. SUFFICES ASSUME isInhibited, NEW n \in Obeying, note'[n].alive
                 PROVE  note'[n].credit > 0 \/ (~note'[n].idled /\ note'[n].left = {})
    BY <1>4 DEF HeldAwake, GetNotification
  <2>2. CASE n # m
    BY <1>0, <1>4, <2>1, <2>2 DEF HeldAwake, GetNotification, NotesTypeOK
  <2>3. CASE n = m
    <3>1. Updated(n, 0, isInhibited) \in Record /\ ~Updated(n, 0, isInhibited).idled
            /\ Updated(n, 0, isInhibited).left = {}
      BY <2>1, <2>3, NewFacts
    <3>2. note'[n] = [Updated(n, 0, isInhibited) EXCEPT !.alive = TRUE]
      BY <1>0, <1>4, <2>3 DEF GetNotification, NotesTypeOK
    <3> QED
      BY <3>1, <3>2 DEF Record
  <2> QED
    BY <2>2, <2>3
<1>5. ASSUME NEW m \in Notifs, DestroyNotification(m) PROVE HeldAwake'
  BY <1>0, <1>5 DEF DestroyNotification, Fresh, HeldAwake, NotesTypeOK
<1>6. ASSUME NEW m \in Notifs, FireTimer(m) PROVE HeldAwake'
  <2>1. SUFFICES ASSUME isInhibited, NEW n \in Obeying, note'[n].alive
                 PROVE  note'[n].credit > 0 \/ (~note'[n].idled /\ note'[n].left = {})
    BY <1>6 DEF HeldAwake, FireTimer
  <2>2. note[n] \in Record
    BY <1>0 DEF NotesTypeOK
  <2>3. CASE n # m
    BY <1>0, <1>6, <2>1, <2>3 DEF HeldAwake, FireTimer, NotesTypeOK
  <2>4. CASE n = m
    <3>1. note'[n] = [note[n] EXCEPT !.left = {}, !.idled = TRUE]
      BY <1>0, <1>6, <2>4 DEF FireTimer, NotesTypeOK
    <3>2. note[n].alive /\ note[n].left # {}
      BY <1>6, <2>1, <2>2, <2>4, <3>1 DEF FireTimer, Record
    <3> QED
      BY <2>1, <2>2, <3>1, <3>2 DEF HeldAwake, Record
  <2> QED
    BY <2>3, <2>4
<1>7. CASE Tick
  <2>1. SUFFICES ASSUME isInhibited, NEW n \in Obeying, note'[n].alive
                 PROVE  note'[n].credit > 0 \/ (~note'[n].idled /\ note'[n].left = {})
    BY <1>7, TickFacts DEF HeldAwake
  <2>2. note[n] \in Record
    BY <1>0 DEF NotesTypeOK
  <2>3. note'[n] = IF note[n].alive THEN Aged(note[n]) ELSE note[n]
    BY <1>7, TickFacts
  <2> QED
    BY <2>1, <2>2, <2>3 DEF HeldAwake, Aged, Record
<1>10. unseen \in BOOLEAN
  BY DEF TypeOK
<1> QED
  BY <1>1, <1>2, <1>3, <1>4, <1>5, <1>6, <1>7, <1>10, SurfaceSteps, OtherSteps DEF Calm, vars

(* An inhibition keeps every notification that obeys it from idling.       *)
THEOREM AlwaysHeldAwake == Spec => []HeldAwake
<1>1. Init => HeldAwake
  BY DEF Init, HeldAwake
<1> QED
  BY <1>1, TypeCorrect, AwakeStep, PTL DEF Spec

-------------------------------------------------------------------------------
(* What a timer with t ticks to go may count on, and what an idle          *)
(* notification could: t = 0.                                              *)
Earned(n, t) ==
  /\ sinceInput + note[n].credit + t >= Timeout[n]
  /\ note[n].age + note[n].credit + t >= Timeout[n]
  /\ n \in Obeying /\ note[n].credit = 0 => sinceHeld + t >= Timeout[n]

Timely(n) ==
  note[n].alive =>
    /\ note[n].idled => Earned(n, 0)
    /\ \A t \in note[n].left : Earned(n, t)

(* A notification that was just updated has earned what it starts with.    *)
LEMMA UpdatedTimely ==
  ASSUME TypeOK, NEW n \in Notifs, NEW e \in 0..Limit, NEW b \in BOOLEAN,
         sinceInput' \in 0..Limit, sinceHeld' \in 0..Limit,
         note'[n].idled = Updated(n, e, b).idled, note'[n].left = Updated(n, e, b).left,
         note'[n].credit = e, note'[n].age \in 0..Limit
  PROVE  Timely(n)'
<1>1. Timeout[n] \in 0..Limit /\ Limit \in Nat
  BY TimesAssumption
<1>2. note'[n].idled => e >= Timeout[n]
  BY <1>1, UpdatedFacts
<1>3. \A t \in note'[n].left : t = Timeout[n] - e /\ Timeout[n] > e
  BY <1>1, UpdatedFacts
<1>4. note'[n].idled => Earned(n, 0)'
  BY <1>1, <1>2 DEF Earned
<1>5. \A t \in note'[n].left : Earned(n, t)'
  BY <1>1, <1>3 DEF Earned
<1> QED
  BY <1>4, <1>5 DEF Timely

LEMMA TimelyStep ==
  ASSUME TypeOK, TypeOK', HeldAwake, [Next]_vars, NEW n \in Notifs, Timely(n)
  PROVE  Timely(n)'
<1> USE TimesAssumption
<1>0. NotesTypeOK /\ NotesTypeOK' /\ note[n] \in Record /\ note'[n] \in Record
  BY TypeParts DEF TypeOK, NotesTypeOK, Record
<1>1. CASE note'[n] = note[n] /\ sinceInput' = sinceInput
           /\ (n \in Obeying => sinceHeld' = sinceHeld)
  BY <1>1 DEF Timely, Earned
<1>2. ASSUME NEW S, NEW e \in 0..Limit, NEW b \in BOOLEAN, Updates(S, e, b), n \in S
      PROVE  Timely(n)'
  <2>1. CASE note[n].alive
    <3>1. note'[n] = Updated(n, e, b)
      BY <1>2, <2>1, UpdatesFacts
    <3>2. note'[n].credit = e
      BY <1>2, <3>1, UpdatedFacts
    <3> QED
      BY <1>0, <3>1, <3>2, UpdatedTimely DEF NotesTypeOK, Record
  <2>2. CASE ~note[n].alive
    BY <1>2, <2>2, UpdatesFacts DEF Timely
  <2> QED
    BY <2>1, <2>2
<1>3. CASE Checked
  <2>1. Updates(Obeying, 0, isInhibited') /\ isInhibited' \in BOOLEAN /\ 0 \in 0..Limit
        /\ sinceInput' = sinceInput
    BY <1>3, CheckedFacts
  <2>2. CASE n \in Obeying
    BY <1>2, <2>1, <2>2
  <2>3. CASE n \notin Obeying
    <3>1. note'[n] = note[n]
      BY <2>1, <2>3 DEF Updates
    <3> QED
      BY <1>1, <2>1, <2>3, <3>1
  <2> QED
    BY <2>2, <2>3
<1>4. CASE Activity \/ ForceStep
  <2>1. PICK e \in 0..Limit : Updates(Notifs, e, isInhibited)
    BY <1>4 DEF Activity, ForceStep, ForceIdle
  <2> QED
    BY <1>0, <1>2, <2>1 DEF NotesTypeOK
<1>5. ASSUME NEW m \in Notifs, GetNotification(m) PROVE Timely(n)'
  <2>1. CASE n # m
    BY <1>0, <1>1, <1>5, <2>1 DEF GetNotification, NotesTypeOK
  <2>2. CASE n = m
    <3>1. Updated(n, 0, isInhibited) \in Record /\ Updated(n, 0, isInhibited).credit = 0
      BY NewFacts
    <3>2. note'[n] = [Updated(n, 0, isInhibited) EXCEPT !.alive = TRUE]
      BY <1>0, <1>5, <2>2 DEF GetNotification, NotesTypeOK
    <3>3. /\ note'[n].idled = Updated(n, 0, isInhibited).idled
          /\ note'[n].left = Updated(n, 0, isInhibited).left
          /\ note'[n].credit = 0
      BY <3>1, <3>2 DEF Record
    <3> QED
      BY <1>0, <3>3, UpdatedTimely DEF NotesTypeOK, Record
  <2> QED
    BY <2>1, <2>2
<1>6. ASSUME NEW m \in Notifs, DestroyNotification(m) PROVE Timely(n)'
  <2>1. CASE n # m
    BY <1>0, <1>1, <1>6, <2>1 DEF DestroyNotification, NotesTypeOK
  <2>2. CASE n = m
    BY <1>0, <1>6, <2>2 DEF DestroyNotification, Fresh, Timely, NotesTypeOK
  <2> QED
    BY <2>1, <2>2
<1>7. ASSUME NEW m \in Notifs, FireTimer(m) PROVE Timely(n)'
  <2>1. CASE n # m
    BY <1>0, <1>1, <1>7, <2>1 DEF FireTimer, NotesTypeOK
  <2>2. CASE n = m
    <3>1. note'[n] = [note[n] EXCEPT !.left = {}, !.idled = TRUE]
      BY <1>0, <1>7, <2>2 DEF FireTimer, NotesTypeOK
    <3>2. note[n].alive => Earned(n, 0)
      BY <1>7, <2>2 DEF FireTimer, Timely
    <3>3. UNCHANGED <<sinceInput, sinceHeld>>
      BY <1>7 DEF FireTimer
    <3> QED
      BY <1>0, <3>1, <3>2, <3>3 DEF Timely, Earned, Record
  <2> QED
    BY <2>1, <2>2
<1>8. CASE Tick
  <2>1. SUFFICES ASSUME note'[n].alive
                 PROVE  /\ note'[n].idled => Earned(n, 0)'
                        /\ \A t \in note'[n].left : Earned(n, t)'
    BY DEF Timely
  <2>2. note'[n] = IF note[n].alive THEN Aged(note[n]) ELSE note[n]
    BY <1>8, TickFacts
  <2>3. note[n].alive /\ note'[n] = Aged(note[n])
    BY <2>1, <2>2
  <2>4. /\ note'[n].idled = note[n].idled /\ note'[n].credit = note[n].credit
        /\ note'[n].age = Older(note[n].age)
        /\ note'[n].left = {IF t = 0 THEN 0 ELSE t - 1 : t \in note[n].left}
    BY <1>0, <2>3 DEF Aged, Record
  <2>5. sinceInput' = Older(sinceInput) /\ sinceHeld' = IF isInhibited THEN 0 ELSE Older(sinceHeld)
    BY <1>8, TickFacts
  <2>6. Timeout[n] \in 0..Limit
    OBVIOUS
  <2>7. ASSUME n \in Obeying, note[n].credit = 0, isInhibited
        PROVE  ~note[n].idled /\ note[n].left = {}
    BY <1>0, <2>3, <2>7 DEF HeldAwake, Record
  <2>8. ASSUME NEW t \in 0..Limit, Earned(n, t), n \in Obeying /\ note[n].credit = 0 => ~isInhibited
        PROVE  Earned(n, IF t = 0 THEN 0 ELSE t - 1)'
    BY <1>0, <2>4, <2>5, <2>6, <2>8 DEF Earned, Older, Record, NotesTypeOK
  <2>9. note'[n].idled => Earned(n, 0)'
    BY <2>3, <2>4, <2>7, <2>8 DEF Timely
  <2>10. ASSUME NEW u \in note'[n].left
         PROVE  Earned(n, u)'
    <3>1. PICK t \in note[n].left : u = IF t = 0 THEN 0 ELSE t - 1
      BY <2>4
    <3>2. t \in 0..Limit /\ Earned(n, t)
      BY <1>0, <2>3 DEF Timely, Record
    <3>3. n \in Obeying /\ note[n].credit = 0 => ~isInhibited
      BY <2>7
    <3> QED
      BY <2>8, <3>1, <3>2, <3>3
  <2> QED
    BY <2>9, <2>10
<1>9. UNCHANGED <<note, sinceInput, sinceHeld>> => Timely(n)'
  BY <1>1
<1>10. unseen \in BOOLEAN
  BY DEF TypeOK
<1> QED
  BY <1>3, <1>4, <1>5, <1>6, <1>7, <1>8, <1>9, <1>10, SurfaceSteps, OtherSteps DEF Calm, vars

AllTimely == \A n \in Notifs : Timely(n)

(* No notification idles before its time, however often it is updated, the *)
(* session inhibited or a timer called late.                               *)
THEOREM NeverEarly == Spec => []NoEarlyIdle
<1>1. Init => AllTimely
  BY DEF Init, Fresh, AllTimely, Timely
<1>2. TypeOK /\ TypeOK' /\ HeldAwake /\ [Next]_vars /\ AllTimely => AllTimely'
  BY TimelyStep DEF AllTimely
<1>3. TypeOK /\ AllTimely => NoEarlyIdle
  <2>1. SUFFICES ASSUME TypeOK, AllTimely, NEW n \in Notifs, note[n].alive, note[n].idled
                 PROVE  /\ sinceInput + note[n].credit >= Timeout[n]
                        /\ note[n].age + note[n].credit >= Timeout[n]
                        /\ n \in Obeying /\ note[n].credit = 0 => sinceHeld >= Timeout[n]
    BY DEF NoEarlyIdle
  <2>2. Earned(n, 0)
    BY <2>1 DEF AllTimely, Timely
  <2> QED
    BY <2>1, <2>2, TimesAssumption DEF Earned, TypeOK
<1> QED
  BY <1>1, <1>2, <1>3, TypeCorrect, AlwaysHeldAwake, PTL DEF Spec

-------------------------------------------------------------------------------
(* What is mapped has its role, the rules of others are not met, and an    *)
(* inhibitor knows its surface.                                            *)
Settled ==
  /\ \A s \in Surfaces : role[s] \in {None} \cup Roles(s)
  /\ \A s \in Surfaces : (mapped[s] => role[s] # None) /\ (met[s] => mapped[s])
  /\ \A i \in Inhibitors : stage[i] # None => on[i] \in Surfaces

LEMMA SettledStep ==
  ASSUME TypeOK, Settled, SurfaceStep
  PROVE  Settled'
<1>0. SurfacesTypeOK /\ InhibitorsTypeOK
  BY TypeParts
<1> DEFINE Placed == \A s \in Surfaces : (mapped[s] => role[s] # None) /\ (met[s] => mapped[s])
           Kept == \A s \in Surfaces : role[s] \in {None} \cup Roles(s)
           Made == \A i \in Inhibitors : stage[i] # None => on[i] \in Surfaces
<1>1. ASSUME NEW s \in Surfaces, Assign(s) \/ Map(s) \/ Unmap(s) PROVE Settled'
  <2>1. Made'
    BY <1>1 DEF Assign, Map, Unmap, inhibitors, Settled
  <2>2. Placed'
    BY <1>0, <1>1 DEF Assign, Map, Unmap, Settled, SurfacesTypeOK
  <2>3. Kept'
    BY <1>0, <1>1 DEF Assign, Map, Unmap, Roles, Settled, SurfacesTypeOK
  <2> QED
    BY <2>1, <2>2, <2>3 DEF Settled
<1>2. ASSUME NEW s \in Surfaces, Unassign(s) PROVE Settled'
  <2>1. Made'
    BY <1>0, <1>2 DEF Unassign, Attached, Settled, InhibitorsTypeOK
  <2>2. Placed'
    BY <1>0, <1>2 DEF Unassign, Settled, SurfacesTypeOK
  <2>3. Kept'
    BY <1>0, <1>2 DEF Unassign, Settled, SurfacesTypeOK
  <2> QED
    BY <2>1, <2>2, <2>3 DEF Settled
<1>3. ASSUME NEW s \in Surfaces, DestroySurface(s) PROVE Settled'
  <2>1. Made'
    BY <1>0, <1>3 DEF DestroySurface, Settled, InhibitorsTypeOK
  <2>2. Placed'
    BY <1>0, <1>3 DEF DestroySurface, Settled, SurfacesTypeOK
  <2>3. Kept'
    BY <1>0, <1>3 DEF DestroySurface, Settled, SurfacesTypeOK
  <2> QED
    BY <2>1, <2>2, <2>3 DEF Settled
<1>4. ASSUME NEW s \in Surfaces, Hide(s) PROVE Settled'
  BY <1>0, <1>4 DEF Hide, inhibitors, Settled, SurfacesTypeOK
<1>5. ASSUME NEW i \in Inhibitors, DestroyInhibitor(i) PROVE Settled'
  BY <1>0, <1>5 DEF DestroyInhibitor, surfaces, Settled, InhibitorsTypeOK
<1>6. ASSUME NEW i \in Inhibitors, NEW s \in Surfaces, CreateInhibitor(i, s) PROVE Settled'
  BY <1>0, <1>6 DEF CreateInhibitor, surfaces, Settled, InhibitorsTypeOK
<1>7. CASE FocusChange
  BY <1>0, <1>7, SetsAssumption DEF FocusChange, inhibitors, Settled, SurfacesTypeOK
<1> QED
  BY <1>1, <1>2, <1>3, <1>4, <1>5, <1>6, <1>7 DEF SurfaceStep

(* A step that does not recheck changes neither who holds nor whether.     *)
LEMMA Unheld ==
  ASSUME \A i \in Inhibitors : HoldsAwake(i)' = HoldsAwake(i),
         \A s \in Surfaces : IsWindowInhibiting(s)' = IsWindowInhibiting(s)
  PROVE  Holders' = Holders
  BY DEF Holders

LEMMA ExactStep ==
  ASSUME TypeOK, Settled, InhibitedExactly, SurfaceStep
  PROVE  InhibitedExactly'
<1>0. SurfacesTypeOK /\ InhibitorsTypeOK
  BY TypeParts
<1>1. ASSUME Recheck PROVE InhibitedExactly'
  BY <1>1 DEF Recheck, SetInhibit, SetFlag, InhibitedExactly
<1>2. ASSUME NoRecheck, Holders' = Holders PROVE InhibitedExactly'
  BY <1>2 DEF NoRecheck, InhibitedExactly
<1>3. ASSUME Overlooked PROVE InhibitedExactly'
  BY <1>3 DEF Overlooked, InhibitedExactly
<1>4. ASSUME NEW s \in Surfaces, Assign(s) PROVE InhibitedExactly'
  <2>1. CASE role'[s] = "always"
    BY <1>3, <1>4, <2>1 DEF Assign
  <2>2. CASE role'[s] # "always"
    <3>1. \A i \in Inhibitors : HoldsAwake(i)' = HoldsAwake(i)
      BY <1>0, <1>4 DEF Assign, inhibitors, Settled, HoldsAwake, AliveAndVisible, None,
        SurfacesTypeOK
    <3>2. \A x \in Surfaces : IsWindowInhibiting(x)' = IsWindowInhibiting(x)
      BY <1>0, <1>4, <2>2 DEF Assign, Settled, IsWindowInhibiting, None, SurfacesTypeOK
    <3> QED
      BY <1>2, <1>4, <2>2, <3>1, <3>2, Unheld DEF Assign
  <2> QED
    BY <2>1, <2>2
<1>5. ASSUME NEW s \in Surfaces, Map(s) \/ Unmap(s) PROVE InhibitedExactly'
  BY <1>1, <1>3, <1>5 DEF Map, Unmap
<1>6. ASSUME NEW s \in Surfaces, Unassign(s) PROVE InhibitedExactly'
  <2>1. CASE role[s] = "always"
    BY <1>3, <1>6, <2>1 DEF Unassign
  <2>2. CASE role[s] # "always"
    <3>1. ASSUME NEW i \in Inhibitors PROVE HoldsAwake(i)' = HoldsAwake(i)
      <4>1. CASE i \in Attached(s)
        BY <1>0, <1>6, <4>1 DEF Unassign, Attached, HoldsAwake, AliveAndVisible, InhibitorsTypeOK
      <4>2. CASE i \notin Attached(s)
        <5>1. stage'[i] = stage[i] /\ on' = on /\ nonDesktop' = nonDesktop
          BY <1>0, <1>6, <4>2 DEF Unassign, InhibitorsTypeOK
        <5>2. ASSUME stage[i] = "listed", ~nonDesktop[i] PROVE on[i] \in Surfaces /\ on[i] # s
          BY <4>2, <5>2 DEF Attached, Settled, None
        <5> QED
          BY <1>0, <1>6, <5>1, <5>2 DEF Unassign, HoldsAwake, AliveAndVisible, SurfacesTypeOK
      <4> QED
        BY <4>1, <4>2
    <3>2. \A x \in Surfaces : IsWindowInhibiting(x)' = IsWindowInhibiting(x)
      BY <1>0, <1>6, <2>2 DEF Unassign, Settled, IsWindowInhibiting, None, SurfacesTypeOK
    <3> QED
      BY <1>2, <1>6, <2>2, <3>1, <3>2, Unheld DEF Unassign
  <2> QED
    BY <2>1, <2>2
<1>7. ASSUME NEW s \in Surfaces, DestroySurface(s) PROVE InhibitedExactly'
  <2> DEFINE gone == {i \in Inhibitors : stage[i] \in {"listed", "dropped"} /\ on[i] = s}
             seen == gone # {} \/ (mapped[s] /\ s \notin Layers)
             flag == Holders' # {} \/ role[s] = "always"
  <2>1. CASE seen \/ role[s] = "always"
    <3>1. CASE SetInhibit(flag) /\ unseen' = (role[s] = "always")
      BY <3>1 DEF SetInhibit, SetFlag, InhibitedExactly
    <3>2. CASE Recheck \/ Overlooked
      BY <1>1, <1>3, <3>2
    <3> QED
      BY <1>7, <2>1, <3>1, <3>2 DEF DestroySurface
  <2>2. CASE ~seen /\ role[s] # "always"
    <3>1. NoRecheck
      BY <1>7, <2>2 DEF DestroySurface
    <3>2. stage' = stage /\ on' = on /\ nonDesktop' = nonDesktop
      BY <1>0, <1>7, <2>2 DEF DestroySurface, InhibitorsTypeOK
    <3>3. ASSUME NEW i \in Inhibitors, stage[i] = "listed" PROVE on[i] \in Surfaces /\ on[i] # s
      BY <2>2, <3>3 DEF Settled, None
    <3>4. \A x \in Surfaces : x # s => AliveAndVisible(x)' = AliveAndVisible(x)
      BY <1>0, <1>7 DEF DestroySurface, AliveAndVisible, SurfacesTypeOK
    <3>5. \A i \in Inhibitors : HoldsAwake(i)' = HoldsAwake(i)
      <4>1. ASSUME NEW i \in Inhibitors, stage[i] = "listed"
            PROVE  AliveAndVisible(on[i])' = AliveAndVisible(on[i])
        BY <3>2, <3>3, <3>4, <4>1 DEF AliveAndVisible
      <4> QED
        BY <3>2, <4>1 DEF HoldsAwake
    <3>6. ~IsWindowInhibiting(s)
      <4>1. CASE ~mapped[s]
        BY <2>2, <4>1 DEF Settled, IsWindowInhibiting
      <4>2. CASE s \in Layers
        BY <4>2 DEF Settled, Roles, IsWindowInhibiting, None
      <4> QED
        BY <2>2, <4>1, <4>2
    <3>7. \A x \in Surfaces : IsWindowInhibiting(x)' = IsWindowInhibiting(x)
      BY <1>0, <1>7, <3>6 DEF DestroySurface, IsWindowInhibiting, None, SurfacesTypeOK
    <3> QED
      BY <1>2, <3>1, <3>5, <3>7, Unheld
  <2> QED
    BY <2>1, <2>2
<1>8. ASSUME NEW i \in Inhibitors, DestroyInhibitor(i) PROVE InhibitedExactly'
  <2>1. CASE stage[i] = "inert"
    <3>1. \A x \in Inhibitors : HoldsAwake(x)' = HoldsAwake(x)
      BY <1>0, <1>8, <2>1 DEF DestroyInhibitor, surfaces, HoldsAwake, AliveAndVisible,
        InhibitorsTypeOK, None
    <3>2. \A x \in Surfaces : IsWindowInhibiting(x)' = IsWindowInhibiting(x)
      BY <1>8 DEF DestroyInhibitor, surfaces, IsWindowInhibiting
    <3> QED
      BY <1>2, <1>8, <2>1, <3>1, <3>2, Unheld DEF DestroyInhibitor
  <2>2. CASE stage[i] # "inert"
    BY <1>1, <1>8, <2>2 DEF DestroyInhibitor
  <2> QED
    BY <2>1, <2>2
<1>9. ASSUME NEW i \in Inhibitors, NEW s \in Surfaces, CreateInhibitor(i, s)
      PROVE  InhibitedExactly'
  BY <1>1, <1>9 DEF CreateInhibitor
<1>10. CASE FocusChange
  BY <1>1, <1>10 DEF FocusChange
<1>11. ASSUME NEW s \in Surfaces, Hide(s) PROVE InhibitedExactly'
  BY <1>3, <1>11 DEF Hide
<1> QED
  BY <1>4, <1>5, <1>6, <1>7, <1>8, <1>9, <1>10, <1>11 DEF SurfaceStep

(* Since the last step that is overlooked the session is inhibited exactly *)
(* while something inhibits it, however inhibitors, windows and surfaces   *)
(* come and go.                                                            *)
THEOREM AlwaysInhibitedExactly == Spec => []InhibitedExactly
<1>1. Init => Settled /\ InhibitedExactly
  <2>1. SUFFICES ASSUME Init PROVE Settled /\ InhibitedExactly
    OBVIOUS
  <2>2. Settled
    BY <2>1 DEF Init, Settled
  <2>3. \A i \in Inhibitors : ~HoldsAwake(i)
    BY <2>1 DEF Init, HoldsAwake, None
  <2>4. \A s \in Surfaces : ~IsWindowInhibiting(s)
    BY <2>1 DEF Init, IsWindowInhibiting, None
  <2>5. Holders = {}
    BY <2>3, <2>4 DEF Holders
  <2> QED
    BY <2>1, <2>2, <2>5 DEF Init, InhibitedExactly
<1>2. TypeOK /\ Settled /\ InhibitedExactly /\ [Next]_vars => (Settled /\ InhibitedExactly)'
  <2>1. SUFFICES ASSUME TypeOK, Settled, InhibitedExactly, [Next]_vars
                 PROVE  Settled' /\ InhibitedExactly'
    OBVIOUS
  <2>2. CASE SurfaceStep
    BY <2>1, <2>2, SettledStep, ExactStep
  <2>3. CASE ~SurfaceStep
    <3>1. UNCHANGED <<surfaces, inhibitors>>
      BY <2>1, <2>3, OtherSteps
    <3>2. isInhibited' = isInhibited /\ unseen' = unseen
      BY <2>1, <2>3, OtherSteps DEF Activity, ForceStep, ForceIdle, Tick, GetNotification,
        DestroyNotification, FireTimer, Elsewhere, vars
    <3>3. Settled'
      BY <2>1, <3>1 DEF Settled, surfaces, inhibitors
    <3>4. Holders' = Holders
      BY <3>1 DEF Holders, HoldsAwake, AliveAndVisible, IsWindowInhibiting, surfaces, inhibitors
    <3> QED
      BY <2>1, <3>2, <3>3, <3>4 DEF InhibitedExactly
  <2> QED
    BY <2>2, <2>3
<1> QED
  BY <1>1, <1>2, TypeCorrect, PTL DEF Spec
===============================================================================
