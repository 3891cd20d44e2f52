-------------------------- MODULE DragAndDropProofs --------------------------
(***************************************************************************)
(* Proofs about DragAndDrop.  The operators that handlers are made of map  *)
(* a state of m_dnd to the next; one lemma for each says that it keeps two *)
(* predicates of such a state: Core, which always holds, and Tidy, which   *)
(* holds until the user goes on before a drop is finished.                 *)
(***************************************************************************)
EXTENDS DragAndDrop, TLAPS

Locked(d) == Active(d) => d.ptr = None
Held(d) == d.grip => Active(d) /\ d.cursor
Alone(d) == ~Active(d) => d.device = None

(* A live offer, of whatever source, is its client's who has the focus.    *)
Right(d) == \A o \in Existing(d) : ~d.offers[o].dead =>
  /\ d.device \in {d.offers[o].to, None}
  /\ d.focus = None \/ Owner[d.focus] = d.offers[o].to

Core(d) == d \in DndState /\ Locked(d) /\ Held(d) /\ Alone(d) /\ Right(d)

Hovers(d) == \A c \in Clients : d.entered[c] # None => d.device = c /\ d.grip
Undropped(d) == d.grip => \A o \in Existing(d) : ~d.offers[o].dropped
Tidy(d) == Hovers(d) /\ d.cursor = d.grip /\ Undropped(d)

NoneDropped(d) == \A o \in Existing(d) : ~d.offers[o].dropped
HasRoom(d) == \E o \in Offers : d.offers[o] = None
Setting == /\ under \in Maybe(Surfaces) /\ devices \subseteq Clients

IInv == TypeOK /\ Core(dnd) /\ (overtaken \/ Tidy(dnd))

(* Nothing but the dead of an operation is different. *)
Same(d, e) == /\ e.source = d.source /\ e.device = d.device
              /\ e.grip = d.grip /\ e.cursor = d.cursor /\ e.entered = d.entered

-----------------------------------------------------------------------------
(* onDndPointerFocus first makes every offer dead and changes nothing else. *)
LEMMA DeadType ==
  ASSUME NEW d \in DndState
  PROVE  /\ Dead(d) \in DndState
         /\ Same(d, Dead(d)) /\ Dead(d).ptr = d.ptr /\ Dead(d).focus = d.focus
         /\ Existing(Dead(d)) = Existing(d)
         /\ \A o \in Existing(d) : /\ Dead(d).offers[o].dead
                                   /\ Dead(d).offers[o].dropped = d.offers[o].dropped
<1> DEFINE marked == [o \in Offers |-> IF d.offers[o] = None THEN None
                                      ELSE [d.offers[o] EXCEPT !.dead = TRUE]]
<1>1. Dead(d) = [d EXCEPT !.offers = marked]
  BY DEF Dead
<1>2. \A o \in Offers : d.offers[o] = None \/ d.offers[o] \in Offer
  BY DEF DndState, Maybe
<1>3. \A o \in Offers : d.offers[o] # None =>
        /\ marked[o] \in Offer /\ marked[o].dead /\ marked[o].dropped = d.offers[o].dropped
        /\ marked[o] # None
  <2> SUFFICES ASSUME NEW o \in Offers, d.offers[o] # None
               PROVE  /\ marked[o] \in Offer /\ marked[o].dead
                      /\ marked[o].dropped = d.offers[o].dropped /\ marked[o] # None
    OBVIOUS
  <2>1. d.offers[o] \in Offer
    BY <1>2
  <2>2. marked[o] = [d.offers[o] EXCEPT !.dead = TRUE]
    OBVIOUS
  <2>3. marked[o] \in Offer /\ marked[o].dead /\ marked[o].dropped = d.offers[o].dropped
    BY <2>1, <2>2 DEF Offer
  <2> QED BY <2>3, NoneAssumption
<1>4. marked \in [Offers -> Maybe(Offer)]
      /\ \A o \in Offers : (marked[o] = None) <=> (d.offers[o] = None)
  BY <1>3 DEF Maybe
<1> HIDE DEF marked
<1>5. Dead(d) \in DndState /\ Dead(d).offers = marked
      /\ Same(d, Dead(d)) /\ Dead(d).ptr = d.ptr /\ Dead(d).focus = d.focus
  BY <1>1, <1>4 DEF DndState, Same
<1> QED BY <1>3, <1>4, <1>5 DEF Existing

(* An offer and enter of the client that has the focus, after the leave of  *)
(* the one that had it (updateDrag).                                        *)
LEMMA UpdateDragKeeps ==
  ASSUME NEW d, Core(d), Setting, HasRoom(d) \/ ~Active(d)
  PROVE  /\ Core(UpdateDrag(d))
         /\ Tidy(d) /\ (Active(d) => d.grip) => Tidy(UpdateDrag(d))
<1> DEFINE left == SendLeave(d, d.device)
           client == Owner[d.focus]
           slot == CHOOSE o \in Offers : d.offers[o] = None
           entered == [left EXCEPT !.device = client,
                       !.entered[client] = d.focus,
                       !.offers[slot] = [to |-> client, source |-> d.source, dead |-> FALSE,
                                         accepted |-> FALSE, recvd |-> FALSE, dropped |-> FALSE]]
<1>1. CASE ~Active(d)
  BY <1>1 DEF UpdateDrag
<1>2. left \in DndState /\ left.source = d.source /\ left.device = d.device
      /\ left.grip = d.grip /\ left.cursor = d.cursor /\ left.ptr = d.ptr /\ left.focus = d.focus
      /\ left.offers = d.offers
      /\ \A c \in Clients : left.entered[c] = IF c = d.device THEN None ELSE d.entered[c]
  BY NoneAssumption DEF Core, SendLeave, DndState, Maybe
<1>3. CASE Active(d) /\ d.focus = None
  <2>1. UpdateDrag(d) = left
    BY <1>3 DEF UpdateDrag
  <2>2. Core(left)
    BY <1>2 DEF Core, Locked, Held, Alone, Right, Active, Existing
  <2>3. Tidy(d) => Tidy(left)
    BY <1>2 DEF Tidy, Hovers, Undropped, Existing
  <2> QED BY <2>1, <2>2, <2>3
<1>4. CASE Active(d) /\ d.focus # None /\ client \notin devices
  <2> DEFINE e == [left EXCEPT !.device = None]
  <2>1. UpdateDrag(d) = e
    BY <1>4 DEF UpdateDrag
  <2>2. e \in DndState /\ e.source = d.source /\ e.device = None
        /\ e.grip = d.grip /\ e.cursor = d.cursor /\ e.ptr = d.ptr /\ e.focus = d.focus
        /\ e.offers = d.offers /\ e.entered = left.entered
    BY <1>2 DEF DndState, Maybe
  <2>3. Core(e)
    BY <2>2 DEF Core, Locked, Held, Alone, Right, Active, Existing
  <2>4. Tidy(d) => Tidy(e)
    BY <1>2, <2>2 DEF Tidy, Hovers, Undropped, Existing
  <2> QED BY <2>1, <2>3, <2>4
<1>5. CASE Active(d) /\ d.focus # None /\ client \in devices
  <2>1. UpdateDrag(d) = entered
    BY <1>5 DEF UpdateDrag
  <2>2. slot \in Offers /\ d.offers[slot] = None
    BY <1>5 DEF HasRoom
  <2>3. client \in Clients /\ d.focus \in Surfaces
    BY <1>5, OwnerAssumption DEF Core, DndState, Maybe, Setting
  <2>4. d.source \in Sources
    BY <1>5 DEF Active, Core, DndState, Maybe
  <2> DEFINE new == [to |-> client, source |-> d.source, dead |-> FALSE,
                     accepted |-> FALSE, recvd |-> FALSE, dropped |-> FALSE]
  <2>5. new \in Offer
    BY <2>3, <2>4 DEF Offer
  <2>6. entered.source = d.source /\ entered.device = client
        /\ entered.grip = d.grip /\ entered.cursor = d.cursor
        /\ entered.ptr = d.ptr /\ entered.focus = d.focus /\ entered.ends = d.ends
        /\ entered.offers = [d.offers EXCEPT ![slot] = new]
        /\ entered.entered = [left.entered EXCEPT ![client] = d.focus]
    BY <1>2, <2>2, <2>3 DEF DndState, Core, SendLeave
  <2>7. entered \in DndState
    BY <1>2, <2>2, <2>3, <2>5 DEF DndState, Core, Maybe
  <2>8. \A o \in Existing(entered) : \/ o = slot /\ entered.offers[o] = new
                                     \/ o \in Existing(d) /\ entered.offers[o] = d.offers[o]
    BY <2>2, <2>6 DEF Existing, Core, DndState
  <2>0. new.to = client /\ ~new.dropped /\ Owner[entered.focus] = client
    BY <2>6
  <2> HIDE DEF entered, new, client
  <2>9. Core(entered)
    <3>1. Right(entered)
      <4> SUFFICES ASSUME NEW o \in Existing(entered), ~entered.offers[o].dead
                   PROVE  entered.offers[o].to = client
        BY <2>0, <2>6 DEF Right
      <4> QED BY <2>0, <2>6, <2>8, <1>5 DEF Right, Core, client
    <3> QED BY <3>1, <2>6, <2>7, <2>3, NoneAssumption, <1>5 DEF Core, Locked, Held, Alone, Active
  <2>10. ASSUME Tidy(d), d.grip PROVE Tidy(entered)
    <3>1. \A c \in Clients : entered.entered[c] # None => c = client
      <4> SUFFICES ASSUME NEW c \in Clients, entered.entered[c] # None, c # client
                   PROVE  FALSE
        OBVIOUS
      <4>1. left.entered[c] = entered.entered[c]
        BY <2>6, <1>2 DEF DndState
      <4> QED BY <4>1, <1>2, <2>10 DEF Tidy, Hovers
    <3>2. Undropped(entered)
      BY <2>0, <2>6, <2>8, <2>10 DEF Tidy, Undropped
    <3> QED BY <3>1, <3>2, <2>6, <2>10 DEF Tidy, Hovers
  <2> QED BY <2>1, <2>9, <2>10, <1>5
<1> QED BY <1>1, <1>3, <1>4, <1>5

(* No offer that is made was dropped. *)
LEMMA UpdateDragDrops ==
  ASSUME NEW d \in DndState, devices \subseteq Clients, HasRoom(d) \/ ~Active(d), NoneDropped(d)
  PROVE  NoneDropped(UpdateDrag(d))
<1> DEFINE left == SendLeave(d, d.device)
           client == Owner[d.focus]
           slot == CHOOSE o \in Offers : d.offers[o] = None
           new == [to |-> client, source |-> d.source, dead |-> FALSE,
                   accepted |-> FALSE, recvd |-> FALSE, dropped |-> FALSE]
<1>1. left.offers = d.offers /\ left \in DndState
  BY NoneAssumption DEF SendLeave, DndState, Maybe
<1>2. CASE ~Active(d) \/ d.focus = None \/ client \notin devices
  BY <1>1, <1>2 DEF UpdateDrag, NoneDropped, Existing, DndState
<1>3. CASE Active(d) /\ d.focus # None /\ client \in devices
  <2>1. slot \in Offers /\ d.offers[slot] = None
    BY <1>3 DEF HasRoom
  <2>2. UpdateDrag(d).offers = [d.offers EXCEPT ![slot] = new]
    BY <1>1, <1>3 DEF UpdateDrag, DndState
  <2>3. ~new.dropped
    OBVIOUS
  <2> HIDE DEF new, slot
  <2> QED BY <2>1, <2>2, <2>3 DEF NoneDropped, Existing, DndState
<1> QED BY <1>2, <1>3

(* setPointerFocus: the pointer stays without focus while a drag is active, *)
(* and a drag the user holds goes where the pointer goes.                   *)
LEMMA SetPointerFocusKeeps ==
  ASSUME NEW d, Core(d), Setting, HasRoom(d) \/ ~Active(d), NEW x \in Maybe(Surfaces)
  PROVE  /\ Core(SetPointerFocus(d, x))
         /\ Tidy(d) /\ (Active(d) => d.grip \/ x \in {None, d.focus})
              => Tidy(SetPointerFocus(d, x))
<1>1. CASE x = d.ptr \/ (Active(d) /\ x = d.focus /\ x # None)
  BY <1>1 DEF SetPointerFocus
<1>2. CASE x # d.ptr /\ x = None
  <2> DEFINE e == [d EXCEPT !.ptr = None, !.focus = None]
  <2>1. SetPointerFocus(d, x) = e
    BY <1>2 DEF SetPointerFocus
  <2>2. e \in DndState /\ Same(d, e) /\ e.ptr = None /\ e.focus = None /\ e.offers = d.offers
    BY DEF Core, DndState, Maybe, Same
  <2>3. Core(e)
    BY <2>2 DEF Core, Locked, Held, Alone, Right, Active, Existing, Same
  <2>4. Tidy(d) => Tidy(e)
    BY <2>2 DEF Tidy, Hovers, Undropped, Existing, Same
  <2> QED BY <2>1, <2>3, <2>4
<1>3. CASE x # None /\ x # d.ptr /\ ~(Active(d) /\ x = d.focus)
  <2> DEFINE e == [d EXCEPT !.focus = x, !.ptr = IF Active(d) THEN @ ELSE x]
  <2>1. SetPointerFocus(d, x) = UpdateDrag(Dead(e))
    BY <1>3 DEF SetPointerFocus, OnDndPointerFocus
  <2>2. e \in DndState /\ Same(d, e) /\ e.focus = x /\ (Active(d) => e.ptr = d.ptr)
        /\ e.offers = d.offers
    BY DEF Core, DndState, Same, Maybe
  <2> HIDE DEF e
  <2>3. /\ Dead(e) \in DndState /\ Same(e, Dead(e)) /\ Dead(e).ptr = e.ptr
        /\ Existing(Dead(e)) = Existing(e)
        /\ \A o \in Existing(e) : /\ Dead(e).offers[o].dead
                                  /\ Dead(e).offers[o].dropped = e.offers[o].dropped
    BY <2>2, DeadType
  <2>4. Core(Dead(e))
    BY <2>2, <2>3 DEF Core, Locked, Held, Alone, Right, Active, Same
  <2>5. Tidy(d) => Tidy(Dead(e))
    BY <2>2, <2>3 DEF Tidy, Hovers, Undropped, Existing, Same
  <2>6. HasRoom(Dead(e)) \/ ~Active(Dead(e))
    BY <2>2, <2>3 DEF HasRoom, Active, Same, Existing
  <2>7. Active(Dead(e)) = Active(d) /\ Dead(e).grip = d.grip
    BY <2>2, <2>3 DEF Active, Same
  <2> QED BY <1>3, <2>1, <2>4, <2>5, <2>6, <2>7, UpdateDragKeeps
<1> QED BY <1>1, <1>2, <1>3

(* The end of a drag gives the pointer its focus back. *)
LEMMA PointerBackKeeps ==
  ASSUME NEW d, Core(d), ~Active(d), Setting
  PROVE  LET b == PointerBack(d) IN
           /\ Core(b) /\ Same(d, b)
           /\ Existing(b) = Existing(d)
           /\ \A o \in Existing(d) : b.offers[o].dropped = d.offers[o].dropped
<1>1. CASE under = None /\ d.ptr = None
  BY <1>1 DEF PointerBack, SetPointerFocus, Same
<1>2. CASE under = None /\ d.ptr # None
  <2> DEFINE e == [d EXCEPT !.ptr = None, !.focus = None]
  <2>1. PointerBack(d) = e
    BY <1>2 DEF PointerBack, SetPointerFocus
  <2>2. e \in DndState /\ Same(d, e) /\ e.ptr = None /\ e.focus = None /\ e.offers = d.offers
    BY DEF Core, DndState, Maybe, Same
  <2>3. Core(e)
    BY <2>2 DEF Core, Locked, Held, Alone, Right, Active, Existing, Same
  <2> QED BY <2>1, <2>2, <2>3 DEF Existing
<1>3. CASE under # None
  <2> DEFINE b == [Dead(d) EXCEPT !.ptr = under, !.focus = under]
  <2>1. PointerBack(d) = b
    BY <1>3 DEF PointerBack
  <2>2. /\ Dead(d) \in DndState /\ Same(d, Dead(d)) /\ Existing(Dead(d)) = Existing(d)
        /\ \A o \in Existing(d) : /\ Dead(d).offers[o].dead
                                  /\ Dead(d).offers[o].dropped = d.offers[o].dropped
    BY DeadType DEF Core
  <2>3. b \in DndState /\ Same(d, b) /\ b.offers = Dead(d).offers
    BY <2>2 DEF DndState, Same, Setting, Maybe
  <2> HIDE DEF b
  <2>4. Core(b)
    BY <2>2, <2>3 DEF Core, Locked, Held, Alone, Right, Active, Existing, Same
  <2> QED BY <2>1, <2>2, <2>3, <2>4 DEF Existing
<1> QED BY <1>1, <1>2, <1>3

(* abortDrag: nothing of the drag is left. *)
LEMMA AbortDragKeeps ==
  ASSUME NEW d, Core(d), Setting
  PROVE  LET a == AbortDrag(d) IN
           /\ Core(a) /\ ~Active(a) /\ ~a.grip /\ ~a.cursor
           /\ Tidy(d) => Tidy(a)
           /\ Existing(a) = Existing(d)
           /\ NoneDropped(d) => NoneDropped(a)
<1> DEFINE free == [Ungripped(d) EXCEPT !.cursor = FALSE]
           left == SendLeave(free, d.device)
           told == Tell(left, d.source, "cancelled")
           over == Forgotten(told)
<1>1. /\ free \in DndState /\ free.source = d.source /\ free.device = d.device
      /\ free.grip = FALSE /\ free.cursor = FALSE /\ free.ptr = d.ptr /\ free.focus = d.focus
      /\ free.entered = d.entered /\ free.offers = d.offers
  BY DEF Core, Ungripped, DndState
<1> HIDE DEF free
<1>2. /\ left \in DndState /\ left.source = d.source /\ left.device = d.device
      /\ left.grip = FALSE /\ left.cursor = FALSE /\ left.ptr = d.ptr /\ left.focus = d.focus
      /\ left.offers = d.offers
      /\ \A c \in Clients : left.entered[c] = IF c = d.device THEN None ELSE d.entered[c]
  BY <1>1, NoneAssumption DEF SendLeave, DndState, Maybe
<1> HIDE DEF left
<1>3. /\ told \in DndState /\ told.source = d.source /\ told.device = d.device
      /\ told.grip = FALSE /\ told.cursor = FALSE /\ told.ptr = d.ptr /\ told.focus = d.focus
      /\ told.offers = d.offers /\ told.entered = left.entered
  BY <1>2 DEF Tell, DndState, Maybe
<1> HIDE DEF told
<1>4. /\ over \in DndState /\ over.source = None /\ over.device = None
      /\ over.grip = FALSE /\ over.cursor = FALSE /\ over.ptr = d.ptr /\ over.focus = d.focus
      /\ over.offers = d.offers /\ over.entered = left.entered
  BY <1>3 DEF Forgotten, DndState, Maybe
<1> HIDE DEF over
<1>5. Core(over) /\ ~Active(over)
  BY <1>4 DEF Core, Locked, Held, Alone, Right, Active, Existing
<1>6. Tidy(d) => Tidy(over)
  BY <1>2, <1>4 DEF Tidy, Hovers, Undropped
<1>7. Existing(over) = Existing(d)
  BY <1>4 DEF Existing
<1>8. CASE Active(d) \/ d.device # None
  <2>1. AbortDrag(d) = PointerBack(over)
    BY <1>8 DEF AbortDrag, over, told, left, free
  <2>2. LET b == PointerBack(over) IN
           /\ Core(b) /\ Same(over, b) /\ Existing(b) = Existing(over)
           /\ \A o \in Existing(over) : b.offers[o].dropped = over.offers[o].dropped
    BY <1>5, PointerBackKeeps
  <2> QED BY <1>4, <1>5, <1>6, <1>7, <2>1, <2>2
          DEF Same, Active, Tidy, Hovers, Undropped, NoneDropped
<1>9. CASE ~(Active(d) \/ d.device # None)
  <2>1. AbortDrag(d) = free
    BY <1>9 DEF AbortDrag, free
  <2>2. Core(free) /\ ~Active(free)
    BY <1>1, <1>9 DEF Core, Locked, Held, Alone, Right, Active, Existing
  <2> QED BY <1>1, <1>9, <2>1, <2>2 DEF Tidy, Hovers, Undropped, NoneDropped, Existing, Held, Core
<1> QED BY <1>8, <1>9

(* completeDrag gives back neither the cursor nor the leave, which a drag   *)
(* that was dropped has had already.                                        *)
LEMMA CompleteDragKeeps ==
  ASSUME NEW d, Core(d), Setting
  PROVE  /\ Core(CompleteDrag(d))
         /\ Tidy(d) /\ ~d.grip => Tidy(CompleteDrag(d))
<1> DEFINE told == Tell(d, d.source, "finished")
           over == Forgotten(Ungripped(told))
<1>1. /\ told \in DndState /\ told.ptr = d.ptr /\ told.focus = d.focus /\ told.cursor = d.cursor
      /\ told.offers = d.offers /\ told.entered = d.entered
  BY DEF Tell, DndState, Maybe, Core
<1> HIDE DEF told
<1>2. /\ over \in DndState /\ over.source = None /\ over.device = None /\ over.grip = FALSE
      /\ over.ptr = d.ptr /\ over.focus = d.focus /\ over.cursor = d.cursor
      /\ over.offers = d.offers /\ over.entered = d.entered
  BY <1>1 DEF Forgotten, Ungripped, DndState, Maybe
<1> HIDE DEF over
<1>3. Core(over) /\ ~Active(over)
  BY <1>2 DEF Core, Locked, Held, Alone, Right, Active, Existing
<1>4. Tidy(d) /\ ~d.grip => Tidy(over)
  BY <1>2 DEF Tidy, Hovers, Undropped, Core, DndState
<1>5. CASE Active(d) \/ d.device # None
  <2>1. CompleteDrag(d) = PointerBack(over)
    BY <1>5 DEF CompleteDrag, over, told
  <2>2. Core(PointerBack(over)) /\ Same(over, PointerBack(over))
    BY <1>3, PointerBackKeeps
  <2> QED BY <1>2, <1>4, <2>1, <2>2 DEF Same, Tidy, Hovers, Undropped
<1>6. CASE ~(Active(d) \/ d.device # None)
  BY <1>6 DEF CompleteDrag
<1> QED BY <1>5, <1>6

(* dropDrag: the device is sent the drop and left, the source waits for the *)
(* finish; a drop that nobody took up is an abort.                          *)
LEMMA DropDragKeeps ==
  ASSUME NEW d, Core(d), Setting
  PROVE  Core(DropDrag(d)) /\ (Tidy(d) => Tidy(DropDrag(d)))
<1>1. CASE d.device = None \/ TakenUp(d) = {}
  BY <1>1, AbortDragKeeps DEF DropDrag
<1>2. CASE ~(d.device = None \/ TakenUp(d) = {})
  <2> DEFINE marked == [o \in Offers |->
                IF d.offers[o] # None /\ d.offers[o].to = d.device /\ ~d.offers[o].dead
                THEN [d.offers[o] EXCEPT !.dropped = TRUE] ELSE d.offers[o]]
             on == DropOn(d)
             left == SendLeave(on, d.device)
             e == [Ungripped(left) EXCEPT !.cursor = FALSE]
  <2>1. \A o \in Offers : d.offers[o] = None \/ d.offers[o] \in Offer
    BY DEF Core, DndState, Maybe
  <2>2. ASSUME NEW o \in Offers
        PROVE  /\ marked[o] \in Maybe(Offer)
               /\ (marked[o] = None) <=> (d.offers[o] = None)
               /\ d.offers[o] # None => marked[o].to = d.offers[o].to
                                        /\ marked[o].dead = d.offers[o].dead
    <3>1. CASE d.offers[o] = None
      BY <3>1 DEF Maybe
    <3>2. CASE d.offers[o] # None
      <4>1. d.offers[o] \in Offer
        BY <3>2, <2>1
      <4> DEFINE m == [d.offers[o] EXCEPT !.dropped = TRUE]
      <4>2. m \in Offer /\ m.to = d.offers[o].to /\ m.dead = d.offers[o].dead
        BY <4>1 DEF Offer
      <4>3. marked[o] = m \/ marked[o] = d.offers[o]
        OBVIOUS
      <4> QED BY <3>2, <4>1, <4>2, <4>3, NoneAssumption DEF Maybe
    <3> QED BY <3>1, <3>2
  <2>3. marked \in [Offers -> Maybe(Offer)]
    BY <2>2
  <2>4. on = [d EXCEPT !.offers = marked]
    BY DEF DropOn
  <2> HIDE DEF marked
  <2>5. /\ on \in DndState /\ on.source = d.source /\ on.device = d.device
        /\ on.ptr = d.ptr /\ on.focus = d.focus /\ on.offers = marked /\ on.entered = d.entered
    BY <2>3, <2>4 DEF Core, DndState
  <2> HIDE DEF on
  <2>6. /\ left \in DndState /\ left.source = d.source /\ left.device = d.device
        /\ left.ptr = d.ptr /\ left.focus = d.focus /\ left.offers = marked
        /\ \A c \in Clients : left.entered[c] = IF c = d.device THEN None ELSE d.entered[c]
    BY <2>5, NoneAssumption DEF SendLeave, DndState, Maybe
  <2> HIDE DEF left
  <2>7. /\ e \in DndState /\ e.source = d.source /\ e.device = d.device
        /\ e.grip = FALSE /\ e.cursor = FALSE
        /\ e.ptr = d.ptr /\ e.focus = d.focus /\ e.offers = marked /\ e.entered = left.entered
    BY <2>6 DEF Ungripped, DndState
  <2> HIDE DEF e
  <2>8. Core(e)
    BY <2>2, <2>7 DEF Core, Locked, Held, Alone, Right, Active, Existing
  <2>9. Tidy(d) => Tidy(e)
    BY <2>6, <2>7 DEF Tidy, Hovers, Undropped
  <2>10. DropDrag(d) = e
    BY <1>2 DEF DropDrag, e, left, on
  <2> QED BY <2>8, <2>9, <2>10
<1> QED BY <1>1, <1>2

(* initiateDrag: what is left of an active drag is aborted first. *)
LEMMA InitiateDragKeeps ==
  ASSUME NEW d, Core(d), Setting, HasRoom(d), NEW s \in Sources
  PROVE  /\ Core(InitiateDrag(d, s))
         /\ Tidy(d) /\ NoneDropped(d) => Tidy(InitiateDrag(d, s))
<1> DEFINE fresh == IF Active(d) THEN AbortDrag(d) ELSE d
           gripped == [fresh EXCEPT !.source = s, !.grip = TRUE, !.cursor = TRUE]
           unfocused == [SetPointerFocus(gripped, None) EXCEPT !.focus = fresh.focus]
<1>1. /\ Core(fresh) /\ ~Active(fresh) /\ HasRoom(fresh)
      /\ Tidy(d) => Tidy(fresh)
      /\ NoneDropped(d) => NoneDropped(fresh)
  BY AbortDragKeeps DEF HasRoom, Existing
<1> HIDE DEF fresh
<1>2. /\ gripped \in DndState /\ gripped.source = s /\ gripped.device = fresh.device
      /\ gripped.grip = TRUE /\ gripped.cursor = TRUE /\ gripped.ptr = fresh.ptr
      /\ gripped.focus = fresh.focus /\ gripped.offers = fresh.offers
      /\ gripped.entered = fresh.entered
  BY <1>1 DEF Core, DndState, Maybe
<1> HIDE DEF gripped
<1>3. /\ unfocused \in DndState /\ unfocused.source = s /\ unfocused.device = fresh.device
      /\ unfocused.grip = TRUE /\ unfocused.cursor = TRUE /\ unfocused.ptr = None
      /\ unfocused.focus = fresh.focus /\ unfocused.offers = fresh.offers
      /\ unfocused.entered = fresh.entered
  <2>1. CASE gripped.ptr = None
    BY <1>2, <2>1 DEF SetPointerFocus, DndState
  <2>2. CASE gripped.ptr # None
    BY <1>2, <2>2 DEF SetPointerFocus, DndState, Maybe, Active
  <2> QED BY <2>1, <2>2
<1> HIDE DEF unfocused
<1>4. Active(unfocused) /\ fresh.device = None
  BY <1>1, <1>3, NoneAssumption DEF Active, Core, Alone
<1>5. Core(unfocused) /\ HasRoom(unfocused)
  BY <1>1, <1>3, <1>4 DEF Core, Locked, Held, Alone, Right, Existing, HasRoom
<1>6. Tidy(d) /\ NoneDropped(d) => Tidy(unfocused)
  BY <1>1, <1>3, <1>4, NoneAssumption DEF Tidy, Hovers, Undropped, NoneDropped, Existing
<1>7. InitiateDrag(d, s) = UpdateDrag(unfocused)
  BY DEF InitiateDrag, unfocused, gripped, fresh
<1> QED BY <1>3, <1>5, <1>6, <1>7, UpdateDragKeeps

-----------------------------------------------------------------------------
(* What clients do to an offer does not touch the drag. *)
LEMMA OfferChanged ==
  ASSUME NEW d, Core(d), NEW o \in Existing(d), NEW new \in Offer,
         new.dead \/ ~d.offers[o].dead, new.to = d.offers[o].to,
         ~d.offers[o].dropped => ~new.dropped
  PROVE  LET e == [d EXCEPT !.offers[o] = new] IN
           /\ Core(e) /\ Same(d, e)
           /\ Tidy(d) => Tidy(e)
<1> DEFINE e == [d EXCEPT !.offers[o] = new]
<1>1. /\ e \in DndState /\ Same(d, e) /\ e.ptr = d.ptr /\ e.focus = d.focus
      /\ e.offers = [d.offers EXCEPT ![o] = new]
  BY DEF Core, DndState, Maybe, Same, Existing
<1> HIDE DEF e
<1>2. Existing(e) = Existing(d)
  BY <1>1, NoneAssumption DEF Existing, Core, DndState
<1>3. \A i \in Existing(d) : e.offers[i] = IF i = o THEN new ELSE d.offers[i]
  BY <1>1 DEF Existing, Core, DndState
<1>4. Right(e)
  BY <1>1, <1>2, <1>3 DEF Right, Core, Same
<1>5. Core(e)
  BY <1>1, <1>4 DEF Core, Locked, Held, Alone, Active, Same
<1>6. Tidy(d) => Tidy(e)
  BY <1>1, <1>2, <1>3 DEF Tidy, Hovers, Undropped, Same
<1> QED BY <1>1, <1>5, <1>6 DEF e

LEMMA InitInv == Init => IInv
<1> SUFFICES ASSUME Init PROVE IInv
  OBVIOUS
<1>1. dnd \in DndState /\ TypeOK
  BY DEF Init, TypeOK, DndState, Maybe
<1>2. Core(dnd)
  BY <1>1 DEF Init, Core, Locked, Held, Alone, Right, Active, Existing
<1>3. Tidy(dnd)
  BY DEF Init, Tidy, Hovers, Undropped
<1> QED BY <1>1, <1>2, <1>3 DEF IInv

LEMMA StepInv == IInv /\ [Next]_vars => IInv'
<1> SUFFICES ASSUME IInv, [Next]_vars PROVE IInv'
  OBVIOUS
<1> USE DEF IInv
<1>a. Core(dnd) /\ Setting /\ TypeOK
  BY DEF TypeOK, Setting, Maybe
<1>b. ASSUME UNCHANGED <<World, under>>, Core(dnd'), overtaken' \in BOOLEAN,
             overtaken' \/ Tidy(dnd')
      PROVE  IInv'
  BY <1>a, <1>b DEF TypeOK, Core, World, Tidy, Hovers, Undropped, Existing, Locked, Held, Alone,
                    Right, Active, Maybe, DndState
<1>1. ASSUME NEW x \in Maybe(surfaces), Move(x) PROVE IInv'
  <2>1. x \in Maybe(Surfaces)
    BY <1>a DEF TypeOK, Maybe
  <2>2. dnd' = SetPointerFocus(dnd, x) /\ HasRoom(dnd)
    BY <1>1 DEF Move, Room, HasRoom
  <2>3. Core(SetPointerFocus(dnd, x))
        /\ (Tidy(dnd) /\ (Active(dnd) => dnd.grip \/ x \in {None, dnd.focus})
              => Tidy(SetPointerFocus(dnd, x)))
    BY <1>a, <2>1, <2>2, SetPointerFocusKeeps
  <2>4. Core(dnd') /\ (overtaken' \/ Tidy(dnd'))
    BY <1>1, <2>2, <2>3 DEF Move
  <2> QED BY <1>1, <1>a, <2>4 DEF Move, World, TypeOK, Core
<1>2. ASSUME NEW s \in Sources, StartDrag(s) PROVE IInv'
  <2>1. dnd' = InitiateDrag(dnd, s) /\ HasRoom(dnd)
    BY <1>2 DEF StartDrag, Room, HasRoom
  <2>2. Core(InitiateDrag(dnd, s)) /\ (Tidy(dnd) /\ NoneDropped(dnd) => Tidy(InitiateDrag(dnd, s)))
    BY <1>a, <2>1, InitiateDragKeeps
  <2>3. overtaken' = (overtaken \/ ~NoneDropped(dnd))
    BY <1>2 DEF StartDrag, Unfinished, NoneDropped
  <2> QED BY <1>a, <1>b, <1>2, <2>1, <2>2, <2>3 DEF StartDrag, TypeOK
<1>c. ASSUME NEW d, Step(d), Core(d), Tidy(dnd) => Tidy(d) PROVE IInv'
  BY <1>a, <1>b, <1>c DEF Step, TypeOK
<1>3. CASE Release
  BY <1>3, <1>a, <1>c, DropDragKeeps DEF Release
<1>4. CASE IconDestroyed \/ Escape
  BY <1>4, <1>a, <1>c, AbortDragKeeps DEF IconDestroyed, Escape
<1>5. ASSUME NEW o \in Offers, OfOffer(o) PROVE IInv'
  <2> DEFINE offer == dnd.offers[o]
  <2>1. o \in Existing(dnd) /\ offer \in Offer
    BY <1>5, <1>a DEF OfOffer, Accept, Receive, Finish, DestroyOffer, Existing, TypeOK, DndState, Maybe
  <2>2. ASSUME NEW mime \in BOOLEAN, Accept(o, mime) PROVE IInv'
    <3> DEFINE new == [offer EXCEPT !.accepted = mime]
    <3>1. new \in Offer /\ new.dead = offer.dead /\ new.to = offer.to /\ new.dropped = offer.dropped
      BY <2>1 DEF Offer
    <3>2. Step([dnd EXCEPT !.offers[o] = new])
      BY <2>2 DEF Accept
    <3>3. new.dead \/ ~offer.dead
      BY <3>1, <2>1 DEF Offer
    <3> HIDE DEF new
    <3>4. LET e == [dnd EXCEPT !.offers[o] = new] IN Core(e) /\ (Tidy(dnd) => Tidy(e))
      BY <3>1, <3>3, <2>1, <1>a, OfferChanged
    <3> QED BY <3>2, <3>4, <1>c
  <2>3. CASE Receive(o)
    <3> DEFINE new == [offer EXCEPT !.recvd = TRUE]
    <3>1. new \in Offer /\ new.dead = offer.dead /\ new.to = offer.to /\ new.dropped = offer.dropped
      BY <2>1 DEF Offer
    <3>2. Step([dnd EXCEPT !.offers[o] = new])
      BY <2>3 DEF Receive
    <3>3. new.dead \/ ~offer.dead
      BY <3>1, <2>1 DEF Offer
    <3> HIDE DEF new
    <3>4. LET e == [dnd EXCEPT !.offers[o] = new] IN Core(e) /\ (Tidy(dnd) => Tidy(e))
      BY <3>1, <3>3, <2>1, <1>a, OfferChanged
    <3> QED BY <3>2, <3>4, <1>c
  <2>4. CASE Finish(o)
    <3> DEFINE new == [offer EXCEPT !.dead = TRUE, !.dropped = FALSE]
               closed == [dnd EXCEPT !.offers[o] = new]
    <3>1. new \in Offer /\ new.dead /\ new.to = offer.to /\ ~new.dropped
      BY <2>1 DEF Offer
    <3>2. closed = [dnd EXCEPT !.offers[o].dead = TRUE, !.offers[o].dropped = FALSE]
      BY <2>1, <1>a DEF Core, DndState, Offer, Existing
    <3>3. Step(CompleteDrag(closed)) \/ Step(AbortDrag(closed))
      BY <2>4, <3>2 DEF Finish
    <3>4. offer.dropped
      BY <2>4 DEF Finish
    <3> HIDE DEF new
    <3>5. Core(closed) /\ Same(dnd, closed) /\ (Tidy(dnd) => Tidy(closed))
      BY <3>1, <2>1, <1>a, OfferChanged
    <3> HIDE DEF closed
    <3>6. Tidy(dnd) => ~closed.grip
      BY <3>4, <3>5, <2>1 DEF Tidy, Undropped, Same
    <3>7. Core(CompleteDrag(closed)) /\ (Tidy(dnd) => Tidy(CompleteDrag(closed)))
      BY <3>5, <3>6, <1>a, CompleteDragKeeps
    <3>8. Core(AbortDrag(closed)) /\ (Tidy(dnd) => Tidy(AbortDrag(closed)))
      BY <3>5, <1>a, AbortDragKeeps
    <3> QED BY <3>3, <3>7, <3>8, <1>c
  <2>5. CASE DestroyOffer(o)
    <3> DEFINE gone == [dnd EXCEPT !.offers[o] = None]
               told == Tell(gone, offer.source, "finished")
    <3>1. /\ gone \in DndState /\ Same(dnd, gone) /\ gone.ptr = dnd.ptr /\ gone.focus = dnd.focus
          /\ gone.offers = [dnd.offers EXCEPT ![o] = None]
      BY <1>a DEF Core, DndState, Maybe, Same
    <3> HIDE DEF gone
    <3>2. /\ told \in DndState /\ Same(dnd, told) /\ told.ptr = dnd.ptr /\ told.focus = dnd.focus
          /\ told.offers = [dnd.offers EXCEPT ![o] = None]
      BY <3>1 DEF Tell, DndState, Maybe, Same
    <3> HIDE DEF told
    <3>3. ASSUME NEW e, e \in DndState, Same(dnd, e), e.ptr = dnd.ptr, e.focus = dnd.focus,
                 e.offers = [dnd.offers EXCEPT ![o] = None]
          PROVE  Core(e) /\ (Tidy(dnd) => Tidy(e))
      <4>1. \A i \in Existing(e) : i \in Existing(dnd) /\ e.offers[i] = dnd.offers[i]
        BY <3>3, <1>a DEF Existing, Core, DndState
      <4>2. Right(e)
        BY <3>3, <4>1, <1>a DEF Right, Core, Same
      <4>3. Core(e)
        BY <3>3, <4>2, <1>a DEF Core, Locked, Held, Alone, Active, Same
      <4> QED BY <3>3, <4>1, <4>3 DEF Tidy, Hovers, Undropped, Same
    <3>4. Step(told) \/ Step(gone)
      BY <2>5 DEF DestroyOffer, told, gone
    <3> QED BY <3>1, <3>2, <3>3, <3>4, <1>c
  <2> QED BY <1>5, <2>2, <2>3, <2>4, <2>5 DEF OfOffer
<1>6. ASSUME NEW s \in Sources, DestroySource(s) PROVE IInv'
  <2>1. Core(dnd') /\ (Tidy(dnd) => Tidy(dnd'))
    BY <1>6, <1>a, AbortDragKeeps DEF DestroySource
  <2> QED BY <2>1, <1>6, <1>a DEF DestroySource, TypeOK, Core
<1>7. ASSUME NEW x \in Surfaces, DestroySurface(x) PROVE IInv'
  <2> DEFINE still == [c \in Clients |-> IF dnd.entered[c] = x THEN None ELSE dnd.entered[c]]
  <2>1. still \in [Clients -> Maybe(Surfaces)]
    BY <1>a DEF Core, DndState, Maybe
  <2>2. /\ dnd' \in DndState /\ dnd'.source = dnd.source /\ dnd'.device = dnd.device
        /\ dnd'.grip = dnd.grip /\ dnd'.cursor = dnd.cursor /\ dnd'.offers = dnd.offers
        /\ dnd'.ptr \in {dnd.ptr, None} /\ dnd'.focus \in {dnd.focus, None}
        /\ dnd'.entered = still
    BY <1>7, <1>a, <2>1 DEF DestroySurface, Core, DndState, Maybe
  <2>3. Core(dnd')
    BY <2>2, <1>a DEF Core, Locked, Held, Alone, Right, Active, Existing
  <2>4. \A c \in Clients : dnd'.entered[c] # None => dnd.entered[c] # None
    BY <2>2
  <2>5. Tidy(dnd) => Tidy(dnd')
    BY <2>2, <2>4 DEF Tidy, Hovers, Undropped, Existing
  <2> QED BY <2>2, <2>3, <2>5, <1>7, <1>a DEF DestroySurface, TypeOK, Maybe
<1>8. ASSUME NEW c \in Clients, DestroyDevice(c) PROVE IInv'
  <2>1. /\ dnd' \in DndState /\ dnd'.source = dnd.source
        /\ dnd'.device = (IF dnd.device = c THEN None ELSE dnd.device)
        /\ dnd'.grip = dnd.grip /\ dnd'.cursor = dnd.cursor /\ dnd'.offers = dnd.offers
        /\ dnd'.ptr = dnd.ptr /\ dnd'.focus = dnd.focus
        /\ \A i \in Clients : dnd'.entered[i] = IF i = c THEN None ELSE dnd.entered[i]
    BY <1>8, <1>a DEF DestroyDevice, Core, DndState, Maybe
  <2>2. Core(dnd')
    BY <2>1, <1>a DEF Core, Locked, Held, Alone, Right, Active, Existing
  <2>3. Tidy(dnd) => Tidy(dnd')
    BY <2>1 DEF Tidy, Hovers, Undropped, Existing
  <2> QED BY <2>1, <2>2, <2>3, <1>8, <1>a DEF DestroyDevice, TypeOK
<1>9. ASSUME NEW c \in Clients, GetDataDevice(c) PROVE IInv'
  BY <1>9, <1>a DEF GetDataDevice, TypeOK
<1>10. CASE UNCHANGED vars
  BY <1>10, <1>a DEF vars, TypeOK
<1> QED BY <1>1, <1>2, <1>3, <1>4, <1>5, <1>6, <1>7, <1>8, <1>9, <1>10 DEF Next

-----------------------------------------------------------------------------
(* Moving the focus tells no source anything. *)
LEMMA FocusTellsNothing ==
  ASSUME NEW d \in DndState, Setting, NEW x \in Maybe(Surfaces)
  PROVE  /\ UpdateDrag(d).ends = d.ends
         /\ UpdateDrag(d).source = d.source
         /\ SetPointerFocus(d, x).ends = d.ends
         /\ SetPointerFocus(d, x).source = d.source
         /\ PointerBack(d).ends = d.ends
<1>1. ASSUME NEW e \in DndState PROVE UpdateDrag(e).ends = e.ends /\ UpdateDrag(e).source = e.source
  <2>1. SendLeave(e, e.device) \in DndState /\ SendLeave(e, e.device).ends = e.ends
        /\ SendLeave(e, e.device).source = e.source
    BY NoneAssumption DEF SendLeave, DndState, Maybe
  <2> HIDE DEF SendLeave
  <2> QED BY <2>1 DEF UpdateDrag, DndState
<1>2. ASSUME NEW e \in DndState
      PROVE  Dead(e) \in DndState /\ Dead(e).ends = e.ends /\ Dead(e).source = e.source
  BY <1>2, DeadType DEF Dead, DndState, Same
<1>3. ASSUME NEW y \in Maybe(Surfaces)
      PROVE  SetPointerFocus(d, y).ends = d.ends /\ SetPointerFocus(d, y).source = d.source
  <2> DEFINE e == [d EXCEPT !.focus = y, !.ptr = IF Active(d) THEN @ ELSE y]
  <2>1. e \in DndState /\ e.ends = d.ends /\ e.source = d.source
    BY DEF DndState
  <2> HIDE DEF e
  <2>2. UpdateDrag(Dead(e)).ends = d.ends /\ UpdateDrag(Dead(e)).source = d.source
    BY <2>1, <1>1, <1>2
  <2>3. \/ SetPointerFocus(d, y) = d
        \/ SetPointerFocus(d, y) = [d EXCEPT !.ptr = None, !.focus = None]
        \/ SetPointerFocus(d, y) = UpdateDrag(Dead(e))
    BY DEF SetPointerFocus, OnDndPointerFocus, e
  <2> QED BY <2>2, <2>3 DEF DndState
<1>4. PointerBack(d).ends = d.ends
  BY <1>2, <1>3 DEF PointerBack, DndState, Maybe
<1> QED BY <1>1, <1>3, <1>4

(* What ends a drag answers its source. *)
LEMMA EndsAnswer ==
  ASSUME NEW d, Core(d), Setting
  PROVE  /\ Active(d) => AbortDrag(d).ends[d.source] # {}
         /\ Active(d) => CompleteDrag(d).ends[d.source] # {}
         /\ DropDrag(d).source = d.source \/ DropDrag(d) = AbortDrag(d)
<1>1. ASSUME Active(d), NEW e \in DndState, NEW what \in {"cancelled", "finished"},
             e.ends = d.ends
      PROVE  /\ Tell(e, d.source, what) \in DndState
             /\ Tell(e, d.source, what).ends[d.source] # {}
  BY <1>1 DEF Tell, DndState, Maybe, Core, Active
<1>2. ASSUME NEW e \in DndState
      PROVE  Forgotten(e) \in DndState /\ PointerBack(Forgotten(e)).ends = e.ends
  <2>1. Forgotten(e) \in DndState /\ Forgotten(e).ends = e.ends
    BY DEF Forgotten, DndState, Maybe
  <2> QED BY <2>1, FocusTellsNothing DEF Setting
<1>3. Active(d) => AbortDrag(d).ends[d.source] # {}
  <2> DEFINE free == [Ungripped(d) EXCEPT !.cursor = FALSE]
             left == SendLeave(free, d.device)
  <2>1. free \in DndState /\ free.ends = d.ends
    BY DEF Core, Ungripped, DndState
  <2> HIDE DEF free
  <2>2. left \in DndState /\ left.ends = d.ends
    BY <2>1, NoneAssumption DEF SendLeave, DndState, Maybe
  <2> HIDE DEF left
  <2>3. Active(d) => AbortDrag(d) = PointerBack(Forgotten(Tell(left, d.source, "cancelled")))
    BY DEF AbortDrag, left, free
  <2> QED BY <2>2, <2>3, <1>1, <1>2
<1>4. Active(d) => CompleteDrag(d).ends[d.source] # {}
  <2> DEFINE told == Tell(d, d.source, "finished")
  <2>1. Active(d) => told \in DndState /\ told.ends[d.source] # {}
    BY <1>1 DEF Core
  <2> HIDE DEF told
  <2>2. Active(d) => Ungripped(told) \in DndState /\ Ungripped(told).ends = told.ends
    BY <2>1 DEF Ungripped, DndState
  <2>3. Active(d) => CompleteDrag(d) = PointerBack(Forgotten(Ungripped(told)))
    BY DEF CompleteDrag, told
  <2> QED BY <2>1, <2>2, <2>3, <1>2
<1>5. DropDrag(d).source = d.source \/ DropDrag(d) = AbortDrag(d)
  <2>1. DropOn(d).source = d.source
    BY DEF DropOn, Core, DndState
  <2>2. SendLeave(DropOn(d), d.device).source = d.source
    BY <2>1 DEF SendLeave, DropOn, Core, DndState
  <2> QED BY <2>2 DEF DropDrag, Ungripped, SendLeave, DropOn, Core, DndState
<1> QED BY <1>3, <1>4, <1>5

LEMMA StepAnswers ==
  ASSUME IInv, [Next]_vars, Active(dnd), dnd'.source # dnd.source
  PROVE  dnd.source \notin sources' \/ dnd'.ends[dnd.source] # {}
<1>a. Core(dnd) /\ Setting /\ TypeOK /\ dnd \in DndState
  BY DEF IInv, TypeOK, Setting, Maybe, Core
<1> DEFINE Answered(d) == d.ends[dnd.source] # {}
<1>1. ASSUME NEW x \in Maybe(surfaces), Move(x) PROVE FALSE
  BY <1>1, <1>a, FocusTellsNothing DEF Move, TypeOK, Maybe
<1>2. ASSUME NEW s \in Sources, StartDrag(s) PROVE Answered(dnd')
  <2> DEFINE fresh == AbortDrag(dnd)
             gripped == [fresh EXCEPT !.source = s, !.grip = TRUE, !.cursor = TRUE]
             unfocused == [SetPointerFocus(gripped, None) EXCEPT !.focus = fresh.focus]
  <2>1. fresh \in DndState /\ Answered(fresh)
    BY <1>a, AbortDragKeeps, EndsAnswer DEF Core
  <2> HIDE DEF fresh
  <2>2. gripped \in DndState /\ gripped.ends = fresh.ends
    BY <2>1 DEF DndState, Maybe
  <2> HIDE DEF gripped
  <2>3. unfocused \in DndState /\ unfocused.ends = fresh.ends
    BY <2>1, <2>2 DEF SetPointerFocus, DndState, Maybe
  <2> HIDE DEF unfocused
  <2>4. dnd' = UpdateDrag(unfocused)
    BY <1>2 DEF StartDrag, InitiateDrag, unfocused, gripped, fresh
  <2> QED BY <1>a, <2>1, <2>3, <2>4, FocusTellsNothing DEF Maybe
<1>3. CASE Release
  BY <1>3, <1>a, EndsAnswer DEF Release, Step
<1>4. CASE IconDestroyed \/ Escape
  BY <1>4, <1>a, EndsAnswer DEF IconDestroyed, Escape, Step
<1>5. ASSUME NEW o \in Offers, OfOffer(o) PROVE Answered(dnd')
  <2>1. o \in Existing(dnd) /\ dnd.offers[o] \in Offer
    BY <1>5, <1>a DEF OfOffer, Accept, Receive, Finish, DestroyOffer, Existing, DndState, Maybe
  <2>2. CASE Finish(o)
    <3> DEFINE new == [dnd.offers[o] EXCEPT !.dead = TRUE, !.dropped = FALSE]
               closed == [dnd EXCEPT !.offers[o] = new]
    <3>1. new \in Offer /\ new.dead /\ new.to = dnd.offers[o].to /\ ~new.dropped
      BY <2>1 DEF Offer
    <3>2. closed = [dnd EXCEPT !.offers[o].dead = TRUE, !.offers[o].dropped = FALSE]
      BY <2>1, <1>a DEF DndState, Offer, Existing
    <3>3. dnd' = CompleteDrag(closed) \/ dnd' = AbortDrag(closed)
      BY <2>2, <3>2 DEF Finish, Step
    <3> HIDE DEF new
    <3>4. Core(closed) /\ closed.source = dnd.source
      BY <3>1, <2>1, <1>a, OfferChanged DEF Same
    <3> HIDE DEF closed
    <3> QED BY <3>3, <3>4, <1>a, EndsAnswer DEF Active
  <2>3. CASE ~Finish(o)
    <3>1. dnd'.source = dnd.source
      BY <1>5, <1>a, <2>3 DEF OfOffer, Accept, Receive, DestroyOffer, Step, Tell, DndState
    <3> QED BY <3>1
  <2> QED BY <2>2, <2>3
<1>6. ASSUME NEW s \in Sources, DestroySource(s) PROVE dnd.source \notin sources'
  BY <1>6 DEF DestroySource
<1>7. ASSUME NEW x \in Surfaces, DestroySurface(x) PROVE FALSE
  BY <1>7, <1>a DEF DestroySurface, DndState
<1>8. ASSUME NEW c \in Clients, DestroyDevice(c) \/ GetDataDevice(c) PROVE FALSE
  BY <1>8, <1>a DEF DestroyDevice, GetDataDevice, DndState
<1>9. CASE UNCHANGED vars
  BY <1>9 DEF vars
<1> QED BY <1>1, <1>2, <1>3, <1>4, <1>5, <1>6, <1>7, <1>8, <1>9 DEF Next

-----------------------------------------------------------------------------
LEMMA Invariance == Spec => []IInv
BY InitInv, StepInv, PTL DEF Spec

(* The state of m_dnd, its offers and the seat has its types.               *)
THEOREM TypeCorrect == Spec => []TypeOK
<1>1. IInv => TypeOK
  BY DEF IInv
<1> QED BY <1>1, Invariance, PTL

(* No surface gets the pointer while a drag is active (setPointerFocus).    *)
THEOREM AlwaysPointerLocked == Spec => []PointerLocked
<1>1. IInv => PointerLocked
  BY DEF IInv, Core, Locked, PointerLocked
<1> QED BY <1>1, Invariance, PTL

(* What wasDragSuccessful finds is an offer of the client that is dropped   *)
(* on, for any number of offers, clients and drags.                         *)
THEOREM AlwaysTargetHasOffer == Spec => []TargetHasOffer
<1>1. IInv => TargetHasOffer
  BY DEF IInv, Core, Right, TargetHasOffer
<1> QED BY <1>1, Invariance, PTL

(* Until the user goes on before a drop is finished, a client that was      *)
(* entered is left when the drag ends there (updateDrag, dropDrag,          *)
(* abortDrag).                                                              *)
THEOREM HoversEnd == Spec => []HoverEnds
<1>1. IInv => HoverEnds
  BY DEF IInv, Tidy, Hovers, HoverEnds
<1> QED BY <1>1, Invariance, PTL

(* Until the user goes on before a drop is finished, the cursor is          *)
(* overridden exactly while the drag is held (initiateDrag, dropDrag,       *)
(* abortDrag).                                                              *)
THEOREM CursorComesBack == Spec => []CursorBack
<1>1. IInv => CursorBack
  BY DEF IInv, Tidy, CursorBack
<1> QED BY <1>1, Invariance, PTL

(* A drag ends with cancelled or dnd_finished to its source, unless that is *)
(* what went (abortDrag, completeDrag, dropDrag, initiateDrag).             *)
THEOREM AlwaysAnswered == Spec => SourceAnswered
<1>1. IInv /\ [Next]_vars =>
        [Active(dnd) /\ dnd'.source # dnd.source =>
           dnd.source \notin sources' \/ dnd'.ends[dnd.source] # {}]_vars
  BY StepAnswers
<1> QED BY <1>1, Invariance, PTL DEF Spec, SourceAnswered
=============================================================================
