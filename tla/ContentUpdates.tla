--------------------------- MODULE ContentUpdates ---------------------------
(***************************************************************************)
(* What a wl_surface promises a client about its commits, with no lock, no *)
(* fence object, no timer and no protocol extension in sight: updates are  *)
(* taken in commit order, none is skipped unless the surface itself is     *)
(* cleared, and none is shown while the GPU work it refers to is running.  *)
(* SurfaceQueue is shown to implement this.                                *)
(***************************************************************************)
EXTENDS Integers, Sequences

CONSTANT Updates      \* the numbers updates can have: their place in commit order

VARIABLES
  waiting,   \* the committed updates that are not shown yet, oldest first
  shown,     \* the newest update that was ever shown, 0 before the first
  unready    \* the updates that must not be shown yet

vars == <<waiting, shown, unready>>

Init ==
  /\ waiting = <<>>
  /\ shown = 0
  /\ unready = {}

(* The oldest k of the updates w are shown in one go, all of them ready.   *)
Show(w, k) ==
  /\ \A i \in 1..k : w[i] \notin unready'
  /\ waiting' = [i \in 1..(Len(w) - k) |-> w[i + k]]
  /\ shown' = IF k = 0 THEN shown ELSE w[k]

(* An update is committed, and shown at once when nothing holds it.        *)
Commit ==
  \E u \in Updates, k \in 0..(Len(waiting) + 1) :
    /\ u > shown
    /\ \A i \in 1..Len(waiting) : u > waiting[i]
    /\ unready \subseteq unready' /\ unready' \subseteq unready \cup {u}
    /\ Show(Append(waiting, u), k)

(* The GPU finishes, a present or a timer passes: held updates are shown.  *)
Release ==
  \E k \in 0..Len(waiting) :
    /\ unready' \subseteq unready
    /\ Show(waiting, k)

(* The surface is cleared by a newer update, or destroyed: what waits is   *)
(* forgotten.                                                              *)
Clear ==
  /\ waiting' = <<>>
  /\ \/ shown' = shown
     \/ /\ shown' > shown
        /\ \A i \in 1..Len(waiting) : shown' > waiting[i]
  /\ UNCHANGED unready

Next == Commit \/ Release \/ Clear

Spec == Init /\ [][Next]_vars
=============================================================================
