----------------------------- MODULE DamageRing -----------------------------
(***************************************************************************)
(* What of a monitor is repainted: CDamageRing together with the swapchain *)
(* it is meant for, as renderMonitor, beginRender and the commit use them. *)
(* The screen is a set of tiles.  A buffer of the swapchain is represented *)
(* by the tiles whose content it does not have: those that changed since   *)
(* they were last painted there.  Repainting too little shows as a stale   *)
(* rectangle on every third frame, which no unit test of the ring can see. *)
(***************************************************************************)
EXTENDS Integers

CONSTANTS
  Tiles,
  LEN,        \* DAMAGE_RING_PREVIOUS_LEN
  Length,     \* buffers of the swapchain
  Forced      \* how many full frames the code asks for without damaging

ASSUME LengthAssumption == Length \in Nat \ {0} /\ LEN \in Nat \ {0} /\ Length <= LEN + 1
ASSUME ForcedAssumption == Forced \subseteq Nat

VARIABLES
  sized,       \* m_size is not empty
  current,     \* m_current
  previous,    \* m_previous
  previousIdx, \* m_previousIdx
  forceFull,   \* m_forceFullFrames
  last,        \* the swapchain's position
  stale,       \* ghost: what each buffer of the swapchain does not show
  missed,      \* history: buffers acquired for a frame that was not painted,
  skipped      \* and those a refresh forced too few frames for, until they
               \* are repainted as a whole

ring == <<sized, current, previous, previousIdx>>
ringVars == <<ring, forceFull, last, stale, missed, skipped>>

Buffers == 0..(Length - 1)
Slots   == 0..(LEN - 1)

RingInit ==
  /\ sized = FALSE
  /\ current = {} /\ previous = [i \in Slots |-> {}] /\ previousIdx = 0
  /\ forceFull = 0
  /\ last = 0 /\ stale = [b \in Buffers |-> Tiles]
  /\ missed = {} /\ skipped = {}

(* damageEntire: damage() refuses everything while the ring has no size.   *)
Entire(hasSize) == IF hasSize THEN Tiles ELSE {}

(* CMonitor::addDamage: the content of the tiles d changed.                *)
Damage(d) ==
  /\ sized
  /\ current' = current \cup d
  /\ stale' = [b \in Buffers |-> stale[b] \cup d]
  /\ UNCHANGED <<sized, previous, previousIdx, forceFull, last, missed, skipped>>

(* A mode with another size: the swapchain gets new buffers, setSize       *)
(* damages everything once.  The first mode forces three frames besides.   *)
SetSize(hasSize) ==
  /\ sized' = hasSize
  /\ current' = current \cup Entire(hasSize)
  /\ forceFull' \in {forceFull, 3}
  /\ last' \in Buffers
  /\ stale' = [b \in Buffers |-> Tiles]
  /\ missed' = {} /\ skipped' = {}
  /\ UNCHANGED <<previous, previousIdx>>

(* The buffer that was acquired k frames before the last one.              *)
Acquired(k) == (last + Length - k) % Length

(* The whole screen is to look different (another screen shader, blur or   *)
(* cursor theme, a reloaded configuration), and only m_forceFullFrames     *)
(* says so: the buffers whose turn comes after that many frames are skipped*)
Restyle ==
  /\ sized
  /\ forceFull' \in Forced
  /\ skipped' = skipped \cup {Acquired(k) : k \in 0..(Length - forceFull' - 1)}
  /\ stale' = [b \in Buffers |-> Tiles]
  /\ UNCHANGED <<ring, last, missed>>

(* The same for the states of the windows, which damages the monitor too.  *)
RefreshWindows ==
  /\ sized
  /\ forceFull' = 2
  /\ current' = Tiles
  /\ stale' = [b \in Buffers |-> Tiles]
  /\ UNCHANGED <<sized, previous, previousIdx, last, missed, skipped>>

(* Mutant: one slot of the ring too few.                                   *)
BufferDamageShort(age) ==
  IF age <= 0 \/ age > LEN + 1 THEN Tiles
  ELSE current \cup UNION {previous[(previousIdx + i) % LEN] : i \in 0..(age - 3)}

(* getBufferDamage; joining many rectangles to their extents only adds.    *)
BufferDamage(age) ==
  IF age <= 0 \/ age > LEN + 1 THEN Tiles
  ELSE current \cup UNION {previous[(previousIdx + i) % LEN] : i \in 0..(age - 2)}

Rotate ==
  /\ previousIdx' = (previousIdx + LEN - 1) % LEN
  /\ previous' = [previous EXCEPT ![previousIdx'] = current]
  /\ current' = {}

(* swapchain->next: round robin, and the age is always the length.         *)
NextBuffer == (last + 1) % Length

(* renderMonitor in RENDER_MODE_NORMAL, from beginRender to endRender, for *)
(* a commit that succeeds or comes later.  extra: what the renderer repaints*)
(* beyond the damage (a mirror, the extents of a region).                  *)
Render ==
  /\ sized
  /\ \E extra \in SUBSET Tiles :
       LET painted == IF forceFull > 0 THEN Tiles ELSE BufferDamage(Length) \cup extra
       IN /\ stale' = [stale EXCEPT ![NextBuffer] = @ \ painted]
          /\ missed' = IF painted = Tiles THEN missed \ {NextBuffer} ELSE missed
          /\ skipped' = IF painted = Tiles THEN skipped \ {NextBuffer} ELSE skipped
  /\ Rotate
  /\ last' = NextBuffer
  /\ forceFull' = IF forceFull > 0 THEN forceFull - 1 ELSE 0
  /\ UNCHANGED sized

(* beginRender fails after swapchain->next: neither is rolled back.        *)
BeginRenderFails ==
  /\ sized
  /\ last' = NextBuffer
  /\ missed' = missed \cup {NextBuffer}
  /\ UNCHANGED <<ring, forceFull, stale, skipped>>

(* commitPendingAndDoExplicitSync when the commit fails twice.             *)
CommitFails ==
  /\ sized
  /\ last' = (last + Length - 1) % Length
  /\ current' = current \cup Entire(sized)
  /\ UNCHANGED <<sized, previous, previousIdx, forceFull, stale, missed, skipped>>

RingNext ==
  \/ \E d \in SUBSET Tiles : Damage(d)
  \/ \E hasSize \in BOOLEAN : SetSize(hasSize)
  \/ Restyle \/ RefreshWindows
  \/ Render \/ BeginRenderFails \/ CommitFails

RingSpec == RingInit /\ [][RingNext]_ringVars

-----------------------------------------------------------------------------
(* Every variable in its domain.                                           *)
RingTypeOK ==
  /\ sized \in BOOLEAN
  /\ current \subseteq Tiles
  /\ previous \in [Slots -> SUBSET Tiles] /\ previousIdx \in Slots
  /\ forceFull \in Nat
  /\ last \in Buffers
  /\ stale \in [Buffers -> SUBSET Tiles]
  /\ missed \subseteq Buffers /\ skipped \subseteq Buffers

(* Once no full frame is forced, the frame that was rendered last lacks    *)
(* nothing but what was damaged since: whatever was drawn, restyled,       *)
(* resized, failed or rolled back before, no tile of it is from an older   *)
(* frame.  The exceptions are a buffer that beginRender acquired and gave  *)
(* up, which the ring does not know of, and one that a refresh forced too  *)
(* few frames for, which is fresh again when it has been repainted whole.  *)
Fresh ==
  sized /\ forceFull = 0 => last \in missed \cup skipped \/ stale[last] \subseteq current

(* Why: a buffer that was acquired k frames ago lacks at most what the     *)
(* current region and the k newest slots of the ring hold, or it comes     *)
(* round again while full frames are still forced.                         *)
Held(k) == current \cup UNION {previous[(previousIdx + i) % LEN] : i \in 0..(k - 1)}

Covered ==
  sized => \A k \in Buffers :
    \/ Acquired(k) \in missed \cup skipped
    \/ stale[Acquired(k)] \subseteq Held(k)
    \/ forceFull >= Length - k

RingIInv == RingTypeOK /\ Covered
=============================================================================
