---------------------- MODULE DamageRingFallbackProofs ----------------------
(***************************************************************************)
(* Proofs about two small components of an output, which know nothing of   *)
(* each other: DamageRing, which decides what of it is repainted, and      *)
(* Fallback, the keeper of the output that stands in for all others.       *)
(***************************************************************************)
EXTENDS DamageRing, Fallback, TLAPS

(***************************************************************************)
(* A swapchain of any length up to LEN + 1 and any screen are repainted in *)
(* full by the damage the ring returns: the invariant of DamageRing that   *)
(* TLC checks on two tiles and three buffers, proved for all of them.      *)
(***************************************************************************)

(* How far an index of a ring is reduced when it runs over the end once.   *)
LEMMA ModOnce ==
  \A n \in Nat \ {0}, a \in Nat :
    a < 2 * n => a % n = (IF a < n THEN a ELSE a - n)
OBVIOUS

(* A rotation moves every slot one place back, and the slot it writes is   *)
(* none of the LEN - 1 that follow it.                                     *)
LEMMA SlotShift ==
  ASSUME NEW p \in Slots, NEW i \in 1..(LEN - 1)
  PROVE  LET q == (p + LEN - 1) % LEN
         IN  (q + i) % LEN = (p + (i - 1)) % LEN /\ (q + i) % LEN # q
<1>n. LEN \in Nat \ {0}
  BY LengthAssumption
<1>p. p \in 0..(LEN - 1)
  BY DEF Slots
<1> DEFINE q == (p + LEN - 1) % LEN
<1>1. q = IF p = 0 THEN LEN - 1 ELSE p - 1
  BY <1>n, <1>p
<1> HIDE DEF q
<1>2. q \in Nat /\ q < LEN /\ i \in Nat /\ i >= 1 /\ i < LEN
  BY <1>1, <1>n, <1>p
<1>3. (q + i) % LEN = IF q + i < LEN THEN q + i ELSE q + i - LEN
  <2>1. PICK a \in Nat : a = q + i
    BY <1>2
  <2>2. a < 2 * LEN
    BY <2>1, <1>2, <1>n
  <2>3. a % LEN = IF a < LEN THEN a ELSE a - LEN
    BY <2>1, <2>2, <1>n, ModOnce
  <2> QED
    BY <2>1, <2>3, <1>2, <1>n, <1>p
<1>4. (p + (i - 1)) % LEN = IF p + (i - 1) < LEN THEN p + (i - 1) ELSE p + (i - 1) - LEN
  <2>1. PICK a \in Nat : a = p + (i - 1)
    BY <1>2, <1>p
  <2>2. a < 2 * LEN
    BY <2>1, <1>2, <1>n, <1>p
  <2>3. a % LEN = IF a < LEN THEN a ELSE a - LEN
    BY <2>1, <2>2, <1>n, ModOnce
  <2> QED
    BY <2>1, <2>3, <1>2, <1>n, <1>p
<1>5. (q + i) % LEN = (p + (i - 1)) % LEN /\ (q + i) % LEN # q
  BY <1>1, <1>3, <1>4, <1>n, <1>p
<1> QED
  BY <1>5 DEF q

(* A slot's index stays inside the ring.                                   *)
LEMMA SlotOf ==
  ASSUME NEW p \in Slots, NEW i \in Nat
  PROVE  (p + i) % LEN \in Slots
BY LengthAssumption DEF Slots

(* Going back from a buffer of the swapchain ends at one of them, and going*)
(* back by none ends at the buffer itself.                                 *)
LEMMA Back ==
  \A l \in Buffers : /\ (l + Length - 0) % Length = l
                     /\ \A k \in Buffers : (l + Length - k) % Length \in Buffers
<1>n. Length \in Nat \ {0}
  BY LengthAssumption
<1> SUFFICES ASSUME NEW l \in Buffers
             PROVE  /\ (l + Length - 0) % Length = l
                    /\ \A k \in Buffers : (l + Length - k) % Length \in Buffers
  OBVIOUS
<1>1. l \in Nat /\ l < Length
  BY <1>n DEF Buffers
<1>2. PICK a \in Nat : a = l + Length - 0
  BY <1>1, <1>n
<1>3. a < 2 * Length
  BY <1>1, <1>2, <1>n
<1>4. a % Length = IF a < Length THEN a ELSE a - Length
  BY <1>2, <1>3, <1>n, ModOnce
<1>5. (l + Length - 0) % Length = l
  BY <1>1, <1>2, <1>4, <1>n
<1>6. \A k \in Buffers : (l + Length - k) % Length \in Buffers
  BY <1>1, <1>n DEF Buffers
<1> QED
  BY <1>5, <1>6

(* The buffer that was acquired last, the one that comes next, and what    *)
(* acquiring it makes of the ages of the others.                           *)
LEMMA Ages ==
  ASSUME last \in Buffers
  PROVE  /\ Acquired(0) = last
         /\ Acquired(Length - 1) = NextBuffer
         /\ NextBuffer \in Buffers
         /\ \A k \in Buffers : Acquired(k) \in Buffers
<1>n. Length \in Nat \ {0} /\ last \in 0..(Length - 1)
  BY LengthAssumption DEF Buffers
<1>1. Acquired(0) = last
  BY Back DEF Acquired
<1>2. Acquired(Length - 1) = NextBuffer
  <2>1. last + Length - (Length - 1) = last + 1
    BY <1>n
  <2> QED
    BY <2>1 DEF Acquired, NextBuffer
<1>3. NextBuffer \in Buffers
  BY <1>n DEF NextBuffer, Buffers
<1>4. \A k \in Buffers : Acquired(k) \in Buffers
  BY Back DEF Acquired
<1> QED
  BY <1>1, <1>2, <1>3, <1>4

(* Once the swapchain has moved on, the buffer of age k is the one that    *)
(* was of age k - 1.                                                       *)
LEMMA AgesShift ==
  ASSUME last \in Buffers, last' = NextBuffer, NEW k \in Buffers, k # 0
  PROVE  Acquired(k)' = Acquired(k - 1) /\ k - 1 \in Buffers
<1>n. Length \in Nat \ {0} /\ last \in 0..(Length - 1) /\ k \in 1..(Length - 1)
  BY LengthAssumption DEF Buffers
<1>1. NextBuffer = IF last + 1 < Length THEN last + 1 ELSE 0
  <2>1. PICK a \in Nat : a = last + 1
    BY <1>n
  <2>2. a < 2 * Length
    BY <2>1, <1>n
  <2>3. a % Length = IF a < Length THEN a ELSE a - Length
    BY <2>1, <2>2, <1>n, ModOnce
  <2> QED
    BY <2>1, <2>3, <1>n DEF NextBuffer
<1> DEFINE a == last' + Length - k
           b == last + Length - (k - 1)
<1>2. a \in Nat /\ a < 2 * Length /\ b \in Nat /\ b < 2 * Length
  BY <1>1, <1>n
<1>3. a % Length = IF a < Length THEN a ELSE a - Length
  BY <1>2, <1>n, ModOnce
<1>4. b % Length = IF b < Length THEN b ELSE b - Length
  BY <1>2, <1>n, ModOnce
<1>5. a % Length = b % Length
  BY <1>1, <1>3, <1>4, <1>n
<1>6. Acquired(k)' = a % Length /\ Acquired(k - 1) = b % Length
  BY DEF Acquired
<1> QED
  BY <1>5, <1>6, <1>n DEF Buffers

(* What the ring holds grows with the age asked for.                       *)
LEMMA HeldGrows ==
  ASSUME NEW k \in Nat \ {0}
  PROVE  Held(k - 1) \subseteq Held(k)
<1>1. 0..((k - 1) - 1) \subseteq 0..(k - 1)
  OBVIOUS
<1> QED
  BY <1>1 DEF Held

-----------------------------------------------------------------------------
(* Before the first mode the ring is empty and every buffer is new.        *)
LEMMA RingInitIInv == RingInit => RingIInv
<1> SUFFICES ASSUME RingInit PROVE RingIInv
  OBVIOUS
<1>n. 0 \in Buffers /\ 0 \in Slots
  BY LengthAssumption DEF Buffers, Slots
<1>1. RingTypeOK
  BY <1>n DEF RingInit, RingTypeOK
<1>2. Covered
  BY DEF RingInit, Covered
<1> QED
  BY <1>1, <1>2 DEF RingIInv

(* Every step keeps the types, whatever the code asks for.                 *)
LEMMA RingStepType ==
  ASSUME RingTypeOK, [RingNext]_ringVars
  PROVE  RingTypeOK'
<1>n. Length \in Nat \ {0} /\ LEN \in Nat \ {0} /\ Forced \subseteq Nat
  BY LengthAssumption, ForcedAssumption
<1> USE DEF RingTypeOK
<1>r. Rotate => /\ previousIdx' \in Slots
                /\ previous' \in [Slots -> SUBSET Tiles]
                /\ current' \subseteq Tiles
  <2> SUFFICES ASSUME Rotate
               PROVE  previousIdx' \in Slots /\ previous' \in [Slots -> SUBSET Tiles] /\ current' \subseteq Tiles
    OBVIOUS
  <2>1. previousIdx' \in Slots
    BY <1>n DEF Rotate, Slots
  <2> QED
    BY <2>1 DEF Rotate
<1>e. \A h \in BOOLEAN : Entire(h) \subseteq Tiles
  BY DEF Entire
<1>b. NextBuffer \in Buffers /\ (last + Length - 1) % Length \in Buffers
  BY <1>n DEF NextBuffer, Buffers
<1>1. ASSUME NEW d \in SUBSET Tiles, Damage(d) PROVE RingTypeOK'
  BY <1>1 DEF Damage
<1>2. ASSUME NEW h \in BOOLEAN, SetSize(h) PROVE RingTypeOK'
  BY <1>2, <1>e DEF SetSize
<1>3. CASE Restyle
  <2>1. \A k \in 0..(Length - forceFull' - 1) : Acquired(k) \in Buffers
    <3>1. forceFull' \in Nat
      BY <1>3, <1>n DEF Restyle
    <3>n. \A n \in Nat : 0..(Length - n - 1) \subseteq Buffers
      BY <1>n DEF Buffers
    <3>2. 0..(Length - forceFull' - 1) \subseteq Buffers
      BY <3>1, <3>n
    <3> QED BY <3>2, Ages
  <2>2. skipped' \subseteq Buffers
    BY <1>3, <2>1 DEF Restyle
  <2> QED BY <1>3, <1>n, <2>2 DEF Restyle, ring
<1>4. CASE RefreshWindows
  BY <1>4 DEF RefreshWindows
<1>5. CASE Render
  <2>1. stale' \in [Buffers -> SUBSET Tiles] /\ missed' \subseteq Buffers /\ skipped' \subseteq Buffers
    BY <1>5 DEF Render
  <2>2. forceFull' \in Nat
    BY <1>5 DEF Render
  <2>3. sized' \in BOOLEAN /\ last' \in Buffers
    BY <1>5, <1>b DEF Render
  <2>4. Rotate
    BY <1>5 DEF Render
  <2> QED
    BY <2>1, <2>2, <2>3, <2>4, <1>r
<1>6. CASE BeginRenderFails
  BY <1>6, <1>b DEF BeginRenderFails, ring
<1>7. CASE CommitFails
  BY <1>7, <1>b, <1>e DEF CommitFails
<1>8. CASE UNCHANGED ringVars
  BY <1>8 DEF ringVars, ring
<1> QED
  BY <1>1, <1>2, <1>3, <1>4, <1>5, <1>6, <1>7, <1>8 DEF RingNext

(* Painting only takes tiles off what a buffer lacks, and a buffer that is *)
(* struck off the missed ones lacks nothing.                               *)
LEMMA Painting ==
  ASSUME RingTypeOK, Render
  PROVE  /\ \A b \in Buffers : stale'[b] \subseteq stale[b]
         /\ \A b \in missed \cup skipped : b \in missed' \cup skipped' \/ stale'[b] = {}
         /\ forceFull > 0 => stale'[NextBuffer] = {}
         /\ forceFull = 0 => stale'[NextBuffer] \cap BufferDamage(Length) = {}
<1>n. last \in Buffers /\ NextBuffer \in Buffers
  BY Ages DEF RingTypeOK
<1>1. PICK extra \in SUBSET Tiles :
        LET painted == IF forceFull > 0 THEN Tiles ELSE BufferDamage(Length) \cup extra
        IN /\ stale' = [stale EXCEPT ![NextBuffer] = @ \ painted]
           /\ missed' = IF painted = Tiles THEN missed \ {NextBuffer} ELSE missed
           /\ skipped' = IF painted = Tiles THEN skipped \ {NextBuffer} ELSE skipped
  BY DEF Render
<1> DEFINE painted == IF forceFull > 0 THEN Tiles ELSE BufferDamage(Length) \cup extra
<1>2. /\ stale' = [stale EXCEPT ![NextBuffer] = @ \ painted]
      /\ missed' = IF painted = Tiles THEN missed \ {NextBuffer} ELSE missed
      /\ skipped' = IF painted = Tiles THEN skipped \ {NextBuffer} ELSE skipped
  BY <1>1
<1>p. forceFull \in Nat /\ (forceFull > 0 => painted = Tiles)
      /\ (forceFull = 0 => BufferDamage(Length) \subseteq painted)
  BY DEF RingTypeOK
<1> HIDE DEF painted
<1>3. stale \in [Buffers -> SUBSET Tiles]
  BY DEF RingTypeOK
<1>4. stale'[NextBuffer] = stale[NextBuffer] \ painted
  BY <1>2, <1>3, <1>n
<1>5. \A b \in Buffers : stale'[b] \subseteq stale[b]
  BY <1>2, <1>3, <1>n
<1>6. painted = Tiles => stale'[NextBuffer] = {}
  BY <1>4, <1>3, <1>n
<1> QED
  BY <1>2, <1>4, <1>5, <1>6, <1>p

(* After a frame is painted, the ring holds for an age one higher what it  *)
(* held before.                                                            *)
LEMMA RotateHolds ==
  ASSUME RingTypeOK, Rotate, NEW k \in 1..(Length - 1)
  PROVE  Held(k - 1) \subseteq Held(k)'
<1>n. LEN \in Nat \ {0} /\ k \in Nat /\ k >= 1 /\ k <= LEN
  BY LengthAssumption
<1> DEFINE q == (previousIdx + LEN - 1) % LEN
<1>t. previousIdx \in Slots /\ previous \in [Slots -> SUBSET Tiles]
  BY DEF RingTypeOK
<1>q. previousIdx' = q /\ q \in Slots
  BY <1>n, <1>t DEF Rotate, Slots
<1>p. previous' = [previous EXCEPT ![q] = current]
  BY <1>q DEF Rotate
<1>1. previous'[q] = current
  BY <1>p, <1>q, <1>t
<1>2. ASSUME NEW i \in 1..(k - 1)
      PROVE  previous'[(q + i) % LEN] = previous[(previousIdx + (i - 1)) % LEN]
  <2>1. i \in 1..(LEN - 1)
    BY <1>n
  <2>2. (q + i) % LEN = (previousIdx + (i - 1)) % LEN /\ (q + i) % LEN # q
    BY <2>1, <1>t, SlotShift
  <2>3. (previousIdx + (i - 1)) % LEN \in Slots
    BY <2>1, <1>t, SlotOf
  <2> QED
    BY <2>2, <2>3, <1>p, <1>t
<1>h. Held(k)' = current' \cup UNION {previous'[(previousIdx' + i) % LEN] : i \in 0..(k - 1)}
  BY DEF Held
<1>3. ASSUME NEW i \in 0..(k - 1)
      PROVE  previous'[(q + i) % LEN] \subseteq Held(k)'
  BY <1>h, <1>q
<1>4. current \subseteq Held(k)'
  <2>1. (q + 0) % LEN = q
    BY <1>q, <1>n DEF Slots
  <2>2. 0 \in 0..(k - 1)
    BY <1>n
  <2> QED
    BY <2>1, <2>2, <1>1, <1>3
<1>5. ASSUME NEW j \in 0..((k - 1) - 1)
      PROVE  previous[(previousIdx + j) % LEN] \subseteq Held(k)'
  <2>1. j + 1 \in 1..(k - 1) /\ j + 1 \in 0..(k - 1) /\ (j + 1) - 1 = j
    BY <1>n
  <2> QED
    BY <2>1, <1>2, <1>3
<1> QED
  BY <1>4, <1>5 DEF Held

-----------------------------------------------------------------------------
(* A frame that is rendered, rotated and committed keeps every stale tile  *)
(* of every buffer within what its next repaint covers.                    *)
LEMMA RenderCovers ==
  ASSUME RingTypeOK, Covered, Render
  PROVE  Covered'
<1>n. Length \in Nat \ {0} /\ LEN \in Nat \ {0} /\ Length <= LEN + 1
  BY LengthAssumption
<1>l. last \in Buffers /\ last' = NextBuffer /\ sized /\ Rotate
  BY DEF RingTypeOK, Render
<1>b. NextBuffer \in Buffers /\ Acquired(Length - 1) = NextBuffer
  BY <1>l, Ages
<1>f. forceFull \in Nat /\ forceFull' = IF forceFull > 0 THEN forceFull - 1 ELSE 0
  BY DEF RingTypeOK, Render
<1>m. missed \subseteq Buffers
  BY DEF RingTypeOK
<1> SUFFICES ASSUME NEW k \in Buffers
             PROVE  \/ Acquired(k)' \in missed' \cup skipped'
                    \/ stale'[Acquired(k)'] \subseteq Held(k)'
                    \/ forceFull' >= Length - k
  BY DEF Covered
<1>1. CASE k = 0
  <2>1. Acquired(0)' = NextBuffer
    <3>1. (NextBuffer + Length - 0) % Length = NextBuffer
      BY <1>b, Back
    <3> QED
      BY <3>1, <1>l DEF Acquired
  <2>2. NextBuffer \in missed' \cup skipped' \/ stale'[NextBuffer] = {}
    <3>1. CASE forceFull > 0
      BY <3>1, Painting
    <3>2. CASE NextBuffer \in missed \cup skipped
      BY <3>2, Painting
    <3>3. CASE forceFull = 0 /\ NextBuffer \notin missed \cup skipped
      <4>1. Length - 1 \in Buffers
        BY <1>n DEF Buffers
      <4>2. stale[NextBuffer] \subseteq Held(Length - 1)
        <5>1. ~ (forceFull >= Length - (Length - 1))
          BY <3>3, <1>n
        <5> QED
          BY <4>1, <5>1, <3>3, <1>b, <1>l DEF Covered
      <4>3. Held(Length - 1) = BufferDamage(Length)
        <5>1. (Length - 1) - 1 = Length - 2 /\ ~ (Length <= 0 \/ Length > LEN + 1)
          BY <1>n
        <5> QED
          BY <5>1 DEF Held, BufferDamage
      <4>4. stale'[NextBuffer] \subseteq stale[NextBuffer]
        BY <1>b, Painting
      <4>5. stale'[NextBuffer] \cap BufferDamage(Length) = {}
        BY <3>3, Painting
      <4> QED
        BY <4>2, <4>3, <4>4, <4>5
    <3> QED
      BY <3>1, <3>2, <3>3, <1>f
  <2> QED
    BY <1>1, <2>1, <2>2
<1>2. CASE k # 0
  <2>1. Acquired(k)' = Acquired(k - 1) /\ k - 1 \in Buffers
    BY <1>2, <1>l, AgesShift
  <2>2. k \in 1..(Length - 1)
    BY <1>2 DEF Buffers
  <2>3. Held(k - 1) \subseteq Held(k)'
    BY <2>2, <1>l, RotateHolds
  <2>4. Acquired(k - 1) \in Buffers
    BY <2>1, <1>l, Ages
  <2>5. CASE Acquired(k - 1) \in missed \cup skipped
    BY <2>5, <2>1, Painting
  <2>6. CASE stale[Acquired(k - 1)] \subseteq Held(k - 1)
    <3>1. stale'[Acquired(k - 1)] \subseteq stale[Acquired(k - 1)]
      BY <2>4, Painting
    <3> QED
      BY <3>1, <2>6, <2>3, <2>1
  <2>7. CASE forceFull >= Length - (k - 1)
    BY <2>7, <1>f, <1>n, <2>2
  <2> QED
    BY <2>1, <2>5, <2>6, <2>7, <1>l DEF Covered
<1> QED
  BY <1>1, <1>2

(* A beginRender that gives up has moved the swapchain on without          *)
(* rotating the ring: the buffer it leaves is among the missed ones.       *)
LEMMA AcquireCovers ==
  ASSUME RingTypeOK, Covered, BeginRenderFails
  PROVE  Covered'
<1>n. Length \in Nat \ {0}
  BY LengthAssumption
<1>l. last \in Buffers /\ last' = NextBuffer /\ sized /\ forceFull \in Nat
  BY DEF RingTypeOK, BeginRenderFails
<1>u. missed' = missed \cup {NextBuffer} /\ UNCHANGED <<current, previous, previousIdx, forceFull, stale, skipped>>
  BY DEF BeginRenderFails, ring
<1>b. NextBuffer \in Buffers
  BY <1>l, Ages
<1>h. ASSUME NEW k \in Buffers PROVE Held(k)' = Held(k)
  BY <1>u DEF Held
<1> SUFFICES ASSUME NEW k \in Buffers
             PROVE  \/ Acquired(k)' \in missed' \cup skipped'
                    \/ stale'[Acquired(k)'] \subseteq Held(k)'
                    \/ forceFull' >= Length - k
  BY DEF Covered
<1>1. CASE k = 0
  <2>1. (NextBuffer + Length - 0) % Length = NextBuffer
    BY <1>b, Back
  <2>3. Acquired(0)' = NextBuffer
    BY <2>1, <1>l DEF Acquired
  <2> QED
    BY <1>1, <2>3, <1>u
<1>2. CASE k # 0
  <2>1. Acquired(k)' = Acquired(k - 1) /\ k - 1 \in Buffers
    BY <1>2, <1>l, AgesShift
  <2>2. k \in Nat \ {0}
    BY <1>2 DEF Buffers
  <2>3. Held(k - 1) \subseteq Held(k)
    BY <2>2, HeldGrows
  <2>4. forceFull >= Length - (k - 1) => forceFull >= Length - k
    BY <1>l, <1>n, <2>2
  <2> QED
    BY <2>1, <2>3, <2>4, <1>h, <1>u, <1>l DEF Covered
<1> QED
  BY <1>1, <1>2

(* Everything damaged, everything held.                                    *)
LEMMA EntireCovers ==
  ASSUME RingTypeOK', sized' => current' = Tiles
  PROVE  Covered'
<1>1. ASSUME sized', NEW k \in Buffers PROVE stale'[Acquired(k)'] \subseteq Held(k)'
  <2>1. last' \in Buffers /\ stale' \in [Buffers -> SUBSET Tiles]
    BY DEF RingTypeOK
  <2>2. Acquired(k)' \in Buffers
    BY <2>1, Back DEF Acquired
  <2>3. stale'[Acquired(k)'] \subseteq Tiles
    BY <2>1, <2>2
  <2>4. current' \subseteq Held(k)'
    BY DEF Held
  <2> QED
    BY <2>3, <2>4, <1>1
<1> QED
  BY <1>1 DEF Covered

(* A change that only m_forceFullFrames announces: the frames it forces    *)
(* come to every buffer but those it skips.                                *)
LEMMA RestyleCovers ==
  ASSUME RingTypeOK, Restyle
  PROVE  Covered'
<1>1. PICK n \in Nat : forceFull' = n
  BY ForcedAssumption DEF Restyle
<1>2. skipped' = skipped \cup {Acquired(k) : k \in 0..(Length - n - 1)}
  BY <1>1 DEF Restyle
<1>3. Length \in Nat \ {0}
  BY LengthAssumption
<1>4. ASSUME NEW k \in Buffers
      PROVE  Acquired(k)' \in skipped' \/ forceFull' >= Length - k
  <2>1. k \in 0..(Length - n - 1) \/ n >= Length - k
    BY <1>3 DEF Buffers
  <2>2. Acquired(k)' = Acquired(k)
    BY DEF Restyle, Acquired
  <2> QED BY <1>1, <1>2, <2>1, <2>2
<1> QED BY <1>4 DEF Covered

(* The invariant is inductive.                                             *)
LEMMA RingStepIInv ==
  ASSUME RingIInv, [RingNext]_ringVars
  PROVE  RingIInv'
<1>t. RingTypeOK /\ Covered /\ RingTypeOK'
  BY RingStepType DEF RingIInv
<1>n. Length \in Nat \ {0}
  BY LengthAssumption
<1>c. SUFFICES Covered'
  BY <1>t DEF RingIInv
<1>1. ASSUME NEW d \in SUBSET Tiles, Damage(d) PROVE Covered'
  <2>u. /\ sized /\ current' = current \cup d
        /\ UNCHANGED <<previous, previousIdx, forceFull, last, missed, skipped>>
        /\ stale' = [b \in Buffers |-> stale[b] \cup d]
    BY <1>1 DEF Damage
  <2> SUFFICES ASSUME NEW k \in Buffers
               PROVE  \/ Acquired(k)' \in missed' \cup skipped'
                      \/ stale'[Acquired(k)'] \subseteq Held(k)'
                      \/ forceFull' >= Length - k
    BY DEF Covered
  <2>1. Acquired(k)' = Acquired(k) /\ Acquired(k) \in Buffers
    BY <2>u, <1>t, Ages DEF Acquired, RingTypeOK
  <2>2. Held(k)' = Held(k) \cup d
    BY <2>u DEF Held
  <2>3. stale'[Acquired(k)] = stale[Acquired(k)] \cup d
    BY <2>u, <2>1
  <2> QED
    BY <2>u, <2>1, <2>2, <2>3, <1>t DEF Covered
<1>2. ASSUME NEW h \in BOOLEAN, SetSize(h) PROVE Covered'
  <2>1. sized' => current' = Tiles
    BY <1>2, <1>t DEF SetSize, Entire, RingTypeOK
  <2> QED
    BY <2>1, <1>t, EntireCovers
<1>3. CASE Restyle
  BY <1>3, <1>t, RestyleCovers
<1>4. CASE RefreshWindows
  <2>1. current' = Tiles
    BY <1>4 DEF RefreshWindows
  <2> QED
    BY <2>1, <1>t, EntireCovers
<1>5. CASE Render
  BY <1>5, <1>t, RenderCovers
<1>6. CASE BeginRenderFails
  BY <1>6, <1>t, AcquireCovers
<1>7. CASE CommitFails
  <2>1. current' = Tiles
    BY <1>7, <1>t DEF CommitFails, Entire, RingTypeOK
  <2> QED
    BY <2>1, <1>t, EntireCovers
<1>8. CASE UNCHANGED ringVars
  BY <1>8, <1>t DEF ringVars, ring, Covered, Acquired, Held
<1> QED
  BY <1>1, <1>2, <1>3, <1>4, <1>5, <1>6, <1>7, <1>8 DEF RingNext

-----------------------------------------------------------------------------
(* RingTypeOK holds whatever the code asks for.                            *)
THEOREM RingTypeCorrect == RingSpec => []RingTypeOK
<1>1. RingInit => RingTypeOK
  BY RingInitIInv DEF RingIInv
<1>2. RingTypeOK /\ [RingNext]_ringVars => RingTypeOK'
  BY RingStepType
<1> QED
  BY <1>1, <1>2, PTL DEF RingSpec

(* RingIInv holds in every reachable state, however many frames are forced.*)
THEOREM RingInvariance == RingSpec => []RingIInv
<1>1. RingIInv /\ [RingNext]_ringVars => RingIInv'
  BY RingStepIInv
<1> QED
  BY <1>1, RingInitIInv, PTL DEF RingSpec

(* A frame lacks nothing of an older one (CDamageRing::getBufferDamage and *)
(* rotate with the swapchain's order): for every screen and every          *)
(* swapchain the ring is long enough for, and however few frames are forced*)
THEOREM FramesFresh == RingSpec => []Fresh
<1>1. RingIInv => Fresh
  <2> SUFFICES ASSUME RingTypeOK, Covered, sized, forceFull = 0, last \notin missed \cup skipped
               PROVE  stale[last] \subseteq current
    BY DEF RingIInv, Fresh
  <2>1. 0 \in Buffers /\ Length \in Nat \ {0}
    BY LengthAssumption DEF Buffers
  <2>2. Acquired(0) = last
    BY Ages DEF RingTypeOK
  <2>3. ~ (forceFull >= Length - 0)
    BY <2>1
  <2>4. stale[last] \subseteq Held(0)
    BY <2>1, <2>2, <2>3 DEF Covered
  <2>5. 0..(0 - 1) = {}
    OBVIOUS
  <2>6. Held(0) = current
    BY <2>5 DEF Held
  <2> QED
    BY <2>4, <2>6
<1> QED
  BY <1>1, RingInvariance, PTL

-------------------------------------------------------------------------------
(***************************************************************************)
(* Proofs about Fallback, for every set of outputs.  KeeperInv relates the *)
(* deferral flag to the queue: an update is queued exactly while the flag  *)
(* is set, and once.  StandsIn adds how a keeper comes to be inactive      *)
(* without an output.                                                      *)
(***************************************************************************)

Jobs == {"update", "leave"}

Has(q, j) == \E i \in 1..Len(q) : q[i] = j
Once(q, j) == \A i, k \in 1..Len(q) : q[i] = j /\ q[k] = j => i = k

KeeperInv ==
  /\ TypeOK
  /\ ActiveAlone
  /\ deferred <=> Has(jobs, "update")
  /\ Once(jobs, "update")
  /\ ~deferred => (HasOutput => active) /\ (headless /\ active => HasOutput)

(* What is appended to a queue, and nothing else, comes to be on it. *)
LEMMA HasAppend ==
  ASSUME NEW q \in Seq(Jobs), NEW x \in Jobs, NEW j \in Jobs
  PROVE  /\ Append(q, x) \in Seq(Jobs)
         /\ Append(q, x) # <<>>
         /\ Has(Append(q, x), j) <=> Has(q, j) \/ x = j
<1>1. /\ Append(q, x) \in Seq(Jobs) /\ Len(Append(q, x)) = Len(q) + 1
      /\ Append(q, x)[Len(q) + 1] = x
      /\ \A i \in 1..Len(q) : Append(q, x)[i] = q[i]
  OBVIOUS
<1>2. Len(q) \in Nat
  OBVIOUS
<1>3. Append(q, x) # <<>>
  BY <1>1, <1>2
<1>4. Has(Append(q, x), j) => Has(q, j) \/ x = j
  BY <1>1, <1>2, SMT DEF Has
<1>5. Has(q, j) \/ x = j => Has(Append(q, x), j)
  BY <1>1, <1>2, SMT DEF Has
<1> QED BY <1>1, <1>3, <1>4, <1>5

(* A job that is not queued is queued once after it is appended. *)
LEMMA OnceAppend ==
  ASSUME NEW q \in Seq(Jobs), NEW x \in Jobs, NEW j \in Jobs,
         Once(q, j), x = j => ~Has(q, j)
  PROVE  Once(Append(q, x), j)
<1>1. /\ Len(Append(q, x)) = Len(q) + 1 /\ Append(q, x)[Len(q) + 1] = x
      /\ \A i \in 1..Len(q) : Append(q, x)[i] = q[i]
  OBVIOUS
<1>2. Len(q) \in Nat
  OBVIOUS
<1>3. SUFFICES ASSUME NEW i \in 1..(Len(q) + 1), NEW k \in 1..(Len(q) + 1),
                      Append(q, x)[i] = j, Append(q, x)[k] = j
               PROVE  i = k
  BY <1>1 DEF Once
<1>4. CASE i \in 1..Len(q) /\ k \in 1..Len(q)
  BY <1>1, <1>3, <1>4 DEF Once
<1>5. CASE i = Len(q) + 1 \/ k = Len(q) + 1
  BY <1>1, <1>2, <1>3, <1>5, SMT DEF Has
<1> QED BY <1>2, <1>4, <1>5

(* What is queued is the head of the queue or in its tail. *)
LEMMA HasTail ==
  ASSUME NEW q \in Seq(Jobs), q # <<>>, NEW j \in Jobs
  PROVE  /\ Tail(q) \in Seq(Jobs) /\ Head(q) \in Jobs
         /\ Has(q, j) <=> Head(q) = j \/ Has(Tail(q), j)
         /\ Once(q, j) => Once(Tail(q), j) /\ (Head(q) = j => ~Has(Tail(q), j))
<1>1. /\ Len(q) \in Nat /\ Len(q) >= 1 /\ Tail(q) \in Seq(Jobs)
      /\ Len(Tail(q)) = Len(q) - 1 /\ Head(q) = q[1]
      /\ \A i \in 1..(Len(q) - 1) : Tail(q)[i] = q[i + 1]
  OBVIOUS
<1>2. Head(q) \in Jobs
  BY <1>1
<1>3. Has(q, j) => Head(q) = j \/ Has(Tail(q), j)
  <2>1. SUFFICES ASSUME NEW i \in 1..Len(q), q[i] = j, i # 1
                 PROVE  Has(Tail(q), j)
    BY <1>1 DEF Has
  <2>2. i - 1 \in 1..(Len(q) - 1) /\ (i - 1) + 1 = i
    BY <1>1, <2>1
  <2>3. Tail(q)[i - 1] = j
    BY <1>1, <2>1, <2>2
  <2> QED BY <1>1, <2>2, <2>3 DEF Has
<1>4. ASSUME NEW i \in 1..(Len(q) - 1)
      PROVE  i + 1 \in 1..Len(q) /\ i + 1 # 1 /\ Tail(q)[i] = q[i + 1]
  BY <1>1
<1>5. Head(q) = j \/ Has(Tail(q), j) => Has(q, j)
  BY <1>1, <1>4 DEF Has
<1>6. Once(q, j) => Once(Tail(q), j)
  <2>1. SUFFICES ASSUME Once(q, j), NEW i \in 1..(Len(q) - 1), NEW k \in 1..(Len(q) - 1),
                        Tail(q)[i] = j, Tail(q)[k] = j
                 PROVE  i = k
    BY <1>1 DEF Once
  <2>2. i + 1 = k + 1
    BY <1>4, <2>1 DEF Once
  <2> QED BY <2>2
<1>7. Once(q, j) /\ Head(q) = j => ~Has(Tail(q), j)
  <2>1. SUFFICES ASSUME Once(q, j), q[1] = j, NEW i \in 1..(Len(q) - 1), Tail(q)[i] = j
                 PROVE  FALSE
    BY <1>1 DEF Has
  <2>2. i + 1 = 1
    BY <1>1, <1>4, <2>1 DEF Once
  <2> QED BY <1>4, <2>2
<1> QED BY <1>1, <1>2, <1>3, <1>5, <1>6, <1>7

(* setFallbackActive keeps the flag and the queue in step, whatever queue  *)
(* it finds, as long as they were.                                         *)
LEMMA SetInStep ==
  ASSUME NEW queue \in Seq(Jobs), NEW b \in BOOLEAN,
         active \in BOOLEAN, deferred \in BOOLEAN,
         deferred <=> Has(queue, "update"), Once(queue, "update"),
         SetFallbackActive(b, queue)
  PROVE  /\ active' = b /\ deferred' \in BOOLEAN /\ jobs' \in Seq(Jobs)
         /\ deferred' <=> Has(jobs', "update")
         /\ Once(jobs', "update")
         /\ Has(jobs', "leave") <=> Has(queue, "leave")
         /\ deferred' = (deferred \/ b # active)
<1>1. "update" \in Jobs /\ "leave" \in Jobs
  BY DEF Jobs
<1>2. CASE b = active \/ deferred
  <2>1. jobs' = queue /\ deferred' = deferred /\ active' = b
    BY <1>2 DEF SetFallbackActive
  <2> QED BY <1>2, <2>1
<1>3. CASE b # active /\ ~deferred
  <2>1. jobs' = Append(queue, "update") /\ deferred' = TRUE /\ active' = b
    BY <1>3 DEF SetFallbackActive
  <2>2. /\ Append(queue, "update") \in Seq(Jobs) /\ Has(Append(queue, "update"), "update")
        /\ Has(Append(queue, "update"), "leave") <=> Has(queue, "leave")
    BY <1>1, HasAppend
  <2>3. Once(Append(queue, "update"), "update")
    BY <1>1, <1>3, OnceAppend
  <2> QED BY <1>3, <2>1, <2>2, <2>3
<1> QED BY <1>2, <1>3

LEMMA HasNothing ==
  ASSUME NEW j PROVE ~Has(<<>>, j) /\ Once(<<>>, j)
BY DEF Has, Once

(* What is remembered of a lost output is one of three words.              *)
Reasons == {"no", "start", "unplug"}

LEMMA Remembered == TypeOK /\ [Next]_vars => lost' \in Reasons
<1> SUFFICES ASSUME TypeOK, [Next]_vars PROVE lost' \in Reasons
  OBVIOUS
<1>1. (\E why \in Reasons : Remember(why)) \/ lost' = lost
  BY DEF Next, vars, Reasons, Connect, Disable, Unplug, Overlooked, Ready,
         LaunchTimeout, RenderFirst, RunUpdate, RunLeave
<1> QED BY <1>1 DEF Remember, TypeOK, Reasons

-------------------------------------------------------------------------------
LEMMA KeeperInit == Init => KeeperInv
<1> SUFFICES ASSUME Init PROVE KeeperInv
  OBVIOUS
<1>1. TypeOK
  <2>1. jobs \in Seq({"update", "leave"})
    BY DEF Init
  <2>2. {headless, ready, started, active, deferred, idling} \subseteq BOOLEAN
    BY DEF Init
  <2> QED BY <2>1, <2>2 DEF Init, TypeOK
<1>2. ~Has(jobs, "update") /\ Once(jobs, "update")
  BY HasNothing DEF Init
<1> QED BY <1>1, <1>2 DEF Init, KeeperInv, ActiveAlone, HasOutput

(* What a handler of an event leaves to the keeper: its flag, its queue.   *)
LEMMA DecidesInStep ==
  ASSUME KeeperInv, NEW b \in BOOLEAN,
         SetFallbackActive(b, jobs) \/ (Unaware /\ b = active)
  PROVE  /\ active' = b /\ deferred' \in BOOLEAN /\ jobs' \in Seq(Jobs)
         /\ deferred' <=> Has(jobs', "update")
         /\ Once(jobs', "update")
         /\ Has(jobs', "leave") <=> Has(jobs, "leave")
         /\ deferred' = (deferred \/ b # active)
<1>1. CASE SetFallbackActive(b, jobs)
  BY <1>1, SetInStep DEF KeeperInv, TypeOK, Jobs
<1>2. CASE Unaware /\ b = active
  BY <1>2 DEF KeeperInv, TypeOK, Unaware, Jobs
<1> QED BY <1>1, <1>2

LEMMA KeeperConnect ==
  ASSUME KeeperInv, lost' \in Reasons, NEW m \in Real, Connect(m) PROVE KeeperInv'
<1>1. active' = FALSE
  <2>1. CASE active
    BY <2>1, DecidesInStep DEF Connect
  <2>2. CASE ~active
    BY <2>2 DEF Connect, Unaware, KeeperInv, TypeOK, Reasons
  <2> QED BY <2>1, <2>2
<1>2. /\ deferred' \in BOOLEAN /\ jobs' \in Seq(Jobs) /\ Once(jobs', "update")
      /\ deferred' <=> Has(jobs', "update")
      /\ deferred' = (deferred \/ active)
  <2>1. SetFallbackActive(FALSE, jobs) \/ (Unaware /\ FALSE = active)
    BY DEF Connect, KeeperInv, TypeOK, Reasons
  <2> QED BY <2>1, DecidesInStep DEF KeeperInv, TypeOK, Reasons
<1>3. TypeOK'
  BY <1>1, <1>2 DEF Connect, KeeperInv, TypeOK, Jobs, Reasons
<1>4. ~deferred' => ~HasOutput'
  BY <1>2, FallbackAssumption DEF Connect, KeeperInv, HasOutput
<1> QED BY <1>1, <1>2, <1>3, <1>4 DEF KeeperInv, ActiveAlone

(* An output that goes: if it was the last one, active is set. *)
LEMMA KeeperRemoved ==
  ASSUME KeeperInv, lost' \in Reasons, NEW m \in Real, OnRemoved(m),
         monitors' = monitors \ {m}, present' \in SUBSET Real,
         monitors' \subseteq present' \cup {FALLBACK},
         UNCHANGED <<headless, ready, timer, started, idling>>
  PROVE  KeeperInv'
<1>1. CASE monitors \ {m} = {}
  <2>1. /\ active' = TRUE /\ deferred' \in BOOLEAN /\ jobs' \in Seq(Jobs)
        /\ deferred' <=> Has(jobs', "update")
        /\ Once(jobs', "update") /\ deferred' = (deferred \/ ~active)
    BY <1>1, DecidesInStep DEF OnRemoved, KeeperInv, TypeOK, Reasons
  <2>2. ~deferred' => ~headless'
    BY <1>1, <2>1, FallbackAssumption DEF KeeperInv, HasOutput
  <2>3. TypeOK'
    BY <2>1 DEF KeeperInv, TypeOK, Jobs, Reasons
  <2> QED BY <1>1, <2>1, <2>2, <2>3 DEF KeeperInv, ActiveAlone, HasOutput
<1>2. CASE monitors \ {m} # {}
  <2>1. UNCHANGED <<active, deferred, jobs>>
    BY <1>2 DEF OnRemoved, Unaware
  <2>2. HasOutput' <=> HasOutput
    BY FallbackAssumption DEF HasOutput
  <2> QED BY <2>1, <2>2 DEF KeeperInv, TypeOK, ActiveAlone, HasOutput, Reasons
<1> QED BY <1>1, <1>2

LEMMA KeeperTimeout == ASSUME KeeperInv, lost' \in Reasons, LaunchTimeout PROVE KeeperInv'
<1>1. CASE monitors \subseteq {FALLBACK}
  <2>1. /\ active' = TRUE /\ deferred' \in BOOLEAN /\ jobs' \in Seq(Jobs)
        /\ deferred' <=> Has(jobs', "update")
        /\ Once(jobs', "update") /\ deferred' = (deferred \/ ~active)
    BY <1>1, DecidesInStep DEF LaunchTimeout, KeeperInv, TypeOK, Reasons
  <2>2. TypeOK'
    BY <2>1 DEF LaunchTimeout, KeeperInv, TypeOK, Jobs, Reasons
  <2> QED BY <1>1, <2>1, <2>2 DEF LaunchTimeout, KeeperInv, ActiveAlone, HasOutput
<1>2. CASE ~(monitors \subseteq {FALLBACK})
  BY <1>2 DEF LaunchTimeout, Unaware, KeeperInv, TypeOK, ActiveAlone, HasOutput, Reasons
<1> QED BY <1>1, <1>2

LEMMA KeeperRender ==
  ASSUME KeeperInv, lost' \in Reasons, NEW m, RenderFirst(m) PROVE KeeperInv'
<1>1. /\ jobs' \in Seq(Jobs)
      /\ Has(jobs', "update") <=> Has(jobs, "update")
      /\ Once(jobs', "update")
  BY HasAppend, OnceAppend DEF RenderFirst, KeeperInv, TypeOK, Jobs, Reasons
<1> QED BY <1>1 DEF RenderFirst, KeeperInv, TypeOK, ActiveAlone, HasOutput, Jobs, Reasons

LEMMA KeeperUpdate == ASSUME KeeperInv, lost' \in Reasons, RunUpdate PROVE KeeperInv'
<1>1. /\ jobs' \in Seq(Jobs) /\ ~Has(jobs', "update") /\ Once(jobs', "update")
  BY HasTail DEF RunUpdate, IsNext, KeeperInv, TypeOK, Jobs, Reasons
<1>2. idling' \in BOOLEAN
  BY DEF RunUpdate, Ran
<1>3. TypeOK'
  BY <1>1, <1>2 DEF RunUpdate, Ran, KeeperInv, TypeOK, Jobs, Reasons
<1> QED BY <1>1, <1>3 DEF RunUpdate, Ran, KeeperInv, ActiveAlone, HasOutput

LEMMA KeeperLeave == ASSUME KeeperInv, lost' \in Reasons, RunLeave PROVE KeeperInv'
<1>1. /\ Tail(jobs) \in Seq(Jobs) /\ Once(Tail(jobs), "update")
      /\ deferred <=> Has(Tail(jobs), "update")
  BY HasTail DEF RunLeave, IsNext, KeeperInv, TypeOK, Jobs, Reasons
<1>2. /\ active' = FALSE /\ deferred' \in BOOLEAN /\ jobs' \in Seq(Jobs)
      /\ deferred' <=> Has(jobs', "update")
      /\ Once(jobs', "update") /\ deferred' = (deferred \/ active)
  BY <1>1, SetInStep DEF RunLeave, KeeperInv, TypeOK, Reasons
<1>3. TypeOK'
  BY <1>2 DEF RunLeave, Ran, KeeperInv, TypeOK, Jobs, Reasons
<1> QED BY <1>2, <1>3 DEF RunLeave, Ran, KeeperInv, ActiveAlone, HasOutput

LEMMA KeeperStep == KeeperInv /\ [Next]_vars => KeeperInv'
<1> SUFFICES ASSUME KeeperInv, [Next]_vars PROVE KeeperInv'
  OBVIOUS
<1>0. lost' \in Reasons
  BY Remembered DEF KeeperInv
<1>1. ASSUME NEW m \in Real, Connect(m) PROVE KeeperInv'
  BY <1>0, <1>1, KeeperConnect
<1>2. ASSUME NEW m \in Real, Disable(m) PROVE KeeperInv'
  BY <1>0, <1>2, KeeperRemoved DEF Disable, KeeperInv, TypeOK
<1>3. ASSUME NEW m \in Real, Unplug(m) PROVE KeeperInv'
  BY <1>0, <1>3, KeeperRemoved DEF Unplug, KeeperInv, TypeOK
<1>4. CASE Ready
  BY <1>0, <1>4 DEF Ready, loop, KeeperInv, TypeOK, Reasons, ActiveAlone, HasOutput
<1>5. CASE LaunchTimeout
  BY <1>0, <1>5, KeeperTimeout
<1>6. ASSUME NEW m \in Real \cup {FALLBACK}, RenderFirst(m) PROVE KeeperInv'
  BY <1>0, <1>6, KeeperRender
<1>7. CASE RunUpdate
  BY <1>0, <1>7, KeeperUpdate
<1>8. CASE RunLeave
  BY <1>0, <1>8, KeeperLeave
<1>9. CASE UNCHANGED vars
  BY <1>0, <1>9 DEF vars, loop, KeeperInv, TypeOK, Reasons, ActiveAlone, HasOutput
<1> QED BY <1>1, <1>2, <1>3, <1>4, <1>5, <1>6, <1>7, <1>8, <1>9 DEF Next

(* The variables of the keeper keep their types, in every behaviour and for*)
(* every set of outputs.                                                   *)
THEOREM TypeCorrect == Spec => []TypeOK
<1>1. KeeperInv => TypeOK
  BY DEF KeeperInv
<1> QED BY <1>1, KeeperInit, KeeperStep, PTL DEF Spec

(* FALLBACK is never held up beside another output by a keeper that is     *)
(* still active, however fast outputs come and go.                         *)
THEOREM AlwaysActiveAlone == Spec => []ActiveAlone
<1>1. KeeperInv => ActiveAlone
  BY DEF KeeperInv
<1> QED BY <1>1, KeeperInit, KeeperStep, PTL DEF Spec

(* With nothing left to doLater, the output is there exactly when the      *)
(* keeper is active; no switch is needed for this.                         *)
THEOREM AlwaysSettled == Spec => []Settled
<1>1. KeeperInv => Settled
  BY HasNothing DEF KeeperInv, Settled
<1> QED BY <1>1, KeeperInit, KeeperStep, PTL DEF Spec

-------------------------------------------------------------------------------
(***************************************************************************)
(* A keeper that is not active although no output of the backend is left,  *)
(* when it has been active before or its timer is done with, got there in  *)
(* one of the two ways that are remembered.                                *)
(***************************************************************************)
Backed == monitors \cap Real # {}

StandsIn == ~active /\ ~Backed /\ (HasOutput \/ timer = "gone") => lost # "no"

LEMMA StandsInInit == Init => StandsIn
BY DEF Init, StandsIn, HasOutput

(* An output that goes leaves the keeper inactive only if FALLBACK is on   *)
(* the list of those that remain.                                          *)
LEMMA StandsInRemoved ==
  ASSUME TypeOK, NEW m \in Real, OnRemoved(m), monitors' = monitors \ {m}, Overlooked
  PROVE  StandsIn'
<1>1. CASE active' \/ Backed'
  BY <1>1 DEF StandsIn
<1>2. CASE ~active' /\ ~Backed'
  <2>1. monitors \ {m} # {}
    BY <1>2 DEF OnRemoved, SetFallbackActive
  <2>2. HasOutput
    BY <1>2, <2>1 DEF Backed, HasOutput, TypeOK
  <2> QED BY <1>2, <2>2 DEF Overlooked, Remember, StandsIn, Backed
<1> QED BY <1>1, <1>2

LEMMA StandsInStep == KeeperInv /\ StandsIn /\ [Next]_vars => StandsIn'
<1> SUFFICES ASSUME KeeperInv, StandsIn, [Next]_vars PROVE StandsIn'
  OBVIOUS
<1>t. TypeOK
  BY DEF KeeperInv
<1>1. ASSUME NEW m \in Real, Connect(m) PROVE StandsIn'
  BY <1>1 DEF Connect, StandsIn, Backed
<1>2. ASSUME NEW m \in Real, Disable(m) PROVE StandsIn'
  BY <1>t, <1>2, StandsInRemoved DEF Disable
<1>3. ASSUME NEW m \in Real, Unplug(m) PROVE StandsIn'
  BY <1>t, <1>3, StandsInRemoved DEF Unplug
<1>4. CASE Ready
  BY <1>4 DEF Ready, Remember, StandsIn, Backed, HasOutput
<1>5. CASE LaunchTimeout
  <2>1. CASE monitors \subseteq {FALLBACK}
    BY <1>5, <2>1 DEF LaunchTimeout, SetFallbackActive, StandsIn
  <2>2. CASE ~(monitors \subseteq {FALLBACK})
    BY <1>t, <1>5, <2>2 DEF LaunchTimeout, StandsIn, Backed, TypeOK
  <2> QED BY <2>1, <2>2
<1>6. ASSUME NEW m \in Real \cup {FALLBACK}, RenderFirst(m) PROVE StandsIn'
  <2>1. HasOutput \/ Backed
    BY <1>6 DEF RenderFirst, HasOutput, Backed
  <2> QED BY <1>6, <2>1 DEF RenderFirst, Remember, StandsIn, Backed, HasOutput
<1>7. CASE RunUpdate
  <2>1. Backed' <=> Backed
    BY <1>7, FallbackAssumption DEF RunUpdate, Backed
  <2>2. ~active /\ HasOutput' => HasOutput
    BY <1>7 DEF RunUpdate, HasOutput
  <2>3. UNCHANGED <<active, timer>> /\ Remember("no")
    BY <1>7 DEF RunUpdate, Ran
  <2> QED BY <2>1, <2>2, <2>3 DEF Remember, StandsIn, Backed
<1>8. CASE RunLeave
  BY <1>8 DEF RunLeave, Remember, StandsIn, Backed
<1>9. CASE UNCHANGED vars
  BY <1>9 DEF vars, loop, StandsIn, Backed, HasOutput
<1> QED BY <1>1, <1>2, <1>3, <1>4, <1>5, <1>6, <1>7, <1>8, <1>9 DEF Next

(* With an idle loop and the launch timer done with, a session without an  *)
(* output lost it to the function that start left to the loop, or to an    *)
(* output that went before FALLBACK had left; no assumption is needed.     *)
THEOREM AlwaysAnOutput == Spec => []NeverStranded
<1>1. KeeperInv /\ StandsIn => NeverStranded
  BY HasNothing DEF KeeperInv, StandsIn, NeverStranded, Stranded, HasOutput, Backed
<1>2. KeeperInv /\ StandsIn /\ [Next]_vars => KeeperInv' /\ StandsIn'
  BY KeeperStep, StandsInStep
<1> QED BY <1>1, <1>2, KeeperInit, StandsInInit, PTL DEF Spec
===============================================================================
