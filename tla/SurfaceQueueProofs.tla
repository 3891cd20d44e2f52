------------------------- MODULE SurfaceQueueProofs -------------------------
(***************************************************************************)
(* Proofs about SurfaceQueue for every set of outputs and every bound: its *)
(* types and invariants, then what it promises a client. Frame callbacks   *)
(* are accounted for, the queue implements ContentUpdates, and paced       *)
(* states are presented one by one.                                        *)
(***************************************************************************)
EXTENDS SurfaceQueue, TLAPS

-----------------------------------------------------------------------------
(* Facts about the operators on queues.                                    *)

(* Dropping k states from the front leaves a queue of the others, each     *)
(* with at most the locks it had.                                          *)
LEMMA RestFacts ==
  ASSUME NEW q \in Seq(QueuedState), NEW b \in BOOLEAN, NEW k \in 0..Len(q)
  PROVE  /\ Rest(q, b, k) \in Seq(QueuedState)
         /\ Len(Rest(q, b, k)) = Len(q) - k
         /\ \A i \in 1..(Len(q) - k) :
              /\ Rest(q, b, k)[i].id = q[i + k].id
              /\ Rest(q, b, k)[i].barrierSet = q[i + k].barrierSet
              /\ Rest(q, b, k)[i].timer = q[i + k].timer
              /\ Rest(q, b, k)[i].frame = q[i + k].frame
              /\ Rest(q, b, k)[i].lockMask \subseteq q[i + k].lockMask
              /\ q[i + k].lockMask \ {FIFO} \subseteq Rest(q, b, k)[i].lockMask
PROOF
<1> DEFINE r == Rest(q, b, k)
<1>1. Len(q) - k \in Nat
  OBVIOUS
<1>2. \A i \in 1..(Len(q) - k) : i + k \in 1..Len(q) /\ q[i + k] \in QueuedState
  BY <1>1
<1>3. \A i \in 1..(Len(q) - k) :
        r[i] = IF i = 1 /\ ~BarrierBefore(q, b, k + 1)
               THEN [q[k + 1] EXCEPT !.lockMask = @ \ {FIFO}]
               ELSE q[i + k]
  BY DEF Rest
<1>4. ASSUME NEW i \in 1..(Len(q) - k)
      PROVE  /\ r[i] \in QueuedState
             /\ r[i].id = q[i + k].id
             /\ r[i].barrierSet = q[i + k].barrierSet
             /\ r[i].timer = q[i + k].timer
             /\ r[i].frame = q[i + k].frame
             /\ r[i].lockMask \subseteq q[i + k].lockMask
             /\ q[i + k].lockMask \ {FIFO} \subseteq r[i].lockMask
  <2>1. q[i + k] \in QueuedState /\ (i = 1 => q[k + 1] = q[i + k])
    BY <1>2
  <2>. HIDE DEF r
  <2>2. r[i] = q[i + k] \/ r[i] = [q[i + k] EXCEPT !.lockMask = @ \ {FIFO}]
    BY <1>3, <2>1
  <2>. QED
    BY <2>1, <2>2 DEF QueuedState
<1>5. r \in Seq(QueuedState) /\ Len(r) = Len(q) - k
  <2>1. r = [i \in 1..(Len(q) - k) |-> r[i]]
    BY DEF Rest
  <2>. HIDE DEF r
  <2>2. \A i \in 1..(Len(q) - k) : r[i] \in QueuedState
    BY <1>4
  <2>3. r \in [1..(Len(q) - k) -> QueuedState]
    BY <2>1, <2>2, Zenon
  <2>. QED
    BY <1>1, <2>3
<1>. QED
  BY <1>4, <1>5

(* What tryProcess leaves behind is well typed, and its front is locked.   *)
LEMMA TryProcessFacts ==
  ASSUME TypeOK, NEW q \in Seq(QueuedState), NEW b \in BOOLEAN, TryProcess(q, b)
  PROVE  /\ queue' \in Seq(QueuedState)
         /\ barrier' \in BOOLEAN /\ texture' \in BOOLEAN /\ mapped' \in BOOLEAN
         /\ callbacks' \subseteq Commits /\ answered' \subseteq Commits
         /\ applied' \in 0..MaxCommits
         /\ NoMissedWakeup'
PROOF
<1>1. PICK k \in 0..Len(q) :
        /\ \A i \in 1..k : Open(q, b, i)
        /\ k < Len(q) => ~Open(q, b, k + 1)
        /\ queue' = Rest(q, b, k)
        /\ CommitStates(q, b, k)
  BY DEF TryProcess
<1>2. \A i \in 1..Len(q) : q[i] \in QueuedState
  OBVIOUS
<1>3. \A i \in 1..k : i \in 1..Len(q) /\ q[i].id \in Commits
  BY <1>2 DEF QueuedState
<1>4. barrier' = BarrierBefore(q, b, k + 1)
  BY <1>1 DEF CommitStates
<1>5. barrier' \in BOOLEAN
  BY <1>4 DEF BarrierBefore
<1>6. texture' \in BOOLEAN /\ mapped' \in BOOLEAN
  BY <1>1 DEF CommitStates, TypeOK
<1>7. applied' \in 0..MaxCommits
  BY <1>1, <1>3 DEF CommitStates, TypeOK, Commits
<1>8. callbacks' \subseteq Commits /\ answered' \subseteq Commits
  BY <1>1, <1>3 DEF CommitStates, TypeOK
<1>9. NoMissedWakeup'
  <2>. SUFFICES ASSUME queue' # <<>> PROVE ~Open(queue', barrier', 1)
    BY DEF NoMissedWakeup, Open, BarrierBefore
  <2>1. k < Len(q)
    BY <1>1, RestFacts
  <2>2. ~Open(q, b, k + 1)
    BY <1>1, <2>1
  <2>3. queue'[1] = IF ~barrier' THEN [q[k + 1] EXCEPT !.lockMask = @ \ {FIFO}]
                                 ELSE q[k + 1]
    BY <1>1, <1>4, <2>1 DEF Rest
  <2>4. q[k + 1] \in QueuedState
    BY <1>2, <2>1
  <2>5. q[k + 1].lockMask # {} /\ (q[k + 1].lockMask = {FIFO} => barrier')
    BY <2>2, <1>4 DEF Open
  <2>6. queue'[1].lockMask = IF barrier' THEN q[k + 1].lockMask
                                         ELSE q[k + 1].lockMask \ {FIFO}
    BY <2>3, <2>4 DEF QueuedState
  <2>7. queue'[1].lockMask # {} /\ (queue'[1].lockMask = {FIFO} => barrier')
    BY <2>5, <2>6
  <2>8. BarrierBefore(queue', barrier', 1) = barrier'
    BY <1>5 DEF BarrierBefore
  <2>. QED
    BY <2>7, <2>8 DEF Open
<1>. QED
  BY <1>1, <1>5, <1>6, <1>7, <1>8, <1>9, RestFacts

(* A state tryProcess applies had at most a FIFO lock; what it leaves is   *)
(* still queued, in the same order, with at most the locks it had and with *)
(* every lock but FIFO.                                                    *)
LEMMA TryProcessKeeps ==
  ASSUME TypeOK, NEW q \in Seq(QueuedState), NEW b \in BOOLEAN, TryProcess(q, b),
         NEW n \in Int,
         \A i, j \in DOMAIN q : i < j => q[i].id < q[j].id,
         \A i \in DOMAIN q : applied < q[i].id /\ q[i].id <= n,
         applied <= n
  PROVE  /\ \A i, j \in DOMAIN queue' : i < j => queue'[i].id < queue'[j].id
         /\ \A i \in DOMAIN queue' : applied' < queue'[i].id /\ queue'[i].id <= n
         /\ applied' <= n
         /\ \A j \in DOMAIN queue' : \E i \in DOMAIN q :
              /\ queue'[j].id = q[i].id
              /\ queue'[j].timer = q[i].timer
              /\ queue'[j].lockMask \subseteq q[i].lockMask
              /\ q[i].lockMask \ {FIFO} \subseteq queue'[j].lockMask
         /\ \A i \in DOMAIN q :
              \/ q[i].lockMask \subseteq {FIFO}
              \/ \E j \in DOMAIN queue' : queue'[j].id = q[i].id
PROOF
<1>1. PICK k \in 0..Len(q) :
        /\ \A i \in 1..k : Open(q, b, i)
        /\ queue' = Rest(q, b, k)
        /\ CommitStates(q, b, k)
  BY DEF TryProcess
<1>2. /\ queue' \in Seq(QueuedState)
      /\ DOMAIN queue' = 1..(Len(q) - k)
      /\ \A j \in 1..(Len(q) - k) :
           /\ queue'[j].id = q[j + k].id
           /\ queue'[j].timer = q[j + k].timer
           /\ queue'[j].lockMask \subseteq q[j + k].lockMask
           /\ q[j + k].lockMask \ {FIFO} \subseteq queue'[j].lockMask
  <2>1. queue' \in Seq(QueuedState) /\ Len(queue') = Len(q) - k
    BY <1>1, RestFacts
  <2>2. DOMAIN queue' = 1..Len(queue')
    BY <2>1
  <2>. QED
    BY <1>1, <2>1, <2>2, RestFacts
<1>3. DOMAIN q = 1..Len(q) /\ \A i \in DOMAIN q : q[i] \in QueuedState /\ q[i].id \in Int
  <2>1. DOMAIN q = 1..Len(q) /\ \A i \in DOMAIN q : q[i] \in QueuedState
    OBVIOUS
  <2>. QED
    BY <2>1 DEF QueuedState, Commits
<1>4. \A j \in 1..(Len(q) - k) : j + k \in DOMAIN q
  BY <1>3
<1>5. applied' = IF k = 0 THEN applied ELSE q[k].id
  BY <1>1 DEF CommitStates
<1>6. \A i, j \in DOMAIN queue' : i < j => queue'[i].id < queue'[j].id
  <2>. SUFFICES ASSUME NEW i \in 1..(Len(q) - k), NEW j \in 1..(Len(q) - k), i < j
                PROVE  queue'[i].id < queue'[j].id
    BY <1>2
  <2>1. i + k \in DOMAIN q /\ j + k \in DOMAIN q /\ i + k < j + k
    BY <1>4
  <2>2. q[i + k].id < q[j + k].id
    BY <2>1
  <2>. QED
    BY <1>2, <2>2
<1>7. \A i \in DOMAIN queue' : applied' < queue'[i].id /\ queue'[i].id <= n
  <2>. SUFFICES ASSUME NEW i \in 1..(Len(q) - k)
                PROVE  applied' < queue'[i].id /\ queue'[i].id <= n
    BY <1>2
  <2>1. i + k \in DOMAIN q /\ queue'[i].id = q[i + k].id
    BY <1>2, <1>4
  <2>2. CASE k = 0
    BY <2>1, <2>2, <1>5
  <2>3. CASE k > 0
    <3>1. k \in DOMAIN q /\ k < i + k
      BY <1>3, <2>3
    <3>. QED
      BY <2>1, <2>3, <3>1, <1>5
  <2>. QED
    BY <2>2, <2>3
<1>8. applied' <= n
  BY <1>3, <1>5
<1>9. \A j \in DOMAIN queue' : \E i \in DOMAIN q :
        /\ queue'[j].id = q[i].id
        /\ queue'[j].timer = q[i].timer
        /\ queue'[j].lockMask \subseteq q[i].lockMask
        /\ q[i].lockMask \ {FIFO} \subseteq queue'[j].lockMask
  BY <1>2, <1>4
<1>10. ASSUME NEW i \in DOMAIN q
       PROVE  \/ q[i].lockMask \subseteq {FIFO}
              \/ \E j \in DOMAIN queue' : queue'[j].id = q[i].id
  <2>1. CASE i <= k
    BY <1>1, <1>3, <2>1 DEF Open
  <2>2. CASE i > k
    <3>1. i - k \in 1..(Len(q) - k) /\ (i - k) + k = i
      BY <1>3, <2>2
    <3>. QED
      BY <1>2, <3>1
  <2>. QED
    BY <1>3, <2>1, <2>2
<1>. QED
  BY <1>6, <1>7, <1>8, <1>9, <1>10

(* A step that runs tryProcess on q keeps the invariant when q is a queue  *)
(* the invariant would hold of.                                            *)
LEMMA ProcessPreserves ==
  ASSUME TypeOK, NEW q \in Seq(QueuedState), NEW b \in BOOLEAN, TryProcess(q, b),
         commits' \in Int,
         \A i, j \in DOMAIN q : i < j => q[i].id < q[j].id,
         \A i \in DOMAIN q : applied < q[i].id /\ q[i].id <= commits',
         applied <= commits',
         \A i \in DOMAIN q : q[i].id \in Unready' => FENCE \in q[i].lockMask,
         \A i \in DOMAIN q :
           /\ FENCE \in q[i].lockMask =>
                q[i].id \in {w.id : w \in waiters'} \cup brokenFds'
           /\ TIMER \in q[i].lockMask => q[i].timer,
         \A w \in waiters' :
           \/ w.id \in discarded' \cup forced'
           \/ \E i \in DOMAIN q : q[i].id = w.id
  PROVE  /\ InCommitOrder'
         /\ LocksHaveOwners'
         /\ FenceHeld'
         /\ \A w \in waiters' : w.id \in (QueuedIds \cup discarded \cup forced)'
PROOF
<1>1. \A i, j \in DOMAIN queue' : i < j => queue'[i].id < queue'[j].id
  BY TryProcessKeeps
<1>2. /\ \A i \in DOMAIN queue' : applied' < queue'[i].id /\ queue'[i].id <= commits'
      /\ applied' <= commits'
  BY TryProcessKeeps
<1>3. \A j \in DOMAIN queue' : \E i \in DOMAIN q :
        /\ queue'[j].id = q[i].id
        /\ queue'[j].timer = q[i].timer
        /\ queue'[j].lockMask \subseteq q[i].lockMask
        /\ q[i].lockMask \ {FIFO} \subseteq queue'[j].lockMask
  BY TryProcessKeeps
<1>4. \A i \in DOMAIN q :
        \/ q[i].lockMask \subseteq {FIFO}
        \/ \E j \in DOMAIN queue' : queue'[j].id = q[i].id
  BY TryProcessKeeps
<1>5. FENCE # FIFO
  BY DEF FENCE, FIFO
<1>6. InCommitOrder'
  BY <1>1, <1>2 DEF InCommitOrder
<1>7. LocksHaveOwners'
  <2>. SUFFICES ASSUME NEW j \in DOMAIN queue'
                PROVE  /\ FENCE \in queue'[j].lockMask =>
                            queue'[j].id \in {w.id : w \in waiters'} \cup brokenFds'
                       /\ TIMER \in queue'[j].lockMask => queue'[j].timer
    BY DEF LocksHaveOwners, FENCE, TIMER
  <2>1. PICK i \in DOMAIN q : /\ queue'[j].id = q[i].id
                              /\ queue'[j].timer = q[i].timer
                              /\ queue'[j].lockMask \subseteq q[i].lockMask
    BY <1>3
  <2>2. /\ FENCE \in q[i].lockMask =>
             q[i].id \in {w.id : w \in waiters'} \cup brokenFds'
        /\ TIMER \in q[i].lockMask => q[i].timer
    OBVIOUS
  <2>. QED
    BY <2>1, <2>2
<1>8. FenceHeld'
  <2>. SUFFICES ASSUME NEW j \in DOMAIN queue', queue'[j].id \in Unready'
                PROVE  FENCE \in queue'[j].lockMask
    BY DEF FenceHeld, FENCE
  <2>1. PICK i \in DOMAIN q : /\ queue'[j].id = q[i].id
                              /\ q[i].lockMask \ {FIFO} \subseteq queue'[j].lockMask
    BY <1>3
  <2>2. FENCE \in q[i].lockMask
    BY <2>1
  <2>. QED
    BY <1>5, <2>1, <2>2
<1>9. ASSUME NEW w \in waiters'
      PROVE  w.id \in (QueuedIds \cup discarded \cup forced)'
  <2>1. CASE w.id \in discarded' \cup forced'
    BY <2>1
  <2>2. CASE w.id \notin discarded' \cup forced'
    <3>1. PICK i \in DOMAIN q : q[i].id = w.id
      BY <2>2
    <3>2. q[i].id \in Unready'
      BY <2>2, <3>1 DEF Unready
    <3>3. FENCE \in q[i].lockMask
      BY <3>2
    <3>4. PICK j \in DOMAIN queue' : queue'[j].id = q[i].id
      BY <1>4, <1>5, <3>3
    <3>. QED
      BY <3>1, <3>4 DEF QueuedIds
  <2>. QED
    BY <2>1, <2>2
<1>. QED
  BY <1>6, <1>7, <1>8, <1>9

-----------------------------------------------------------------------------
(* The queues the actions hand to tryProcess.                              *)

(* A queue seen through its states: typed, ordered, owned, held.           *)
LEMMA QueueFacts ==
  ASSUME IInv
  PROVE  /\ queue \in Seq(QueuedState)
         /\ DOMAIN queue = 1..Len(queue)
         /\ \A i \in DOMAIN queue : queue[i] \in QueuedState
         /\ \A i, j \in DOMAIN queue : i < j => queue[i].id < queue[j].id
         /\ \A i \in DOMAIN queue : applied < queue[i].id /\ queue[i].id <= commits
         /\ applied <= commits
         /\ \A i \in DOMAIN queue : queue[i].id \in Unready => FENCE \in queue[i].lockMask
         /\ \A i \in DOMAIN queue :
              /\ FENCE \in queue[i].lockMask =>
                   queue[i].id \in {w.id : w \in waiters} \cup brokenFds
              /\ TIMER \in queue[i].lockMask => queue[i].timer
         /\ \A w \in waiters : w.id \in QueuedIds \cup discarded \cup forced
         /\ \A w \in waiters : w \in Waiter /\ w.id <= commits
         /\ \A id \in brokenFds \cup discarded \cup forced : id <= commits
PROOF
<1>1. queue \in Seq(QueuedState)
  BY DEF IInv, TypeOK
<1>2. DOMAIN queue = 1..Len(queue) /\ \A i \in DOMAIN queue : queue[i] \in QueuedState
  BY <1>1
<1>3. /\ \A i, j \in DOMAIN queue : i < j => queue[i].id < queue[j].id
      /\ \A i \in DOMAIN queue : applied < queue[i].id /\ queue[i].id <= commits
      /\ applied <= commits
  BY DEF IInv, InCommitOrder
<1>4. \A i \in DOMAIN queue : queue[i].id \in Unready => FENCE \in queue[i].lockMask
  BY DEF IInv, FenceHeld
<1>5. \A i \in DOMAIN queue :
        /\ FENCE \in queue[i].lockMask =>
             queue[i].id \in {w.id : w \in waiters} \cup brokenFds
        /\ TIMER \in queue[i].lockMask => queue[i].timer
  BY DEF IInv, LocksHaveOwners
<1>6. /\ \A w \in waiters : w.id \in QueuedIds \cup discarded \cup forced
      /\ \A w \in waiters : w \in Waiter /\ w.id <= commits
      /\ \A id \in brokenFds \cup discarded \cup forced : id <= commits
  BY DEF IInv, TypeOK, WaitersKnown
<1>. QED
  BY <1>1, <1>2, <1>3, <1>4, <1>5, <1>6

(* A queue that only lost locks.                                           *)
LEMMA LighterQueue ==
  ASSUME IInv, NEW q \in Seq(QueuedState), DOMAIN q = DOMAIN queue,
         \A i \in DOMAIN queue : q[i].id = queue[i].id
  PROVE  /\ \A i, j \in DOMAIN q : i < j => q[i].id < q[j].id
         /\ \A i \in DOMAIN q : applied < q[i].id /\ q[i].id <= commits
         /\ {q[i].id : i \in DOMAIN q} = QueuedIds
PROOF
<1>1. /\ \A i, j \in DOMAIN queue : i < j => queue[i].id < queue[j].id
      /\ \A i \in DOMAIN queue : applied < queue[i].id /\ queue[i].id <= commits
  BY QueueFacts
<1>. QED
  BY <1>1 DEF QueuedIds

(* The state of a commit goes behind everything that is queued.            *)
LEMMA AppendedQueue ==
  ASSUME IInv, NEW mask \in SUBSET LockReasons, FIFO \notin mask, TIMER \notin mask,
         commits + 1 \in Commits, pending.buffer # "null"
  PROVE  /\ NewState(mask) \in QueuedState
         /\ NewState(mask).id = commits + 1
         /\ FENCE \in NewState(mask).lockMask <=> FENCE \in mask
         /\ TIMER \in NewState(mask).lockMask => NewState(mask).timer
         /\ Append(queue, NewState(mask)) \in Seq(QueuedState)
         /\ DOMAIN Append(queue, NewState(mask)) = 1..(Len(queue) + 1)
         /\ \A i \in DOMAIN queue : Append(queue, NewState(mask))[i] = queue[i]
         /\ Append(queue, NewState(mask))[Len(queue) + 1] = NewState(mask)
         /\ Len(queue) \in Nat
PROOF
<1>1. pending \in PendingState
  BY DEF IInv, TypeOK
<1>2. pending.buffer \in {"unset", "shm", "dmabuf"} /\ pending.frame \in BOOLEAN
      /\ pending.barrierSet \in BOOLEAN /\ pending.timeout \in BOOLEAN
  BY <1>1 DEF PendingState
<1>3. TimerLocks \in BOOLEAN
  BY <1>2 DEF TimerLocks, IsTearing
<1>4. DEFINE m == mask \cup (IF FifoLocks THEN {FIFO} ELSE {})
                       \cup (IF TimerLocks THEN {TIMER} ELSE {})
<1>5. m \in SUBSET LockReasons
  BY DEF LockReasons
<1>6. NewState(mask) =
        [id |-> commits + 1, buffer |-> pending.buffer, frame |-> pending.frame,
         barrierSet |-> pending.barrierSet, timer |-> TimerLocks, lockMask |-> m]
  BY DEF NewState
<1>7. (FENCE \in m <=> FENCE \in mask) /\ (TIMER \in m => TimerLocks)
  BY DEF FENCE, FIFO, TIMER
<1>. HIDE DEF m
<1>8. NewState(mask) \in QueuedState
  BY <1>2, <1>3, <1>5, <1>6 DEF QueuedState
<1>9. queue \in Seq(QueuedState) /\ DOMAIN queue = 1..Len(queue)
  BY QueueFacts
<1>. QED
  BY <1>6, <1>7, <1>8, <1>9
-----------------------------------------------------------------------------
(* The invariant holds initially.                                          *)
THEOREM InitIInv == Init => IInv
PROOF
<1>. SUFFICES ASSUME Init PROVE IInv
  OBVIOUS
<1>1. TypeOK
  <2>1. pending \in PendingState
    BY DEF Init, PendingState, ResetState
  <2>2. queue \in Seq(QueuedState)
    BY DEF Init
  <2>3. /\ syncobj \in BOOLEAN /\ acquire \in BOOLEAN /\ fifoObj \in BOOLEAN
        /\ barrier \in BOOLEAN /\ texture \in BOOLEAN /\ mapped \in BOOLEAN
    BY DEF Init
  <2>4. /\ life \in {"live", "dying", "gone"}
        /\ commits \in 0..MaxCommits /\ applied \in 0..MaxCommits
    BY BoundsAssumption DEF Init
  <2>5. /\ callbacks \subseteq Commits /\ answered \subseteq Commits
        /\ waiters \subseteq Waiter /\ tearing \subseteq Outputs
        /\ discarded \subseteq Commits /\ forced \subseteq Commits
        /\ brokenFds \subseteq Commits
    BY DEF Init
  <2>. QED
    BY <2>1, <2>2, <2>3, <2>4, <2>5 DEF TypeOK
<1>2. NoMissedWakeup /\ InCommitOrder /\ LocksHaveOwners /\ FenceHeld
  BY DEF Init, NoMissedWakeup, InCommitOrder, LocksHaveOwners, FenceHeld
<1>3. WaitersKnown
  BY DEF Init, WaitersKnown
<1>. QED
  BY <1>1, <1>2, <1>3 DEF IInv

(* The invariant only looks at these variables.                            *)
LEMMA Untouched ==
  ASSUME IInv, TypeOK',
         UNCHANGED <<queue, barrier, applied, waiters, brokenFds, forced>>,
         commits' \in Int, commits <= commits',
         discarded \subseteq discarded',
         \A id \in discarded' : id <= commits'
  PROVE  IInv'
PROOF
<1>1. NoMissedWakeup'
  BY DEF IInv, NoMissedWakeup, Open, BarrierBefore
<1>2. commits \in Int /\ applied \in Int
  BY DEF IInv, TypeOK
<1>3. \A i \in DOMAIN queue : queue[i].id \in Int
  BY QueueFacts DEF QueuedState, Commits
<1>4. InCommitOrder'
  BY <1>2, <1>3 DEF IInv, InCommitOrder
<1>5. LocksHaveOwners' /\ FenceHeld'
  BY DEF IInv, LocksHaveOwners, FenceHeld, Unready
<1>6. WaitersKnown'
  <2>1. \A w \in waiters : w.id \in Int
    BY DEF IInv, TypeOK, Waiter, Commits
  <2>2. \A id \in brokenFds \cup forced : id \in Int /\ id <= commits
    BY QueueFacts DEF IInv, TypeOK, Commits
  <2>. QED
    BY <1>2, <2>1, <2>2 DEF IInv, WaitersKnown, QueuedIds
<1>. QED
  BY <1>1, <1>4, <1>5, <1>6 DEF IInv

(* Requests, early rejections, callbacks, tearing, unmap: what is queued   *)
(* and what it waits for stay as they are.                                 *)
LEMMA QuietSteps ==
  ASSUME IInv,
         \/ Attach \/ FrameRequest \/ SetBarrier \/ WaitBarrier \/ SetTimestamp
         \/ GetFifo \/ DestroyFifo \/ GetSyncobj \/ SetAcquirePoint
         \/ CommitRejectedEarly \/ CommitRejected
         \/ SendFrame \/ Unmap
         \/ \E o \in Outputs : ToggleTearing(o)
         \/ UNCHANGED vars
  PROVE  IInv'
PROOF
<1>. USE DEF IInv, TypeOK
<1>1. ASSUME NEW p \in PendingState, Request(p) PROVE IInv'
  BY <1>1, Untouched, QueueFacts DEF Request, surface
<1>2. CASE Attach
  <2>1. PICK b \in {"null", "shm", "dmabuf"} : Request([pending EXCEPT !.buffer = b])
    BY <1>2 DEF Attach
  <2>2. [pending EXCEPT !.buffer = b] \in PendingState
    BY DEF PendingState
  <2>. QED
    BY <1>1, <2>1, <2>2
<1>3. CASE FrameRequest
  <2>1. [pending EXCEPT !.frame = TRUE] \in PendingState
    BY DEF PendingState
  <2>. QED
    BY <1>1, <1>3, <2>1 DEF FrameRequest
<1>4. CASE SetBarrier
  <2>1. [pending EXCEPT !.barrierSet = TRUE] \in PendingState
    BY DEF PendingState
  <2>. QED
    BY <1>1, <1>4, <2>1 DEF SetBarrier
<1>5. CASE WaitBarrier
  <2>1. [pending EXCEPT !.surfaceLocked = TRUE] \in PendingState
    BY DEF PendingState
  <2>2. [pending EXCEPT !.fifoScheduled = @ \/ ~IsTearing] \in PendingState
    BY DEF PendingState, IsTearing
  <2>. QED
    BY <1>1, <1>5, <2>1, <2>2 DEF WaitBarrier
<1>6. CASE SetTimestamp
  <2>1. [pending EXCEPT !.timeout = TRUE] \in PendingState
    BY DEF PendingState
  <2>. QED
    BY <1>1, <1>6, <2>1 DEF SetTimestamp
<1>7. CASE GetFifo \/ DestroyFifo \/ GetSyncobj \/ SetAcquirePoint
  <2>1. UNCHANGED <<life, pending, surface, waiters, tearing, commits, discarded,
                    forced, brokenFds>>
    BY <1>7 DEF GetFifo, DestroyFifo, GetSyncobj, SetAcquirePoint
  <2>2. syncobj' \in BOOLEAN /\ acquire' \in BOOLEAN /\ fifoObj' \in BOOLEAN
    BY <1>7 DEF GetFifo, DestroyFifo, GetSyncobj, SetAcquirePoint
  <2>3. TypeOK'
    BY <2>1, <2>2 DEF surface
  <2>4. \A id \in discarded' : id <= commits'
    BY <2>1, QueueFacts
  <2>. QED
    BY <2>1, <2>3, <2>4, Untouched DEF surface
<1>8. CASE CommitRejectedEarly
  <2>1. [pending EXCEPT !.buffer = IF @ = "unset" THEN @ ELSE "null"] \in PendingState
    BY DEF PendingState
  <2>. QED
    BY <1>8, <2>1, Untouched, QueueFacts DEF CommitRejectedEarly, surface
<1>9. CASE CommitRejected
  <2>1. ResetState \in PendingState
    BY DEF PendingState, ResetState
  <2>2. commits + 1 \in Commits /\ commits' = commits + 1
    BY <1>9, BoundsAssumption DEF CommitRejected, Commits
  <2>3. TypeOK'
    BY <1>9, <2>1, <2>2 DEF CommitRejected, surface, Commits
  <2>4. \A id \in discarded' : id <= commits'
    BY <1>9, <2>2, QueueFacts DEF CommitRejected, Commits
  <2>. QED
    BY <1>9, <2>2, <2>3, <2>4, Untouched DEF CommitRejected, surface
<1>10. CASE SendFrame \/ Unmap
  <2>1. UNCHANGED <<life, client, queue, barrier, texture, applied, waiters,
                    tearing, commits, discarded, forced, brokenFds>>
    BY <1>10 DEF SendFrame, Unmap
  <2>2. mapped' \in BOOLEAN /\ callbacks' \subseteq Commits /\ answered' \subseteq Commits
    BY <1>10 DEF SendFrame, Unmap
  <2>3. TypeOK'
    BY <2>1, <2>2 DEF client
  <2>4. \A id \in discarded' : id <= commits'
    BY <2>1, QueueFacts
  <2>. QED
    BY <2>1, <2>3, <2>4, Untouched
<1>11. CASE \E o \in Outputs : ToggleTearing(o)
  BY <1>11, Untouched, QueueFacts DEF ToggleTearing, client, surface
<1>12. CASE UNCHANGED vars
  BY <1>12, Untouched, QueueFacts DEF vars, client, surface
<1>. QED
  BY <1>2, <1>3, <1>4, <1>5, <1>6, <1>7, <1>8, <1>9, <1>10, <1>11, <1>12
(* The null commit and the destruction of the surface empty the queue.     *)
LEMMA ClearingSteps ==
  ASSUME IInv, CommitNull \/ Destroy
  PROVE  IInv'
PROOF
<1>1. QueuedIds \subseteq Commits /\ \A id \in QueuedIds : id <= commits
  BY QueueFacts DEF QueuedIds, QueuedState
<1>2. commits \in Int /\ applied \in Int /\ applied <= commits
  BY QueueFacts DEF IInv, TypeOK
<1>3. queue' = <<>> /\ UNCHANGED <<waiters, forced, brokenFds>>
      /\ discarded' = discarded \cup QueuedIds
  BY DEF CommitNull, Destroy
<1>4. commits' \in Int /\ commits <= commits' /\ applied' <= commits'
  <2>1. CASE CommitNull
    BY <1>2, <2>1 DEF CommitNull
  <2>2. CASE Destroy
    BY <1>2, <2>2 DEF Destroy
  <2>. QED
    BY <2>1, <2>2
<1>5. TypeOK'
  <2>1. queue' \in Seq(QueuedState)
    BY <1>3
  <2>2. CASE CommitNull
    <3>1. commits + 1 \in Commits
      BY <1>2, <2>2, BoundsAssumption DEF CommitNull, Commits, IInv, TypeOK
    <3>2. pending' \in PendingState
      BY <2>2 DEF CommitNull, PendingState, ResetState
    <3>3. barrier' \in BOOLEAN /\ texture' \in BOOLEAN /\ mapped' \in BOOLEAN
      BY <2>2 DEF CommitNull, IInv, TypeOK
    <3>4. commits' \in 0..MaxCommits /\ applied' \in 0..MaxCommits
      BY <2>2, <3>1, BoundsAssumption DEF CommitNull, Commits
    <3>. QED
      BY <1>1, <1>3, <2>1, <2>2, <3>1, <3>2, <3>3, <3>4
         DEF CommitNull, IInv, TypeOK
  <2>3. CASE Destroy
    BY <1>1, <1>3, <2>1, <2>3 DEF Destroy, client, IInv, TypeOK
  <2>. QED
    BY <2>2, <2>3
<1>6. NoMissedWakeup' /\ InCommitOrder' /\ LocksHaveOwners' /\ FenceHeld'
  BY <1>3, <1>4 DEF NoMissedWakeup, InCommitOrder, LocksHaveOwners, FenceHeld
<1>7. WaitersKnown'
  <2>1. \A w \in waiters : w.id \in Int
    BY DEF IInv, TypeOK, Waiter, Commits
  <2>2. \A id \in brokenFds \cup discarded \cup forced : id \in Int /\ id <= commits
    BY QueueFacts DEF IInv, TypeOK, Commits
  <2>3. ASSUME NEW id \in discarded' PROVE id <= commits'
    <3>1. id \in discarded \cup QueuedIds
      BY <1>3
    <3>2. CASE id \in discarded
      BY <2>2, <3>2, <1>2, <1>4
    <3>3. CASE id \in QueuedIds
      <4>1. id \in Int /\ id <= commits
        BY <1>1, <3>3, BoundsAssumption DEF Commits
      <4>. QED
        BY <4>1, <1>2, <1>4
    <3>. QED
      BY <3>1, <3>2, <3>3
  <2>. QED
    BY <1>2, <1>3, <1>4, <2>1, <2>2, <2>3 DEF IInv, WaitersKnown
<1>. QED
  BY <1>5, <1>6, <1>7 DEF IInv

(* A commit that waits for a fence goes behind the queue, locked.          *)
LEMMA CommitWaitsStep ==
  ASSUME IInv, CommitWaits
  PROVE  IInv'
PROOF
<1> DEFINE s == NewState({FENCE})
<1>1. /\ commits \in 0..MaxCommits /\ commits < MaxCommits
      /\ commits' = commits + 1 /\ pending.buffer # "null"
      /\ queue' = Append(queue, s)
      /\ UNCHANGED <<life, syncobj, fifoObj, tearing, discarded, brokenFds, barrier,
                     texture, callbacks, mapped, applied, answered, forced>>
  BY DEF CommitWaits, Enqueue, IInv, TypeOK
<1>2. commits + 1 \in Commits
  BY <1>1, BoundsAssumption DEF Commits
<1>3. {FENCE} \in SUBSET LockReasons /\ FIFO \notin {FENCE} /\ TIMER \notin {FENCE}
  BY DEF FENCE, FIFO, TIMER, LockReasons
<1>4. /\ s \in QueuedState /\ s.id = commits + 1
      /\ FENCE \in s.lockMask /\ (TIMER \in s.lockMask => s.timer)
      /\ queue' \in Seq(QueuedState)
      /\ DOMAIN queue' = 1..(Len(queue) + 1) /\ Len(queue) \in Nat
      /\ \A i \in DOMAIN queue : queue'[i] = queue[i]
      /\ queue'[Len(queue) + 1] = s
  BY <1>1, <1>2, <1>3, AppendedQueue
<1>. HIDE DEF s
<1>5. DOMAIN queue = 1..Len(queue)
  BY QueueFacts
<1>6. PICK left \in 0..MaxFds :
        waiters' = waiters \cup {[id |-> commits + 1, left |-> left]}
  <2>1. FencesOf = {1} \/ FencesOf = 0..MaxFds \/ FencesOf = {0}
    BY DEF FencesOf
  <2>2. acquire => FencesOf = {1}
    BY DEF FencesOf
  <2>3. PICK n \in FencesOf : \E unsignalled \in 1..n :
          waiters' = waiters \cup {[id |-> commits + 1, left |-> unsignalled - 1]}
    BY DEF CommitWaits
  <2>4. PICK u \in 1..n :
          waiters' = waiters \cup {[id |-> commits + 1, left |-> u - 1]}
    BY <2>3
  <2>5. u - 1 \in 0..MaxFds
    BY <2>1, <2>4, BoundsAssumption
  <2>. QED
    BY <2>4, <2>5
<1> DEFINE w0 == [id |-> commits + 1, left |-> left]
<1>7. w0 \in Waiter /\ w0.id = commits + 1
  BY <1>2 DEF Waiter
<1>8. waiters' = waiters \cup {w0}
  BY <1>6
<1>. HIDE DEF w0
<1>9. \A w \in waiters : w \in Waiter /\ w.id \in Int /\ w.id <= commits
  BY QueueFacts DEF Waiter, Commits
<1>10. TypeOK'
  <2>1. pending' = ResetState /\ acquire' = FALSE
    BY DEF CommitWaits, Enqueue
  <2>2. pending' \in PendingState
    BY <2>1 DEF PendingState, ResetState
  <2>3. commits' \in 0..MaxCommits
    BY <1>1, BoundsAssumption
  <2>4. waiters' \subseteq Waiter
    BY <1>7, <1>8, <1>9
  <2>. QED
    BY <1>1, <1>4, <2>1, <2>2, <2>3, <2>4 DEF IInv, TypeOK
<1>11. NoMissedWakeup'
  <2>1. CASE queue = <<>>
    <3>1. queue'[1].lockMask # {} /\ queue'[1].lockMask # {FIFO}
      BY <1>4, <2>1 DEF FENCE, FIFO
    <3>. QED
      BY <3>1 DEF NoMissedWakeup, Open
  <2>2. CASE queue # <<>>
    <3>1. 1 \in DOMAIN queue /\ queue'[1] = queue[1]
      BY <1>4, <1>5, <2>2, QueueFacts
    <3>. QED
      BY <1>1, <2>2, <3>1 DEF IInv, NoMissedWakeup, Open, BarrierBefore
  <2>. QED
    BY <2>1, <2>2
<1>12. InCommitOrder'
  <2>1. /\ \A i, j \in DOMAIN queue : i < j => queue[i].id < queue[j].id
        /\ \A i \in DOMAIN queue : applied < queue[i].id /\ queue[i].id <= commits
        /\ \A i \in DOMAIN queue : queue[i].id \in Int
        /\ applied <= commits /\ applied \in Int
    BY QueueFacts DEF QueuedState, Commits, IInv, TypeOK
  <2>2. \A i \in DOMAIN queue' : i \in DOMAIN queue \/ i = Len(queue) + 1
    BY <1>4, <1>5
  <2>3. \A i \in DOMAIN queue' : applied' < queue'[i].id /\ queue'[i].id <= commits'
    BY <1>1, <1>4, <2>1, <2>2
  <2>4. ASSUME NEW i \in DOMAIN queue', NEW j \in DOMAIN queue', i < j
        PROVE  queue'[i].id < queue'[j].id
    <3>1. i \in DOMAIN queue
      BY <1>4, <1>5, <2>4
    <3>2. CASE j \in DOMAIN queue
      BY <1>4, <2>1, <2>4, <3>1, <3>2
    <3>3. CASE j = Len(queue) + 1
      <4>1. queue'[i].id <= commits /\ queue'[j].id = commits + 1 /\ queue'[i].id \in Int
        BY <1>4, <2>1, <3>1, <3>3
      <4>. QED
        BY <1>1, <4>1
    <3>. QED
      BY <2>2, <3>2, <3>3
  <2>. QED
    BY <1>1, <2>1, <2>3, <2>4 DEF InCommitOrder
<1>13. LocksHaveOwners'
  <2>. SUFFICES ASSUME NEW i \in DOMAIN queue'
                PROVE  /\ FENCE \in queue'[i].lockMask =>
                            queue'[i].id \in {w.id : w \in waiters'} \cup brokenFds'
                       /\ TIMER \in queue'[i].lockMask => queue'[i].timer
    BY DEF LocksHaveOwners, FENCE, TIMER
  <2>1. CASE i \in DOMAIN queue
    <3>1. queue'[i] = queue[i]
      BY <1>4, <2>1
    <3>2. /\ FENCE \in queue[i].lockMask =>
               queue[i].id \in {w.id : w \in waiters} \cup brokenFds
          /\ TIMER \in queue[i].lockMask => queue[i].timer
      BY <2>1, QueueFacts
    <3>. QED
      BY <1>1, <1>8, <3>1, <3>2
  <2>2. CASE i = Len(queue) + 1
    <3>1. queue'[i] = s /\ w0 \in waiters' /\ s.id = w0.id
      BY <1>4, <1>7, <1>8, <2>2
    <3>. QED
      BY <1>4, <3>1
  <2>. QED
    BY <1>4, <1>5, <2>1, <2>2
<1>14. FenceHeld'
  <2>. SUFFICES ASSUME NEW i \in DOMAIN queue', queue'[i].id \in Unready'
                PROVE  FENCE \in queue'[i].lockMask
    BY DEF FenceHeld, FENCE
  <2>1. CASE i \in DOMAIN queue
    <3>1. queue'[i] = queue[i] /\ queue[i].id <= commits /\ queue[i].id \in Int
      BY <1>4, <2>1, QueueFacts DEF QueuedState, Commits
    <3>2. queue[i].id \in Unready
      BY <1>1, <1>7, <1>8, <3>1 DEF Unready
    <3>. QED
      BY <2>1, <3>1, <3>2, QueueFacts
  <2>2. CASE i = Len(queue) + 1
    BY <1>4, <2>2
  <2>. QED
    BY <1>4, <1>5, <2>1, <2>2
<1>15. WaitersKnown'
  <2>1. \A id \in brokenFds \cup discarded \cup forced : id \in Int /\ id <= commits
    BY QueueFacts DEF IInv, TypeOK, Commits
  <2>2. \A v, w \in waiters : v.id = w.id => v = w
    BY DEF IInv, WaitersKnown
  <2>3. \A v, w \in waiters' : v.id = w.id => v = w
    BY <1>1, <1>7, <1>8, <1>9, <2>2
  <2>4. QueuedIds \subseteq QueuedIds' /\ commits + 1 \in QueuedIds'
    BY <1>4, <1>5 DEF QueuedIds
  <2>5. \A w \in waiters : w.id \in QueuedIds \cup discarded \cup forced
    BY QueueFacts
  <2>6. \A w \in waiters' : w.id \in (QueuedIds \cup discarded \cup forced)'
    BY <1>1, <1>7, <1>8, <2>4, <2>5
  <2>7. \A w \in waiters' : w.id <= commits' /\ w.id \notin brokenFds'
    BY <1>1, <1>7, <1>8, <1>9, <2>1 DEF IInv, WaitersKnown
  <2>8. \A id \in (brokenFds \cup discarded \cup forced)' : id <= commits'
    BY <1>1, <2>1
  <2>. QED
    BY <2>3, <2>6, <2>7, <2>8 DEF WaitersKnown
<1>. QED
  BY <1>10, <1>11, <1>12, <1>13, <1>14, <1>15 DEF IInv
(* unlock and unlockFirst only take locks away.                            *)
LEMMA UnlockedFacts ==
  ASSUME IInv, NEW w \in waiters
  PROVE  /\ Unlocked(queue, w.id, FENCE) \in Seq(QueuedState)
         /\ DOMAIN Unlocked(queue, w.id, FENCE) = DOMAIN queue
         /\ \A i \in DOMAIN queue :
              /\ Unlocked(queue, w.id, FENCE)[i].id = queue[i].id
              /\ Unlocked(queue, w.id, FENCE)[i].timer = queue[i].timer
              /\ Unlocked(queue, w.id, FENCE)[i].lockMask =
                   IF queue[i].id = w.id THEN queue[i].lockMask \ {FENCE}
                                       ELSE queue[i].lockMask
PROOF
<1> DEFINE u == Unlocked(queue, w.id, FENCE)
<1>1. /\ DOMAIN queue = 1..Len(queue) /\ Len(queue) \in Nat
      /\ \A i \in DOMAIN queue : queue[i] \in QueuedState
  BY QueueFacts
<1>2. \A i \in DOMAIN queue :
        u[i] = IF queue[i].id = w.id
               THEN [queue[i] EXCEPT !.lockMask = @ \ {FENCE}] ELSE queue[i]
  BY DEF Unlocked
<1>3. u = [i \in 1..Len(queue) |-> u[i]] /\ DOMAIN u = DOMAIN queue
  BY <1>1 DEF Unlocked
<1>. HIDE DEF u
<1>4. ASSUME NEW i \in DOMAIN queue
      PROVE  /\ u[i] \in QueuedState
             /\ u[i].id = queue[i].id
             /\ u[i].timer = queue[i].timer
             /\ u[i].lockMask = IF queue[i].id = w.id THEN queue[i].lockMask \ {FENCE}
                                                    ELSE queue[i].lockMask
  <2>1. queue[i] \in QueuedState
    BY <1>1
  <2>2. CASE queue[i].id = w.id
    <3>1. u[i] = [queue[i] EXCEPT !.lockMask = @ \ {FENCE}]
      BY <1>2, <2>2
    <3>. QED
      BY <2>1, <2>2, <3>1 DEF QueuedState
  <2>3. CASE queue[i].id # w.id
    BY <1>2, <2>1, <2>3
  <2>. QED
    BY <2>2, <2>3
<1>5. u \in Seq(QueuedState)
  <2>1. \A i \in 1..Len(queue) : u[i] \in QueuedState
    BY <1>1, <1>4
  <2>. QED
    BY <1>1, <1>3, <2>1
<1>. QED
  BY <1>3, <1>4, <1>5 DEF u

(* unlockFirst changes lock masks only: no state, timer or order.          *)
LEMMA UnlockedFirstFacts ==
  ASSUME IInv, NEW reasons
  PROVE  /\ UnlockedFirst(queue, reasons) \in Seq(QueuedState)
         /\ DOMAIN UnlockedFirst(queue, reasons) = DOMAIN queue
         /\ \A i \in DOMAIN queue :
              /\ UnlockedFirst(queue, reasons)[i].id = queue[i].id
              /\ UnlockedFirst(queue, reasons)[i].timer = queue[i].timer
              /\ UnlockedFirst(queue, reasons)[i].lockMask =
                   IF i \in FirstLocked(queue, reasons) THEN queue[i].lockMask \ reasons
                                                        ELSE queue[i].lockMask
PROOF
<1> DEFINE u == UnlockedFirst(queue, reasons)
<1>1. /\ DOMAIN queue = 1..Len(queue) /\ Len(queue) \in Nat
      /\ \A i \in DOMAIN queue : queue[i] \in QueuedState
  BY QueueFacts
<1>2. \A i \in DOMAIN queue :
        u[i] = IF i \in FirstLocked(queue, reasons)
               THEN [queue[i] EXCEPT !.lockMask = @ \ reasons] ELSE queue[i]
  BY DEF UnlockedFirst
<1>3. u = [i \in 1..Len(queue) |-> u[i]] /\ DOMAIN u = DOMAIN queue
  BY <1>1 DEF UnlockedFirst
<1>. HIDE DEF u
<1>4. ASSUME NEW i \in DOMAIN queue
      PROVE  /\ u[i] \in QueuedState
             /\ u[i].id = queue[i].id
             /\ u[i].timer = queue[i].timer
             /\ u[i].lockMask = IF i \in FirstLocked(queue, reasons)
                                THEN queue[i].lockMask \ reasons ELSE queue[i].lockMask
  <2>1. queue[i] \in QueuedState
    BY <1>1
  <2>2. CASE i \in FirstLocked(queue, reasons)
    <3>1. u[i] = [queue[i] EXCEPT !.lockMask = @ \ reasons]
      BY <1>2, <2>2
    <3>. QED
      BY <2>1, <2>2, <3>1 DEF QueuedState
  <2>3. CASE i \notin FirstLocked(queue, reasons)
    BY <1>2, <2>1, <2>3
  <2>. QED
    BY <2>2, <2>3
<1>5. u \in Seq(QueuedState)
  <2>1. \A i \in 1..Len(queue) : u[i] \in QueuedState
    BY <1>1, <1>4
  <2>. QED
    BY <1>1, <1>3, <2>1
<1>. QED
  BY <1>3, <1>4, <1>5 DEF u

(* Steps that open locks of queued states and run tryProcess, with nobody  *)
(* new to wait for.                                                        *)
LEMMA ReleasePreserves ==
  ASSUME IInv, NEW q \in Seq(QueuedState), NEW b \in BOOLEAN, TryProcess(q, b),
         DOMAIN q = DOMAIN queue,
         \A i \in DOMAIN queue : q[i].id = queue[i].id,
         UNCHANGED <<life, client, tearing, commits, discarded, brokenFds>>,
         waiters' \subseteq waiters, forced \subseteq forced', forced' \subseteq Commits,
         \A id \in forced' : id <= commits,
         \A i \in DOMAIN q : q[i].id \in Unready' => FENCE \in q[i].lockMask,
         \A i \in DOMAIN q :
           /\ FENCE \in q[i].lockMask =>
                q[i].id \in {w.id : w \in waiters'} \cup brokenFds'
           /\ TIMER \in q[i].lockMask => q[i].timer
  PROVE  IInv'
PROOF
<1>1. /\ \A i, j \in DOMAIN q : i < j => q[i].id < q[j].id
      /\ \A i \in DOMAIN q : applied < q[i].id /\ q[i].id <= commits'
      /\ {q[i].id : i \in DOMAIN q} = QueuedIds
  BY LighterQueue
<1>2. applied <= commits' /\ commits' \in Int /\ TypeOK
  BY QueueFacts DEF IInv, TypeOK
<1>3. \A w \in waiters' :
        \/ w.id \in discarded' \cup forced'
        \/ \E i \in DOMAIN q : q[i].id = w.id
  BY <1>1, QueueFacts
<1>4. /\ InCommitOrder' /\ LocksHaveOwners' /\ FenceHeld'
      /\ \A w \in waiters' : w.id \in (QueuedIds \cup discarded \cup forced)'
  BY <1>1, <1>2, <1>3, ProcessPreserves
<1>5. NoMissedWakeup'
  BY <1>2, TryProcessFacts
<1>6. TypeOK'
  <2>1. /\ queue' \in Seq(QueuedState)
        /\ barrier' \in BOOLEAN /\ texture' \in BOOLEAN /\ mapped' \in BOOLEAN
        /\ callbacks' \subseteq Commits /\ answered' \subseteq Commits
        /\ applied' \in 0..MaxCommits
    BY <1>2, TryProcessFacts
  <2>. QED
    BY <1>2, <2>1 DEF TypeOK, client
<1>7. WaitersKnown'
  BY <1>4, QueueFacts DEF IInv, WaitersKnown
<1>. QED
  BY <1>4, <1>5, <1>6, <1>7 DEF IInv

(* A present or a direct scanout opens FIFO locks only; a timer its own.   *)
LEMMA PresentSteps ==
  ASSUME IInv, NEW o \in Outputs, Presented(o) \/ SameBufferScanout(o)
  PROVE  IInv'
PROOF
<1> DEFINE q == UnlockedFirst(queue, {FIFO})
<1>1. PICK b \in BOOLEAN : TryProcess(q, b)
  BY DEF Presented, SameBufferScanout, IInv, TypeOK
<1>2. UNCHANGED <<life, client, waiters, tearing, commits, discarded, forced, brokenFds>>
  BY DEF Presented, SameBufferScanout
<1>3. /\ q \in Seq(QueuedState) /\ DOMAIN q = DOMAIN queue
      /\ \A i \in DOMAIN queue :
           /\ q[i].id = queue[i].id /\ q[i].timer = queue[i].timer
           /\ q[i].lockMask = IF i \in FirstLocked(queue, {FIFO})
                              THEN queue[i].lockMask \ {FIFO} ELSE queue[i].lockMask
  BY UnlockedFirstFacts
<1>. HIDE DEF q
<1>4. \A i \in DOMAIN q : /\ FENCE \in q[i].lockMask <=> FENCE \in queue[i].lockMask
                          /\ TIMER \in q[i].lockMask <=> TIMER \in queue[i].lockMask
  BY <1>3 DEF FENCE, FIFO, TIMER
<1>5. Unready' = Unready
  BY <1>2 DEF Unready
<1>6. /\ \A i \in DOMAIN q : q[i].id \in Unready' => FENCE \in q[i].lockMask
      /\ \A i \in DOMAIN q :
           /\ FENCE \in q[i].lockMask =>
                q[i].id \in {w.id : w \in waiters'} \cup brokenFds'
           /\ TIMER \in q[i].lockMask => q[i].timer
  BY <1>2, <1>3, <1>4, <1>5, QueueFacts
<1>7. forced' \subseteq Commits /\ \A id \in forced' : id <= commits
  BY <1>2, QueueFacts DEF IInv, TypeOK
<1>. QED
  BY <1>1, <1>2, <1>3, <1>6, <1>7, ReleasePreserves

(* The timer of a commit-timing state takes the lock it holds and no       *)
(* other.                                                                  *)
LEMMA TimerStep ==
  ASSUME IInv, NEW id \in Commits, TimerFires(id)
  PROVE  IInv'
PROOF
<1> DEFINE q == [i \in DOMAIN queue |->
                   IF queue[i].id = id
                   THEN [queue[i] EXCEPT !.lockMask = @ \ {TIMER}, !.timer = FALSE]
                   ELSE queue[i]]
<1>1. TryProcess(q, barrier) /\ barrier \in BOOLEAN
  BY DEF TimerFires, IInv, TypeOK
<1>2. UNCHANGED <<life, client, waiters, tearing, commits, discarded, forced, brokenFds>>
  BY DEF TimerFires
<1>3. /\ DOMAIN queue = 1..Len(queue) /\ Len(queue) \in Nat
      /\ \A i \in DOMAIN queue : queue[i] \in QueuedState
  BY QueueFacts
<1>4. DOMAIN q = DOMAIN queue /\ q = [i \in 1..Len(queue) |-> q[i]]
  BY <1>3
<1>10. \A i \in DOMAIN queue :
         q[i] = IF queue[i].id = id
                THEN [queue[i] EXCEPT !.lockMask = @ \ {TIMER}, !.timer = FALSE]
                ELSE queue[i]
  OBVIOUS
<1>. HIDE DEF q
<1>5. ASSUME NEW i \in DOMAIN queue
      PROVE  /\ q[i] \in QueuedState
             /\ q[i].id = queue[i].id
             /\ FENCE \in q[i].lockMask <=> FENCE \in queue[i].lockMask
             /\ TIMER \in q[i].lockMask =>
                  TIMER \in queue[i].lockMask /\ q[i].timer = queue[i].timer
  <2>1. queue[i] \in QueuedState
    BY <1>3
  <2>2. CASE queue[i].id = id
    <3>1. q[i] = [queue[i] EXCEPT !.lockMask = @ \ {TIMER}, !.timer = FALSE]
      BY <1>10, <2>2
    <3>2. q[i] \in QueuedState /\ q[i].id = queue[i].id
          /\ q[i].lockMask = queue[i].lockMask \ {TIMER}
      BY <2>1, <3>1 DEF QueuedState
    <3>. QED
      BY <3>2 DEF FENCE, TIMER
  <2>3. CASE queue[i].id # id
    BY <1>10, <2>1, <2>3
  <2>. QED
    BY <2>2, <2>3
<1>6. q \in Seq(QueuedState)
  <2>1. \A i \in 1..Len(queue) : q[i] \in QueuedState
    BY <1>3, <1>5
  <2>2. Len(queue) \in Nat
    BY <1>3
  <2>. QED
    BY <1>4, <2>1, <2>2
<1>7. Unready' = Unready
  BY <1>2 DEF Unready
<1>8. /\ \A i \in DOMAIN q : q[i].id \in Unready' => FENCE \in q[i].lockMask
      /\ \A i \in DOMAIN q :
           /\ FENCE \in q[i].lockMask =>
                q[i].id \in {w.id : w \in waiters'} \cup brokenFds'
           /\ TIMER \in q[i].lockMask => q[i].timer
  BY <1>2, <1>4, <1>5, <1>7, QueueFacts
<1>9. forced' \subseteq Commits /\ \A n \in forced' : n <= commits
  BY <1>2, QueueFacts DEF IInv, TypeOK
<1>. QED
  BY <1>1, <1>2, <1>4, <1>5, <1>6, <1>8, <1>9, ReleasePreserves

(* The render-unfocused tick counts the fence it skips as forced.          *)
LEMMA UnfocusedStep ==
  ASSUME IInv, UnfocusedTick
  PROVE  IInv'
PROOF
<1> DEFINE q == UnlockedFirst(queue, LockReasons)
           F == {j \in FirstLocked(queue, LockReasons) : FENCE \in queue[j].lockMask}
<1>1. TryProcess(q, barrier) /\ barrier \in BOOLEAN
  BY DEF UnfocusedTick, IInv, TypeOK
<1>2. /\ UNCHANGED <<life, client, waiters, tearing, commits, discarded, brokenFds>>
      /\ forced' = forced \cup {queue[i].id : i \in F}
  BY DEF UnfocusedTick
<1>3. /\ q \in Seq(QueuedState) /\ DOMAIN q = DOMAIN queue
      /\ \A i \in DOMAIN queue :
           /\ q[i].id = queue[i].id /\ q[i].timer = queue[i].timer
           /\ q[i].lockMask = IF i \in FirstLocked(queue, LockReasons)
                              THEN queue[i].lockMask \ LockReasons
                              ELSE queue[i].lockMask
  BY UnlockedFirstFacts
<1>4. F \subseteq DOMAIN queue
  BY DEF FirstLocked
<1>5. \A i \in DOMAIN queue : queue[i].id \in Commits /\ queue[i].id <= commits
  BY QueueFacts DEF QueuedState
<1>6. forced' \subseteq Commits /\ \A id \in forced' : id <= commits
  BY <1>2, <1>4, <1>5, QueueFacts DEF IInv, TypeOK
<1>7. Unready' \subseteq Unready
  BY <1>2 DEF Unready
<1>8. ASSUME NEW i \in DOMAIN q, q[i].id \in Unready'
      PROVE  FENCE \in q[i].lockMask
  <2>1. q[i].id = queue[i].id /\ i \in DOMAIN queue
    BY <1>3
  <2>2. FENCE \in queue[i].lockMask
    BY <1>7, <1>8, <2>1, QueueFacts
  <2>3. i \notin FirstLocked(queue, LockReasons)
    BY <1>2, <1>8, <2>1, <2>2 DEF Unready
  <2>. QED
    BY <1>3, <2>1, <2>2, <2>3
<1>9. \A i \in DOMAIN q :
        /\ FENCE \in q[i].lockMask =>
             q[i].id \in {w.id : w \in waiters'} \cup brokenFds'
        /\ TIMER \in q[i].lockMask => q[i].timer
  BY <1>2, <1>3, QueueFacts
<1>. HIDE DEF q, F
<1>. QED
  BY <1>1, <1>2, <1>3, <1>6, <1>8, <1>9, ReleasePreserves
(* A fence: one fd fewer, an fd that failed, or the FENCE lock opened.     *)
LEMMA FenceSteps ==
  ASSUME IInv, NEW w \in waiters, FenceReadable(w) \/ FenceFails(w)
  PROVE  IInv'
PROOF
<1>1. /\ w \in Waiter /\ w.id \in Commits /\ w.id <= commits
      /\ \A v \in waiters : v.id = w.id => v = w
      /\ w.id \notin brokenFds
  BY QueueFacts DEF IInv, WaitersKnown, Waiter
<1>2. CASE /\ waiters' = waiters \ {w}
           /\ TryProcess(Unlocked(queue, w.id, FENCE), barrier)
           /\ UNCHANGED <<life, client, tearing, commits, discarded, forced, brokenFds>>
  <2> DEFINE q == Unlocked(queue, w.id, FENCE)
  <2>1. /\ q \in Seq(QueuedState) /\ DOMAIN q = DOMAIN queue
        /\ \A i \in DOMAIN queue :
             /\ q[i].id = queue[i].id /\ q[i].timer = queue[i].timer
             /\ q[i].lockMask = IF queue[i].id = w.id THEN queue[i].lockMask \ {FENCE}
                                                      ELSE queue[i].lockMask
    BY UnlockedFacts
  <2>2. TryProcess(q, barrier) /\ barrier \in BOOLEAN
    BY <1>2 DEF IInv, TypeOK
  <2>. HIDE DEF q
  <2>3. Unready' \subseteq Unready
    BY <1>2 DEF Unready
  <2>4. ASSUME NEW i \in DOMAIN q, q[i].id \in Unready'
        PROVE  FENCE \in q[i].lockMask
    <3>1. FENCE \in queue[i].lockMask
      BY <2>1, <2>3, <2>4, QueueFacts
    <3>2. CASE queue[i].id # w.id
      BY <2>1, <3>1, <3>2
    <3>3. CASE queue[i].id = w.id
      <4>1. w.id \notin {v.id : v \in waiters'}
        BY <1>1, <1>2
      <4>. QED
        BY <1>1, <1>2, <2>1, <2>4, <3>3, <4>1 DEF Unready
    <3>. QED
      BY <3>2, <3>3
  <2>5. ASSUME NEW i \in DOMAIN q
        PROVE  /\ FENCE \in q[i].lockMask =>
                    q[i].id \in {v.id : v \in waiters'} \cup brokenFds'
               /\ TIMER \in q[i].lockMask => q[i].timer
    <3>1. FENCE \in q[i].lockMask => FENCE \in queue[i].lockMask /\ queue[i].id # w.id
      BY <2>1
    <3>2. TIMER \in q[i].lockMask => TIMER \in queue[i].lockMask
      BY <2>1
    <3>. QED
      BY <1>2, <2>1, <3>1, <3>2, QueueFacts
  <2>6. forced' \subseteq Commits /\ \A n \in forced' : n <= commits
    BY <1>2, QueueFacts DEF IInv, TypeOK
  <2>. QED
    BY <1>2, <2>1, <2>2, <2>4, <2>5, <2>6, ReleasePreserves
<1>3. CASE \E left \in 1..w.left :
             /\ w.id \in QueuedIds
             /\ waiters' = (waiters \ {w}) \cup {[w EXCEPT !.left = left - 1]}
             /\ UNCHANGED <<life, client, surface, tearing, commits, discarded,
                            forced, brokenFds>>
  <2>1. PICK left \in 1..w.left :
          waiters' = (waiters \ {w}) \cup {[w EXCEPT !.left = left - 1]}
    BY <1>3
  <2> DEFINE v == [w EXCEPT !.left = left - 1]
  <2>2. v \in Waiter /\ v.id = w.id
    <3>1. w.left \in 0..MaxFds /\ left - 1 \in 0..MaxFds
      BY <1>1, <2>1, BoundsAssumption DEF Waiter
    <3>. QED
      BY <1>1, <3>1 DEF Waiter
  <2>3. waiters' = (waiters \ {w}) \cup {v}
    BY <2>1
  <2>. HIDE DEF v
  <2>4. {x.id : x \in waiters'} = {x.id : x \in waiters}
    BY <2>2, <2>3
  <2>5. TypeOK'
    BY <1>3, <2>2, <2>3 DEF IInv, TypeOK, client, surface
  <2>6. NoMissedWakeup' /\ InCommitOrder'
    BY <1>3 DEF surface, IInv, NoMissedWakeup, Open, BarrierBefore, InCommitOrder
  <2>7. LocksHaveOwners' /\ FenceHeld'
    BY <1>3, <2>4 DEF surface, IInv, LocksHaveOwners, FenceHeld, Unready
  <2>8. WaitersKnown'
    <3>1. \A x \in waiters' : x = v \/ (x \in waiters /\ x.id # w.id)
      BY <1>1, <2>3
    <3>2. \A x, y \in waiters' : x.id = y.id => x = y
      BY <2>2, <3>1 DEF IInv, WaitersKnown
    <3>3. \A x \in waiters' : x.id <= commits /\ x.id \notin brokenFds
      BY <1>1, <2>2, <3>1 DEF IInv, WaitersKnown
    <3>4. \A x \in waiters' : x.id \in QueuedIds \cup discarded \cup forced
      BY <1>3, <2>2, <3>1, QueueFacts
    <3>. QED
      BY <1>3, <3>2, <3>3, <3>4 DEF surface, IInv, WaitersKnown, QueuedIds
  <2>. QED
    BY <2>5, <2>6, <2>7, <2>8 DEF IInv
<1>4. CASE /\ waiters' = waiters \ {w}
           /\ UNCHANGED <<life, client, surface, tearing, commits, discarded, forced>>
           /\ \/ w.id \notin QueuedIds /\ brokenFds' = brokenFds
              \/ brokenFds' = brokenFds \cup {w.id}
  <2>1. TypeOK'
    BY <1>1, <1>4 DEF IInv, TypeOK, client, surface
  <2>2. NoMissedWakeup' /\ InCommitOrder'
    BY <1>4 DEF surface, IInv, NoMissedWakeup, Open, BarrierBefore, InCommitOrder
  <2>3. Unready' \subseteq Unready
    BY <1>4 DEF Unready
  <2>4. FenceHeld'
    BY <1>4, <2>3 DEF surface, IInv, FenceHeld
  <2>5. LocksHaveOwners'
    <3>. SUFFICES ASSUME NEW i \in DOMAIN queue
                  PROVE  /\ FENCE \in queue[i].lockMask =>
                              queue[i].id \in {v.id : v \in waiters'} \cup brokenFds'
                         /\ TIMER \in queue[i].lockMask => queue[i].timer
      BY <1>4 DEF LocksHaveOwners, surface
    <3>1. queue[i].id \in QueuedIds
      BY DEF QueuedIds
    <3>. QED
      BY <1>4, <3>1, QueueFacts
  <2>6. WaitersKnown'
    <3>1. \A v \in waiters' : v \in waiters /\ v.id # w.id
      BY <1>1, <1>4
    <3>2. \A v \in waiters' : v.id <= commits' /\ v.id \notin brokenFds'
      BY <1>4, <3>1 DEF IInv, WaitersKnown
    <3>3. \A id \in (brokenFds \cup discarded \cup forced)' : id <= commits'
      BY <1>1, <1>4, QueueFacts
    <3>4. QueuedIds' = QueuedIds
      BY <1>4 DEF surface, QueuedIds
    <3>. QED
      BY <1>4, <3>1, <3>2, <3>3, <3>4 DEF IInv, WaitersKnown
  <2>. QED
    BY <2>1, <2>2, <2>4, <2>5, <2>6 DEF IInv
<1>. QED
  BY <1>2, <1>3, <1>4 DEF FenceReadable, FenceFails

(* A commit with nothing to wait for goes behind the queue and through     *)
(* tryProcess.                                                             *)
LEMMA CommitNowSteps ==
  ASSUME IInv, CommitReady \/ CommitUnwaited
  PROVE  IInv'
PROOF
<1> DEFINE s == NewState({})
           q == Append(queue, s)
<1>1. /\ commits \in 0..MaxCommits /\ commits < MaxCommits
      /\ commits' = commits + 1 /\ pending.buffer # "null"
      /\ pending' = ResetState /\ acquire' = FALSE
      /\ TryProcess(q, barrier) /\ barrier \in BOOLEAN
      /\ UNCHANGED <<life, syncobj, fifoObj, tearing, discarded, brokenFds, waiters>>
      /\ forced \subseteq forced' /\ forced' \subseteq forced \cup {commits + 1}
  BY DEF CommitReady, CommitUnwaited, Enqueue, IInv, TypeOK
<1>2. commits + 1 \in Commits /\ commits \in Int
  BY <1>1, BoundsAssumption DEF Commits
<1>3. /\ s \in QueuedState /\ s.id = commits + 1
      /\ FENCE \notin s.lockMask /\ (TIMER \in s.lockMask => s.timer)
      /\ q \in Seq(QueuedState)
      /\ DOMAIN q = 1..(Len(queue) + 1) /\ Len(queue) \in Nat
      /\ \A i \in DOMAIN queue : q[i] = queue[i]
      /\ q[Len(queue) + 1] = s
  BY <1>1, <1>2, AppendedQueue
<1>. HIDE DEF s, q
<1>4. /\ DOMAIN queue = 1..Len(queue)
      /\ \A i \in DOMAIN q : i \in DOMAIN queue \/ i = Len(queue) + 1
  BY <1>3, QueueFacts
<1>5. /\ \A i, j \in DOMAIN queue : i < j => queue[i].id < queue[j].id
      /\ \A i \in DOMAIN queue : applied < queue[i].id /\ queue[i].id <= commits
      /\ \A i \in DOMAIN queue : queue[i].id \in Int
      /\ applied <= commits /\ applied \in Int
  BY QueueFacts DEF QueuedState, Commits, IInv, TypeOK
<1>6. ASSUME NEW i \in DOMAIN q, NEW j \in DOMAIN q, i < j
      PROVE  q[i].id < q[j].id
  <2>1. i \in DOMAIN queue
    BY <1>3, <1>4, <1>6
  <2>2. CASE j \in DOMAIN queue
    BY <1>3, <1>5, <1>6, <2>1, <2>2
  <2>3. CASE j = Len(queue) + 1
    <3>1. q[i].id <= commits /\ q[j].id = commits + 1 /\ q[i].id \in Int
      BY <1>3, <1>5, <2>1, <2>3
    <3>. QED
      BY <1>2, <3>1
  <2>. QED
    BY <1>4, <2>2, <2>3
<1>7. /\ \A i \in DOMAIN q : applied < q[i].id /\ q[i].id <= commits'
      /\ applied <= commits' /\ commits' \in Int
  BY <1>1, <1>2, <1>3, <1>4, <1>5
<1>8. /\ \A w \in waiters : w.id \in Int /\ w.id <= commits
      /\ \A id \in brokenFds \cup discarded \cup forced : id \in Int /\ id <= commits
  BY QueueFacts DEF Waiter, Commits, IInv, TypeOK
<1>9. ASSUME NEW i \in DOMAIN q, q[i].id \in Unready'
      PROVE  FENCE \in q[i].lockMask
  <2>1. q[i].id \in Unready
    BY <1>1, <1>9 DEF Unready
  <2>2. CASE i \in DOMAIN queue
    BY <1>3, <2>1, <2>2, QueueFacts
  <2>3. CASE i = Len(queue) + 1
    <3>1. commits + 1 \in {w.id : w \in waiters} \cup brokenFds
      BY <1>3, <2>1, <2>3 DEF Unready
    <3>. QED
      BY <1>2, <1>8, <3>1
  <2>. QED
    BY <1>4, <2>2, <2>3
<1>10. ASSUME NEW i \in DOMAIN q
       PROVE  /\ FENCE \in q[i].lockMask =>
                   q[i].id \in {w.id : w \in waiters'} \cup brokenFds'
              /\ TIMER \in q[i].lockMask => q[i].timer
  <2>1. CASE i \in DOMAIN queue
    BY <1>1, <1>3, <2>1, QueueFacts
  <2>2. CASE i = Len(queue) + 1
    BY <1>3, <2>2
  <2>. QED
    BY <1>4, <2>1, <2>2
<1>11. ASSUME NEW w \in waiters'
       PROVE  \/ w.id \in discarded' \cup forced'
              \/ \E i \in DOMAIN q : q[i].id = w.id
  <2>1. w.id \in QueuedIds \cup discarded \cup forced
    BY <1>1, QueueFacts
  <2>2. \A i \in DOMAIN queue : i \in DOMAIN q /\ q[i].id = queue[i].id
    BY <1>3, <1>4
  <2>. QED
    BY <1>1, <2>1, <2>2 DEF QueuedIds
<1>12. TypeOK
  BY DEF IInv
<1>13. /\ InCommitOrder' /\ LocksHaveOwners' /\ FenceHeld'
       /\ \A w \in waiters' : w.id \in (QueuedIds \cup discarded \cup forced)'
  BY <1>1, <1>3, <1>6, <1>7, <1>9, <1>10, <1>11, <1>12, ProcessPreserves
<1>14. /\ queue' \in Seq(QueuedState)
       /\ barrier' \in BOOLEAN /\ texture' \in BOOLEAN /\ mapped' \in BOOLEAN
       /\ callbacks' \subseteq Commits /\ answered' \subseteq Commits
       /\ applied' \in 0..MaxCommits
       /\ NoMissedWakeup'
  BY <1>1, <1>3, <1>12, TryProcessFacts
<1>15. TypeOK'
  <2>1. pending' \in PendingState
    BY <1>1 DEF PendingState, ResetState
  <2>2. commits' \in 0..MaxCommits
    BY <1>1, BoundsAssumption
  <2>3. forced' \subseteq Commits
    BY <1>1, <1>2, <1>12 DEF TypeOK
  <2>. QED
    BY <1>1, <1>12, <1>14, <2>1, <2>2, <2>3 DEF TypeOK
<1>16. WaitersKnown'
  <2>1. \A w \in waiters' : w.id <= commits' /\ w.id \notin brokenFds'
    BY <1>1, <1>2, <1>8 DEF IInv, WaitersKnown
  <2>2. \A id \in (brokenFds \cup discarded \cup forced)' : id <= commits'
    BY <1>1, <1>2, <1>8
  <2>3. \A v, w \in waiters' : v.id = w.id => v = w
    BY <1>1 DEF IInv, WaitersKnown
  <2>. QED
    BY <1>13, <2>1, <2>2, <2>3 DEF WaitersKnown
<1>. QED
  BY <1>13, <1>14, <1>15, <1>16 DEF IInv

-----------------------------------------------------------------------------
(* The theorems.                                                           *)

(* Every step keeps the invariant.                                         *)
THEOREM StepIInv == IInv /\ [Next]_vars => IInv'
PROOF
<1>. SUFFICES ASSUME IInv, [Next]_vars PROVE IInv'
  OBVIOUS
<1>1. ASSUME NEW o \in Outputs, Presented(o) \/ SameBufferScanout(o) PROVE IInv'
  BY <1>1, PresentSteps
<1>2. ASSUME NEW id \in Commits, TimerFires(id) PROVE IInv'
  BY <1>2, TimerStep
<1>3. ASSUME NEW w \in waiters, FenceReadable(w) \/ FenceFails(w) PROVE IInv'
  BY <1>3, FenceSteps
<1>4. CASE CommitWaits
  BY <1>4, CommitWaitsStep
<1>5. CASE CommitReady \/ CommitUnwaited
  BY <1>5, CommitNowSteps
<1>6. CASE CommitNull \/ Destroy
  BY <1>6, ClearingSteps
<1>7. CASE UnfocusedTick
  BY <1>7, UnfocusedStep
<1>8. CASE \/ Attach \/ FrameRequest \/ SetBarrier \/ WaitBarrier \/ SetTimestamp
           \/ GetFifo \/ DestroyFifo \/ GetSyncobj \/ SetAcquirePoint
           \/ CommitRejectedEarly \/ CommitRejected
           \/ SendFrame \/ Unmap
           \/ \E o \in Outputs : ToggleTearing(o)
           \/ UNCHANGED vars
  BY <1>8, QuietSteps
<1>. QED
  BY <1>1, <1>2, <1>3, <1>4, <1>5, <1>6, <1>7, <1>8 DEF Next, Offscreen

(* IInv holds in every reachable state.                                    *)
THEOREM Invariance == Spec => []IInv
PROOF
<1>1. Init => IInv
  BY InitIInv
<1>2. IInv /\ [Next]_vars => IInv'
  BY StepIInv
<1>. QED
  BY <1>1, <1>2, PTL DEF Spec

(* All variables keep their types, for all bounds and outputs.             *)
THEOREM TypeCorrect == Spec => []TypeOK
PROOF
<1>1. IInv => TypeOK
  BY DEF IInv
<1>. QED
  BY <1>1, Invariance, PTL

(* The front of the queue is never a state that could be applied: no       *)
(* handler that opens a lock forgets to look at the queue.                 *)
THEOREM WakeupsKept == Spec => []NoMissedWakeup
PROOF
<1>1. IInv => NoMissedWakeup
  BY DEF IInv
<1>. QED
  BY <1>1, Invariance, PTL

(* States are applied in commit order, each at most once.                  *)
THEOREM OrderKept == Spec => []InCommitOrder
PROOF
<1>1. IInv => InCommitOrder
  BY DEF IInv
<1>. QED
  BY <1>1, Invariance, PTL

(* Every fence and timer lock has an owner in the event loop.              *)
THEOREM OwnersKept == Spec => []LocksHaveOwners
PROOF
<1>1. IInv => LocksHaveOwners
  BY DEF IInv
<1>. QED
  BY <1>1, Invariance, PTL

(* No state is applied while its fence is waited for, unless it was forced.*)
THEOREM FencesKept == Spec => []FenceRespected
PROOF
<1>1. IInv => FenceRespected
  <2>. SUFFICES ASSUME IInv, NEW w \in waiters, w.id \notin discarded \cup forced
                PROVE  \E i \in DOMAIN queue :
                         queue[i].id = w.id /\ FENCE \in queue[i].lockMask
    BY DEF FenceRespected
  <2>1. PICK i \in DOMAIN queue : queue[i].id = w.id
    BY DEF IInv, WaitersKnown, QueuedIds
  <2>2. queue[i].id \in Unready
    BY <2>1 DEF Unready
  <2>. QED
    BY <2>1, <2>2 DEF IInv, FenceHeld
<1>. QED
  BY <1>1, Invariance, PTL

-----------------------------------------------------------------------------
(* The steps of SurfaceQueue by what they do to the queue.                 *)

(* tryProcess runs on q, which holds back what is not ready.               *)
Runs(q) ==
  /\ \E b \in BOOLEAN : TryProcess(q, b)
  /\ \A i \in DOMAIN q : q[i].id \in Unready' => FENCE \in q[i].lockMask

(* Locks are opened.                                                       *)
Releases ==
  /\ UNCHANGED <<commits, discarded>>
  /\ Unready' \subseteq Unready
  /\ \E q \in Seq(QueuedState) :
       /\ DOMAIN q = DOMAIN queue
       /\ \A i \in DOMAIN queue : q[i].id = queue[i].id
       /\ Runs(q)

(* A commit goes behind the queue, and maybe straight through it.          *)
Appends ==
  /\ commits' = commits + 1 /\ commits + 1 \in Commits
  /\ UNCHANGED discarded
  /\ Unready' = Unready
  /\ \E s \in QueuedState : s.id = commits + 1 /\ Runs(Append(queue, s))

(* Nothing moves in the queue.                                             *)
Settles ==
  /\ UNCHANGED <<queue, applied>>
  /\ Unready' \subseteq Unready

LEMMA ReleaseShape ==
  ASSUME IInv,
         \/ \E o \in Outputs : Presented(o) \/ SameBufferScanout(o)
         \/ \E id \in Commits : TimerFires(id)
         \/ UnfocusedTick
  PROVE  Releases
PROOF
<1>1. /\ DOMAIN queue = 1..Len(queue) /\ Len(queue) \in Nat
      /\ \A i \in DOMAIN queue : queue[i] \in QueuedState
      /\ \A i \in DOMAIN queue : queue[i].id \in Unready => FENCE \in queue[i].lockMask
      /\ barrier \in BOOLEAN
  BY QueueFacts DEF IInv, TypeOK
<1>2. FIFO \notin {FENCE} /\ TIMER \notin {FENCE} /\ FENCE \in LockReasons
  BY DEF FENCE, FIFO, TIMER, LockReasons
<1>3. ASSUME NEW o \in Outputs, Presented(o) \/ SameBufferScanout(o)
      PROVE  Releases
  <2> DEFINE q == UnlockedFirst(queue, {FIFO})
  <2>1. \E b \in BOOLEAN : TryProcess(q, b)
    BY <1>1, <1>3 DEF Presented, SameBufferScanout
  <2>2. UNCHANGED <<waiters, commits, discarded, forced, brokenFds>>
    BY <1>3 DEF Presented, SameBufferScanout
  <2>3. /\ q \in Seq(QueuedState) /\ DOMAIN q = DOMAIN queue
        /\ \A i \in DOMAIN queue :
             /\ q[i].id = queue[i].id
             /\ q[i].lockMask = IF i \in FirstLocked(queue, {FIFO})
                                THEN queue[i].lockMask \ {FIFO} ELSE queue[i].lockMask
    BY UnlockedFirstFacts
  <2>. HIDE DEF q
  <2>4. Unready' = Unready
    BY <2>2 DEF Unready
  <2>5. \A i \in DOMAIN q : q[i].id \in Unready' => FENCE \in q[i].lockMask
    BY <1>1, <1>2, <2>3, <2>4
  <2>. QED
    BY <2>1, <2>2, <2>3, <2>4, <2>5 DEF Releases, Runs
<1>4. ASSUME NEW id \in Commits, TimerFires(id) PROVE Releases
  <2> DEFINE q == [i \in DOMAIN queue |->
                     IF queue[i].id = id
                     THEN [queue[i] EXCEPT !.lockMask = @ \ {TIMER}, !.timer = FALSE]
                     ELSE queue[i]]
  <2>1. TryProcess(q, barrier)
    BY <1>4 DEF TimerFires
  <2>2. UNCHANGED <<waiters, commits, discarded, forced, brokenFds>>
    BY <1>4 DEF TimerFires
  <2>3. DOMAIN q = DOMAIN queue /\ q = [i \in 1..Len(queue) |-> q[i]]
    BY <1>1
  <2>4. \A i \in DOMAIN queue :
          q[i] = IF queue[i].id = id
                 THEN [queue[i] EXCEPT !.lockMask = @ \ {TIMER}, !.timer = FALSE]
                 ELSE queue[i]
    OBVIOUS
  <2>. HIDE DEF q
  <2>5. ASSUME NEW i \in DOMAIN queue
        PROVE  /\ q[i] \in QueuedState
               /\ q[i].id = queue[i].id
               /\ FENCE \in queue[i].lockMask => FENCE \in q[i].lockMask
    <3>1. queue[i] \in QueuedState
      BY <1>1
    <3>2. CASE queue[i].id = id
      <4>1. q[i] = [queue[i] EXCEPT !.lockMask = @ \ {TIMER}, !.timer = FALSE]
        BY <2>4, <3>2
      <4>2. /\ q[i] \in QueuedState /\ q[i].id = queue[i].id
            /\ q[i].lockMask = queue[i].lockMask \ {TIMER}
        BY <3>1, <4>1 DEF QueuedState
      <4>. QED
        BY <1>2, <4>2
    <3>3. CASE queue[i].id # id
      BY <2>4, <3>1, <3>3
    <3>. QED
      BY <3>2, <3>3
  <2>6. q \in Seq(QueuedState)
    <3>1. \A i \in 1..Len(queue) : q[i] \in QueuedState
      BY <1>1, <2>5
    <3>2. Len(queue) \in Nat
      BY <1>1
    <3>. QED
      BY <2>3, <3>1, <3>2
  <2>7. Unready' = Unready
    BY <2>2 DEF Unready
  <2>8. \A i \in DOMAIN q : q[i].id \in Unready' => FENCE \in q[i].lockMask
    BY <1>1, <2>3, <2>5, <2>7
  <2>9. Runs(q)
    BY <1>1, <2>1, <2>8 DEF Runs
  <2>. QED
    BY <2>2, <2>3, <2>5, <2>6, <2>7, <2>9 DEF Releases
<1>5. ASSUME UnfocusedTick PROVE Releases
  <2> DEFINE q == UnlockedFirst(queue, LockReasons)
             F == {j \in FirstLocked(queue, LockReasons) : FENCE \in queue[j].lockMask}
  <2>1. TryProcess(q, barrier)
    BY <1>5 DEF UnfocusedTick
  <2>2. /\ UNCHANGED <<waiters, commits, discarded, brokenFds>>
        /\ forced' = forced \cup {queue[i].id : i \in F}
    BY <1>5 DEF UnfocusedTick
  <2>3. /\ q \in Seq(QueuedState) /\ DOMAIN q = DOMAIN queue
        /\ \A i \in DOMAIN queue :
             /\ q[i].id = queue[i].id
             /\ q[i].lockMask = IF i \in FirstLocked(queue, LockReasons)
                                THEN queue[i].lockMask \ LockReasons
                                ELSE queue[i].lockMask
    BY UnlockedFirstFacts
  <2>4. Unready' \subseteq Unready
    BY <2>2 DEF Unready
  <2>5. ASSUME NEW i \in DOMAIN q, q[i].id \in Unready'
        PROVE  FENCE \in q[i].lockMask
    <3>1. q[i].id = queue[i].id /\ i \in DOMAIN queue
      BY <2>3
    <3>2. FENCE \in queue[i].lockMask
      BY <1>1, <2>4, <2>5, <3>1
    <3>3. i \notin FirstLocked(queue, LockReasons)
      BY <2>2, <2>5, <3>1, <3>2 DEF Unready
    <3>. QED
      BY <2>3, <3>1, <3>2, <3>3
  <2>. HIDE DEF q, F
  <2>6. Runs(q)
    BY <1>1, <2>1, <2>5 DEF Runs
  <2>. QED
    BY <2>2, <2>3, <2>4, <2>6 DEF Releases
<1>. QED
  BY <1>3, <1>4, <1>5

(* A fence fd: its state is unlocked, or it is none of the queue's         *)
(* business.                                                               *)
LEMMA FenceShape ==
  ASSUME IInv, NEW w \in waiters, FenceReadable(w) \/ FenceFails(w)
  PROVE  /\ Releases \/ Settles
         /\ Releases \/ UNCHANGED surface
         /\ UNCHANGED discarded
PROOF
<1>1. /\ w \in Waiter /\ w.id <= commits
      /\ \A v \in waiters : v.id = w.id => v = w
      /\ w.id \notin brokenFds
  BY QueueFacts DEF IInv, WaitersKnown
<1>2. CASE /\ waiters' = waiters \ {w}
           /\ TryProcess(Unlocked(queue, w.id, FENCE), barrier)
           /\ UNCHANGED <<commits, discarded, forced, brokenFds>>
  <2> DEFINE q == Unlocked(queue, w.id, FENCE)
  <2>1. /\ q \in Seq(QueuedState) /\ DOMAIN q = DOMAIN queue
        /\ \A i \in DOMAIN queue :
             /\ q[i].id = queue[i].id
             /\ q[i].lockMask = IF queue[i].id = w.id THEN queue[i].lockMask \ {FENCE}
                                                      ELSE queue[i].lockMask
    BY UnlockedFacts
  <2>2. TryProcess(q, barrier) /\ barrier \in BOOLEAN
    BY <1>2 DEF IInv, TypeOK
  <2>. HIDE DEF q
  <2>3. Unready' \subseteq Unready
    BY <1>2 DEF Unready
  <2>4. w.id \notin Unready'
    BY <1>1, <1>2 DEF Unready
  <2>5. \A i \in DOMAIN q : q[i].id \in Unready' => FENCE \in q[i].lockMask
    BY <2>1, <2>3, <2>4, QueueFacts
  <2>. QED
    BY <1>2, <2>1, <2>2, <2>3, <2>5 DEF Releases, Runs
<1>3. CASE \E left \in 1..w.left :
             /\ waiters' = (waiters \ {w}) \cup {[w EXCEPT !.left = left - 1]}
             /\ UNCHANGED <<surface, commits, discarded, forced, brokenFds>>
  <2>1. PICK left \in 1..w.left :
          waiters' = (waiters \ {w}) \cup {[w EXCEPT !.left = left - 1]}
    BY <1>3
  <2>2. [w EXCEPT !.left = left - 1].id = w.id
    BY <1>1 DEF Waiter
  <2>3. {v.id : v \in waiters'} \subseteq {v.id : v \in waiters}
    BY <2>1, <2>2
  <2>. QED
    BY <1>3, <2>3 DEF Settles, Unready, surface
<1>4. CASE /\ waiters' = waiters \ {w}
           /\ UNCHANGED <<surface, commits, discarded, forced, brokenFds>>
  BY <1>4 DEF Settles, Unready, surface
<1>5. CASE FenceFails(w)
  <2>1. /\ waiters' = waiters \ {w} /\ brokenFds' = brokenFds \cup {w.id}
        /\ UNCHANGED <<surface, discarded, forced>>
    BY <1>5 DEF FenceFails
  <2>. QED
    BY <2>1 DEF Settles, Unready, surface
<1>. QED
  BY <1>2, <1>3, <1>4, <1>5 DEF FenceReadable

(* A commit whose fences are done, or not waited for.                      *)
LEMMA AppendShape ==
  ASSUME IInv, CommitReady \/ CommitUnwaited
  PROVE  Appends
PROOF
<1> DEFINE s == NewState({})
           q == Append(queue, s)
<1>1. /\ commits \in 0..MaxCommits /\ commits < MaxCommits
      /\ commits' = commits + 1 /\ pending.buffer # "null"
      /\ TryProcess(q, barrier) /\ barrier \in BOOLEAN
      /\ UNCHANGED <<discarded, brokenFds, waiters>>
      /\ forced \subseteq forced' /\ forced' \subseteq forced \cup {commits + 1}
  BY DEF CommitReady, CommitUnwaited, Enqueue, IInv, TypeOK
<1>2. commits + 1 \in Commits /\ commits \in Int
  BY <1>1, BoundsAssumption DEF Commits
<1>3. /\ s \in QueuedState /\ s.id = commits + 1
      /\ DOMAIN q = 1..(Len(queue) + 1) /\ Len(queue) \in Nat
      /\ \A i \in DOMAIN queue : q[i] = queue[i]
      /\ q[Len(queue) + 1] = s
  BY <1>1, <1>2, AppendedQueue
<1>. HIDE DEF s
<1>4. \A id \in Unready : id \in Int /\ id <= commits
  <2>1. \A w \in waiters : w.id \in Int /\ w.id <= commits
    BY QueueFacts DEF Waiter, Commits
  <2>2. \A id \in brokenFds : id \in Int /\ id <= commits
    BY QueueFacts DEF Commits, IInv, TypeOK
  <2>. QED
    BY <2>1, <2>2 DEF Unready
<1>5. commits + 1 \notin Unready
  BY <1>2, <1>4
<1>6. Unready' = Unready
  BY <1>1, <1>5 DEF Unready
<1>7. ASSUME NEW i \in DOMAIN q, q[i].id \in Unready'
      PROVE  FENCE \in q[i].lockMask
  <2>1. i \in DOMAIN queue
    BY <1>3, <1>5, <1>6, <1>7, QueueFacts
  <2>. QED
    BY <1>3, <1>6, <1>7, <2>1, QueueFacts
<1>. QED
  BY <1>1, <1>2, <1>3, <1>6, <1>7 DEF Appends, Runs

(* What one run of tryProcess applies and what it leaves.                  *)
LEMMA RunFacts ==
  ASSUME TypeOK, NEW q \in Seq(QueuedState), Runs(q)
  PROVE  \E k \in 0..Len(q) :
           /\ \A i \in 1..k : q[i].id \notin Unready'
           /\ DOMAIN queue' = 1..(Len(q) - k)
           /\ \A i \in 1..(Len(q) - k) : queue'[i].id = q[i + k].id
           /\ applied' = IF k = 0 THEN applied ELSE q[k].id
           /\ callbacks' \cup answered' =
                callbacks \cup answered \cup {q[i].id : i \in {j \in 1..k : q[j].frame}}
           /\ callbacks' \cap answered' \subseteq answered \cap
                (callbacks \cup {q[i].id : i \in {j \in 1..k : q[j].frame}})
PROOF
<1>1. PICK b \in BOOLEAN : TryProcess(q, b)
  BY DEF Runs
<1>2. PICK k \in 0..Len(q) :
        /\ \A i \in 1..k : Open(q, b, i)
        /\ queue' = Rest(q, b, k)
        /\ CommitStates(q, b, k)
  BY <1>1 DEF TryProcess
<1> DEFINE new == {q[i].id : i \in {j \in 1..k : q[j].frame}}
<1>3. /\ queue' \in Seq(QueuedState) /\ Len(queue') = Len(q) - k
      /\ \A i \in 1..(Len(q) - k) : queue'[i].id = q[i + k].id
  BY <1>2, RestFacts
<1>4. DOMAIN queue' = 1..(Len(q) - k)
  BY <1>3
<1>5. \A i \in 1..k : FENCE \notin q[i].lockMask /\ i \in DOMAIN q
  BY <1>2 DEF Open, FENCE, FIFO
<1>6. \A i \in 1..k : q[i].id \notin Unready'
  BY <1>5 DEF Runs
<1>7. applied' = IF k = 0 THEN applied ELSE q[k].id
  BY <1>2 DEF CommitStates
<1>8. \E early \in SUBSET (callbacks \cup new) :
        /\ callbacks' = (callbacks \cup new) \ early
        /\ answered' = answered \cup early
  <2> DEFINE Textured(i) == texture \/ \E j \in 1..i : q[j].buffer # "unset"
             early == {c \in callbacks \cup new : \E i \in 1..k :
                         /\ ~mapped
                         /\ Textured(i)
                         /\ \A j \in 1..(i - 1) : ~Textured(j)
                         /\ c <= q[i].id}
  <2>1. callbacks' = (callbacks \cup new) \ early /\ answered' = answered \cup early
    BY <1>2 DEF CommitStates
  <2>2. early \in SUBSET (callbacks \cup new)
    OBVIOUS
  <2>. HIDE DEF early, new
  <2>. QED
    BY <2>1, <2>2
<1>. HIDE DEF new
<1>9. PICK early \in SUBSET (callbacks \cup new) :
        /\ callbacks' = (callbacks \cup new) \ early
        /\ answered' = answered \cup early
  BY <1>8
<1>10. /\ callbacks' \cup answered' = callbacks \cup answered \cup new
       /\ callbacks' \cap answered' \subseteq answered \cap (callbacks \cup new)
  BY <1>9
<1>. QED
  BY <1>3, <1>4, <1>6, <1>7, <1>10 DEF new

-----------------------------------------------------------------------------
(* Frame callbacks.                                                        *)

(* A discarded commit is not queued either: otherwise applying it would    *)
(* bring its callback back.                                                *)
CInv ==
  /\ CallbacksAccounted
  /\ \A i \in DOMAIN queue : queue[i].id \notin discarded

(* The states tryProcess applies bring callbacks nobody has seen yet.      *)
LEMMA RunCallbacks ==
  ASSUME IInv, CallbacksAccounted, NEW q \in Seq(QueuedState), Runs(q),
         UNCHANGED discarded,
         \A i, j \in DOMAIN q : i < j => q[i].id < q[j].id,
         \A i \in DOMAIN q : applied < q[i].id /\ q[i].id \notin discarded
  PROVE  CInv'
PROOF
<1>1. TypeOK
  BY DEF IInv
<1>2. PICK k \in 0..Len(q) :
        /\ DOMAIN queue' = 1..(Len(q) - k)
        /\ \A i \in 1..(Len(q) - k) : queue'[i].id = q[i + k].id
        /\ applied' = IF k = 0 THEN applied ELSE q[k].id
        /\ callbacks' \cup answered' =
             callbacks \cup answered \cup {q[i].id : i \in {j \in 1..k : q[j].frame}}
        /\ callbacks' \cap answered' \subseteq answered \cap
             (callbacks \cup {q[i].id : i \in {j \in 1..k : q[j].frame}})
  BY <1>1, RunFacts
<1> DEFINE new == {q[i].id : i \in {j \in 1..k : q[j].frame}}
<1>3. /\ callbacks' \cup answered' = callbacks \cup answered \cup new
      /\ callbacks' \cap answered' \subseteq answered \cap (callbacks \cup new)
  BY <1>2
<1>4. DOMAIN q = 1..Len(q) /\ Len(q) \in Nat /\ \A i \in DOMAIN q : q[i].id \in Int
  <2>1. DOMAIN q = 1..Len(q) /\ Len(q) \in Nat /\ \A i \in DOMAIN q : q[i] \in QueuedState
    OBVIOUS
  <2>. QED
    BY <2>1 DEF QueuedState, Commits
<1>5. applied \in Int /\ \A c \in callbacks \cup answered : c \in Int
  BY <1>1 DEF TypeOK, Commits
<1>6. ASSUME NEW c \in new
      PROVE  applied < c /\ c <= applied' /\ c \notin discarded /\ c \in Int
  <2>1. PICK i \in 1..k : c = q[i].id
    OBVIOUS
  <2>2. i \in DOMAIN q /\ k \in DOMAIN q /\ i <= k /\ k # 0
    BY <1>4, <2>1
  <2>3. q[i].id <= q[k].id
    <3>1. CASE i = k
      BY <1>4, <2>2, <3>1
    <3>2. CASE i < k
      BY <1>4, <2>2, <3>2
    <3>. QED
      BY <2>2, <3>1, <3>2
  <2>. QED
    BY <1>2, <1>4, <2>1, <2>2, <2>3
<1>. HIDE DEF new
<1>7. applied <= applied' /\ applied' \in Int
  BY <1>2, <1>4, <1>5
<1>8. callbacks' \cap answered' = {}
  <2>1. \A c \in answered : c \notin callbacks /\ c <= applied
    BY DEF CallbacksAccounted
  <2>2. \A c \in answered : c \notin new
    BY <1>5, <1>6, <2>1
  <2>. QED
    BY <1>3, <2>1, <2>2
<1>9. ASSUME NEW c \in callbacks' \cup answered'
      PROVE  c <= applied' /\ c \notin discarded'
  <2>1. CASE c \in new
    BY <1>6, <2>1
  <2>2. CASE c \in callbacks \cup answered
    <3>1. c <= applied /\ c \notin discarded
      BY <2>2 DEF CallbacksAccounted
    <3>. QED
      BY <1>5, <1>7, <2>2, <3>1
  <2>. QED
    BY <1>3, <2>1, <2>2
<1>10. ASSUME NEW i \in DOMAIN queue' PROVE queue'[i].id \notin discarded'
  <2>1. i \in 1..(Len(q) - k) /\ queue'[i].id = q[i + k].id
    BY <1>2
  <2>2. i + k \in DOMAIN q
    BY <1>4, <2>1
  <2>. QED
    BY <2>1, <2>2
<1>. QED
  BY <1>8, <1>9, <1>10 DEF CInv, CallbacksAccounted

(* Every step keeps the callbacks accounted for.                           *)
LEMMA StepCInv ==
  ASSUME IInv, CInv, [Next]_vars
  PROVE  CInv'
PROOF
<1>1. /\ \A i, j \in DOMAIN queue : i < j => queue[i].id < queue[j].id
      /\ \A i \in DOMAIN queue : applied < queue[i].id /\ queue[i].id <= commits
      /\ applied <= commits
      /\ \A id \in discarded : id <= commits
      /\ DOMAIN queue = 1..Len(queue) /\ Len(queue) \in Nat
  BY QueueFacts
<1>2. /\ commits \in Int /\ applied \in Int
      /\ \A i \in DOMAIN queue : queue[i].id \in Int
      /\ \A c \in callbacks \cup answered \cup discarded : c \in Int
  BY QueueFacts DEF QueuedState, Commits, IInv, TypeOK
<1>3. CallbacksAccounted /\ \A i \in DOMAIN queue : queue[i].id \notin discarded
  BY DEF CInv
<1>4. ASSUME UNCHANGED <<queue, applied, callbacks, answered, discarded>>
      PROVE  CInv'
  BY <1>3, <1>4 DEF CInv, CallbacksAccounted
<1>5. ASSUME Releases PROVE CInv'
  <2>1. PICK q \in Seq(QueuedState) :
          /\ DOMAIN q = DOMAIN queue
          /\ \A i \in DOMAIN queue : q[i].id = queue[i].id
          /\ Runs(q)
    BY <1>5 DEF Releases
  <2>2. UNCHANGED discarded
    BY <1>5 DEF Releases
  <2>3. \A i, j \in DOMAIN q : i < j => q[i].id < q[j].id
    BY <1>1, <2>1
  <2>4. \A i \in DOMAIN q : applied < q[i].id /\ q[i].id \notin discarded
    BY <1>1, <1>3, <2>1
  <2>. QED
    BY <1>3, <2>1, <2>2, <2>3, <2>4, RunCallbacks
<1>6. ASSUME Appends PROVE CInv'
  <2>1. PICK s \in QueuedState : s.id = commits + 1 /\ Runs(Append(queue, s))
    BY <1>6 DEF Appends
  <2> DEFINE q == Append(queue, s)
  <2>2. UNCHANGED discarded
    BY <1>6 DEF Appends
  <2>3. /\ q \in Seq(QueuedState) /\ DOMAIN q = 1..(Len(queue) + 1)
        /\ \A i \in DOMAIN queue : q[i] = queue[i]
        /\ q[Len(queue) + 1] = s
    BY QueueFacts
  <2>4. Runs(q)
    BY <2>1
  <2>. HIDE DEF q
  <2>5. \A i \in DOMAIN q : i \in DOMAIN queue \/ i = Len(queue) + 1
    BY <1>1, <2>3
  <2>6. ASSUME NEW i \in DOMAIN q, NEW j \in DOMAIN q, i < j
        PROVE  q[i].id < q[j].id
    <3>1. i \in DOMAIN queue
      BY <1>1, <2>3, <2>5, <2>6
    <3>2. CASE j \in DOMAIN queue
      BY <1>1, <2>3, <2>6, <3>1, <3>2
    <3>3. CASE j = Len(queue) + 1
      <4>1. q[i].id <= commits /\ q[j].id = commits + 1 /\ q[i].id \in Int
        BY <1>1, <1>2, <2>1, <2>3, <3>1, <3>3
      <4>. QED
        BY <1>2, <4>1
    <3>. QED
      BY <2>5, <3>2, <3>3
  <2>7. commits + 1 \notin discarded
    BY <1>1, <1>2
  <2>8. \A i \in DOMAIN q : applied < q[i].id /\ q[i].id \notin discarded
    <3>1. applied < s.id /\ s.id \notin discarded
      BY <1>1, <1>2, <2>1, <2>7
    <3>. QED
      BY <1>1, <1>3, <2>3, <2>5, <3>1
  <2>. QED
    BY <1>3, <2>2, <2>3, <2>4, <2>6, <2>8, RunCallbacks
<1>7. CASE CommitWaits
  <2>1. /\ commits < MaxCommits /\ pending.buffer # "null"
        /\ queue' = Append(queue, NewState({FENCE}))
        /\ UNCHANGED <<discarded, callbacks, applied, answered>>
    BY <1>7 DEF CommitWaits, Enqueue
  <2>2. commits + 1 \in Commits
    BY <2>1, BoundsAssumption DEF Commits, IInv, TypeOK
  <2>3. {FENCE} \in SUBSET LockReasons /\ FIFO \notin {FENCE} /\ TIMER \notin {FENCE}
    BY DEF FENCE, FIFO, TIMER, LockReasons
  <2>4. /\ NewState({FENCE}).id = commits + 1
        /\ DOMAIN queue' = 1..(Len(queue) + 1)
        /\ \A i \in DOMAIN queue : queue'[i] = queue[i]
        /\ queue'[Len(queue) + 1] = NewState({FENCE})
    BY <2>1, <2>2, <2>3, AppendedQueue
  <2>5. \A i \in DOMAIN queue' : i \in DOMAIN queue \/ i = Len(queue) + 1
    BY <1>1, <2>4
  <2>6. commits + 1 \notin discarded
    BY <1>1, <1>2
  <2>7. \A i \in DOMAIN queue' : queue'[i].id \notin discarded'
    BY <1>3, <2>1, <2>4, <2>5, <2>6
  <2>. QED
    BY <1>3, <2>1, <2>7 DEF CInv, CallbacksAccounted
<1>8. CASE CommitNull
  <2>1. /\ applied' = commits + 1 /\ answered' = answered
        /\ callbacks' \subseteq callbacks \cup {commits + 1}
        /\ queue' = <<>> /\ discarded' = discarded \cup QueuedIds
    BY <1>8 DEF CommitNull
  <2>2. \A c \in callbacks \cup answered :
          c <= applied /\ c \notin discarded /\ c \in Int
    BY <1>2, <1>3 DEF CallbacksAccounted
  <2>3. \A c \in callbacks \cup answered : c \notin QueuedIds /\ c <= commits
    BY <1>1, <1>2, <2>2 DEF QueuedIds
  <2>4. commits + 1 \notin discarded \cup QueuedIds
    BY <1>1, <1>2 DEF QueuedIds
  <2>5. commits + 1 \notin answered
    BY <1>2, <2>3
  <2>6. callbacks' \cap answered' = {}
    BY <1>3, <2>1, <2>5 DEF CallbacksAccounted
  <2>7. \A c \in callbacks' \cup answered' : c <= applied' /\ c \notin discarded'
    BY <1>2, <2>1, <2>2, <2>3, <2>4
  <2>. QED
    BY <2>1, <2>6, <2>7 DEF CInv, CallbacksAccounted
<1>9. CASE Destroy
  <2>1. /\ UNCHANGED <<applied, answered, callbacks>>
        /\ queue' = <<>> /\ discarded' = discarded \cup QueuedIds
    BY <1>9 DEF Destroy
  <2>2. \A c \in callbacks \cup answered : c <= applied /\ c \notin discarded
    BY <1>3 DEF CallbacksAccounted
  <2>3. \A c \in callbacks \cup answered : c \notin QueuedIds
    BY <1>1, <1>2, <2>2 DEF QueuedIds
  <2>. QED
    BY <1>3, <2>1, <2>2, <2>3 DEF CInv, CallbacksAccounted
<1>10. CASE CommitRejected
  <2>1. /\ UNCHANGED <<queue, applied, answered, callbacks>>
        /\ discarded' = discarded \cup {commits + 1}
    BY <1>10 DEF CommitRejected, surface
  <2>2. \A c \in callbacks \cup answered : c <= applied /\ c \notin discarded
    BY <1>3 DEF CallbacksAccounted
  <2>3. commits + 1 \notin callbacks \cup answered
    BY <1>1, <1>2, <2>2
  <2>4. \A i \in DOMAIN queue : queue[i].id # commits + 1
    BY <1>1, <1>2
  <2>. QED
    BY <1>3, <2>1, <2>2, <2>3, <2>4 DEF CInv, CallbacksAccounted
<1>11. CASE SendFrame
  <2>1. /\ UNCHANGED <<queue, applied, discarded>>
        /\ callbacks' = {} /\ answered' = answered \cup callbacks
    BY <1>11 DEF SendFrame
  <2>. QED
    BY <1>3, <2>1 DEF CInv, CallbacksAccounted
<1>12. CASE \/ Attach \/ FrameRequest \/ SetBarrier \/ WaitBarrier \/ SetTimestamp
            \/ GetFifo \/ DestroyFifo \/ GetSyncobj \/ SetAcquirePoint
            \/ CommitRejectedEarly \/ Unmap
            \/ \E o \in Outputs : ToggleTearing(o)
            \/ UNCHANGED vars
  <2>1. UNCHANGED <<queue, applied, callbacks, answered, discarded>>
    BY <1>12 DEF Attach, FrameRequest, SetBarrier, WaitBarrier, SetTimestamp, Request,
                 GetFifo, DestroyFifo, GetSyncobj, SetAcquirePoint,
                 CommitRejectedEarly, Unmap, ToggleTearing, vars, surface
  <2>. QED
    BY <1>4, <2>1
<1>13. ASSUME NEW w \in waiters, FenceReadable(w) \/ FenceFails(w) PROVE CInv'
  <2>1. Releases \/ UNCHANGED surface
    BY <1>13, FenceShape
  <2>2. UNCHANGED discarded
    BY <1>13, FenceShape
  <2>. QED
    BY <1>4, <1>5, <2>1, <2>2 DEF surface
<1>14. CASE CommitReady \/ CommitUnwaited
  BY <1>6, <1>14, AppendShape
<1>15. CASE \/ \E o \in Outputs : Presented(o) \/ SameBufferScanout(o)
            \/ \E id \in Commits : TimerFires(id)
            \/ UnfocusedTick
  BY <1>5, <1>15, ReleaseShape
<1>. QED
  BY <1>7, <1>8, <1>9, <1>10, <1>11, <1>12, <1>13, <1>14, <1>15 DEF Next, Offscreen

(* A frame callback is sent at most once, not before its commit is applied *)
(* and not when its commit was thrown away.                                *)
THEOREM CallbacksKept == Spec => []CallbacksAccounted
PROOF
<1>1. Init => CInv
  BY DEF Init, CInv, CallbacksAccounted
<1>2. IInv /\ CInv /\ [Next]_vars => CInv'
  BY StepCInv
<1>3. CInv => CallbacksAccounted
  BY DEF CInv
<1>. QED
  BY <1>1, <1>2, <1>3, Invariance, PTL DEF Spec

-----------------------------------------------------------------------------
(* The queue implements ContentUpdates.                                    *)

(* The numbers of a queue's states, oldest first: what a client sees of it.*)
Ids(q) == [i \in DOMAIN q |-> q[i].id]

LEMMA IdsFacts ==
  ASSUME NEW q \in Seq(QueuedState)
  PROVE  /\ Ids(q) \in Seq(Commits) /\ Len(Ids(q)) = Len(q)
         /\ DOMAIN q = 1..Len(q) /\ Len(q) \in Nat
         /\ \A i \in 1..Len(q) : Ids(q)[i] = q[i].id
PROOF
<1>1. DOMAIN q = 1..Len(q) /\ Len(q) \in Nat
  OBVIOUS
<1>2. \A i \in 1..Len(q) : Ids(q)[i] = q[i].id /\ q[i].id \in Commits
  <2>1. \A i \in 1..Len(q) : q[i] \in QueuedState
    OBVIOUS
  <2>2. \A i \in 1..Len(q) : q[i].id \in Commits
    BY <2>1 DEF QueuedState
  <2>. QED
    BY <1>1, <2>2 DEF Ids
<1>3. Ids(q) \in [1..Len(q) -> Commits]
  BY <1>1, <1>2 DEF Ids
<1>. QED
  BY <1>1, <1>2, <1>3

(* A run of tryProcess on q shows the oldest of q's updates.               *)
LEMMA RunShows ==
  ASSUME TypeOK, NEW q \in Seq(QueuedState), Runs(q)
  PROVE  \E k \in 0..Len(q) :
           /\ \A i \in 1..k : Ids(q)[i] \notin Unready'
           /\ Ids(queue') = [i \in 1..(Len(Ids(q)) - k) |-> Ids(q)[i + k]]
           /\ applied' = IF k = 0 THEN applied ELSE Ids(q)[k]
PROOF
<1>1. PICK k \in 0..Len(q) :
        /\ \A i \in 1..k : q[i].id \notin Unready'
        /\ DOMAIN queue' = 1..(Len(q) - k)
        /\ \A i \in 1..(Len(q) - k) : queue'[i].id = q[i + k].id
        /\ applied' = IF k = 0 THEN applied ELSE q[k].id
  BY RunFacts
<1>2. /\ Len(Ids(q)) = Len(q) /\ Len(q) \in Nat
      /\ \A i \in 1..Len(q) : Ids(q)[i] = q[i].id
  BY IdsFacts
<1>3. \A i \in 1..(Len(q) - k) : i + k \in 1..Len(q)
  BY <1>2
<1>4. Ids(queue') = [i \in 1..(Len(q) - k) |-> queue'[i].id]
  BY <1>1 DEF Ids
<1>5. Ids(queue') = [i \in 1..(Len(Ids(q)) - k) |-> Ids(q)[i + k]]
  BY <1>1, <1>2, <1>3, <1>4
<1>6. \A i \in 1..k : Ids(q)[i] \notin Unready'
  BY <1>1, <1>2
<1>7. applied' = IF k = 0 THEN applied ELSE Ids(q)[k]
  BY <1>1, <1>2
<1>. QED
  BY <1>5, <1>6, <1>7

(* Every step of the queue is a step of the abstract specification, or one *)
(* the client does not see.                                                *)
LEMMA StepUpdates ==
  ASSUME IInv, [Next]_vars
  PROVE  [ContentOrder!Next]_(ContentOrder!vars)
PROOF
<1>1. /\ queue \in Seq(QueuedState) /\ TypeOK
      /\ \A i \in DOMAIN queue : applied < queue[i].id /\ queue[i].id <= commits
      /\ applied <= commits
      /\ commits \in Int /\ applied \in Int
      /\ \A i \in DOMAIN queue : queue[i].id \in Int
  BY QueueFacts DEF QueuedState, Commits, IInv, TypeOK
<1>2. /\ Ids(queue) \in Seq(Commits) /\ Len(Ids(queue)) = Len(queue)
      /\ DOMAIN queue = 1..Len(queue) /\ Len(queue) \in Nat
      /\ \A i \in 1..Len(queue) : Ids(queue)[i] = queue[i].id
  BY <1>1, IdsFacts
<1>3. ASSUME Settles PROVE [ContentOrder!Next]_(ContentOrder!vars)
  <2>1. UNCHANGED <<queue, applied>> /\ Unready' \subseteq Unready
    BY <1>3 DEF Settles
  <2>2. Ids(queue') = [i \in 1..(Len(Ids(queue)) - 0) |-> Ids(queue)[i + 0]]
    BY <1>2, <2>1 DEF Ids
  <2>3. 0 \in 0..Len(Ids(queue)) /\ \A i \in 1..0 : Ids(queue)[i] \notin Unready'
    BY <1>2
  <2>4. ContentOrder!Show(Ids(queue), 0)
    BY <2>1, <2>2, <2>3 DEF ContentOrder!Show, Ids
  <2>5. ContentOrder!Release
    BY <2>1, <2>3, <2>4 DEF ContentOrder!Release, Ids
  <2>. QED
    BY <2>5 DEF ContentOrder!Next
<1>4. ASSUME Releases PROVE ContentOrder!Next
  <2>1. PICK q \in Seq(QueuedState) :
          /\ DOMAIN q = DOMAIN queue
          /\ \A i \in DOMAIN queue : q[i].id = queue[i].id
          /\ Runs(q)
    BY <1>4 DEF Releases
  <2>2. Ids(q) = Ids(queue)
    BY <2>1 DEF Ids
  <2>3. PICK k \in 0..Len(q) :
          /\ \A i \in 1..k : Ids(q)[i] \notin Unready'
          /\ Ids(queue') = [i \in 1..(Len(Ids(q)) - k) |-> Ids(q)[i + k]]
          /\ applied' = IF k = 0 THEN applied ELSE Ids(q)[k]
    BY <1>1, <2>1, RunShows
  <2>4. k \in 0..Len(Ids(queue))
    BY <2>2, <2>3, IdsFacts
  <2>5. Unready' \subseteq Unready
    BY <1>4 DEF Releases
  <2>6. /\ \A i \in 1..k : Ids(queue)[i] \notin Unready'
        /\ Ids(queue') = [i \in 1..(Len(Ids(queue)) - k) |-> Ids(queue)[i + k]]
        /\ applied' = IF k = 0 THEN applied ELSE Ids(queue)[k]
    BY <2>2, <2>3
  <2>7. ContentOrder!Show(Ids(queue), k)
    BY <2>6 DEF ContentOrder!Show, Ids
  <2>8. ContentOrder!Release
    BY <2>4, <2>5, <2>7 DEF ContentOrder!Release, Ids
  <2>. QED
    BY <2>8 DEF ContentOrder!Next
<1>5. ASSUME NEW s \in QueuedState, s.id = commits + 1
      PROVE  /\ Append(queue, s) \in Seq(QueuedState)
             /\ Ids(Append(queue, s)) = Append(Ids(queue), s.id)
             /\ Len(Append(queue, s)) = Len(queue) + 1
             /\ s.id > applied
             /\ \A i \in 1..Len(Ids(queue)) : s.id > Ids(queue)[i]
  <2> DEFINE q == Append(queue, s)
             w == Append(Ids(queue), s.id)
  <2>1. /\ q \in Seq(QueuedState) /\ Len(q) = Len(queue) + 1
        /\ \A i \in 1..Len(queue) : q[i] = queue[i]
        /\ q[Len(queue) + 1] = s
    BY <1>1, <1>2
  <2>2. s.id \in Commits
    BY DEF QueuedState
  <2>3. /\ w \in Seq(Commits) /\ Len(w) = Len(queue) + 1
        /\ \A i \in 1..Len(queue) : w[i] = Ids(queue)[i]
        /\ w[Len(queue) + 1] = s.id
    BY <1>2, <2>2
  <2>. HIDE DEF q, w
  <2>4. Ids(q) \in Seq(Commits) /\ Len(Ids(q)) = Len(queue) + 1
        /\ \A i \in 1..(Len(queue) + 1) : Ids(q)[i] = q[i].id
    BY <2>1, IdsFacts
  <2>5. \A i \in 1..(Len(queue) + 1) : i \in 1..Len(queue) \/ i = Len(queue) + 1
    BY <1>2
  <2>6. \A i \in 1..(Len(queue) + 1) : Ids(q)[i] = w[i]
    BY <1>2, <2>1, <2>3, <2>4, <2>5
  <2>7. Ids(q) = w
    BY <2>3, <2>4, <2>6
  <2>8. s.id > applied /\ \A i \in 1..Len(Ids(queue)) : s.id > Ids(queue)[i]
    BY <1>1, <1>2, <1>5
  <2>. QED
    BY <2>1, <2>7, <2>8 DEF q, w
<1>6. ASSUME Appends PROVE ContentOrder!Next
  <2>1. PICK s \in QueuedState : s.id = commits + 1 /\ Runs(Append(queue, s))
    BY <1>6 DEF Appends
  <2> DEFINE q == Append(queue, s)
  <2>2. /\ q \in Seq(QueuedState) /\ Ids(q) = Append(Ids(queue), s.id)
        /\ Len(q) = Len(queue) + 1 /\ Runs(q)
        /\ s.id > applied /\ \A i \in 1..Len(Ids(queue)) : s.id > Ids(queue)[i]
    BY <1>5, <2>1
  <2>. HIDE DEF q
  <2>3. PICK k \in 0..Len(q) :
          /\ \A i \in 1..k : Ids(q)[i] \notin Unready'
          /\ Ids(queue') = [i \in 1..(Len(Ids(q)) - k) |-> Ids(q)[i + k]]
          /\ applied' = IF k = 0 THEN applied ELSE Ids(q)[k]
    BY <1>1, <2>2, RunShows
  <2>4. k \in 0..(Len(Ids(queue)) + 1)
    BY <1>2, <2>2, <2>3
  <2>5. Unready' = Unready /\ s.id \in Commits
    BY <1>6 DEF Appends, QueuedState
  <2>6. ContentOrder!Show(Append(Ids(queue), s.id), k)
    BY <2>2, <2>3 DEF ContentOrder!Show, Ids
  <2>7. ContentOrder!Commit
    BY <2>2, <2>4, <2>5, <2>6 DEF ContentOrder!Commit, Ids
  <2>. QED
    BY <2>7 DEF ContentOrder!Next
<1>7. ASSUME CommitWaits PROVE ContentOrder!Next
  <2> DEFINE s == NewState({FENCE})
  <2>1. /\ commits < MaxCommits /\ pending.buffer # "null"
        /\ queue' = Append(queue, s)
        /\ UNCHANGED <<applied, forced, brokenFds>>
        /\ \E left \in Int :
             waiters' = waiters \cup {[id |-> commits + 1, left |-> left]}
    <3>1. FencesOf = {1} \/ FencesOf = 0..MaxFds \/ FencesOf = {0}
      BY DEF FencesOf
    <3>2. PICK n \in FencesOf : \E u \in 1..n :
            waiters' = waiters \cup {[id |-> commits + 1, left |-> u - 1]}
      BY <1>7 DEF CommitWaits
    <3>3. PICK u \in 1..n :
            waiters' = waiters \cup {[id |-> commits + 1, left |-> u - 1]}
      BY <3>2
    <3>4. u - 1 \in Int
      BY <3>3
    <3>. QED
      BY <1>7, <3>3, <3>4 DEF CommitWaits, Enqueue
  <2>2. commits + 1 \in Commits
    BY <1>1, <2>1, BoundsAssumption DEF Commits, TypeOK
  <2>3. {FENCE} \in SUBSET LockReasons /\ FIFO \notin {FENCE} /\ TIMER \notin {FENCE}
    BY DEF FENCE, FIFO, TIMER, LockReasons
  <2>4. s \in QueuedState /\ s.id = commits + 1
    BY <2>1, <2>2, <2>3, AppendedQueue
  <2>. HIDE DEF s
  <2>5. Unready \subseteq Unready' /\ Unready' \subseteq Unready \cup {commits + 1}
    <3>1. PICK left \in Int :
            waiters' = waiters \cup {[id |-> commits + 1, left |-> left]}
      BY <2>1
    <3> DEFINE w0 == [id |-> commits + 1, left |-> left]
    <3>2. waiters' = waiters \cup {w0} /\ w0.id = commits + 1
      BY <3>1
    <3>. HIDE DEF w0
    <3>3. {w.id : w \in waiters'} = {w.id : w \in waiters} \cup {commits + 1}
      BY <3>2
    <3>. QED
      BY <2>1, <3>3 DEF Unready
  <2>6. /\ queue' \in Seq(QueuedState) /\ Ids(queue') = Append(Ids(queue), s.id)
        /\ Len(queue') = Len(queue) + 1
        /\ s.id > applied /\ \A i \in 1..Len(Ids(queue)) : s.id > Ids(queue)[i]
    BY <1>5, <2>1, <2>4
  <2> DEFINE w == Append(Ids(queue), s.id)
  <2>7. /\ w \in Seq(Commits) /\ Ids(queue') = w
        /\ w = [i \in 1..(Len(w) - 0) |-> w[i + 0]]
    BY <1>2, <2>2, <2>4, <2>6
  <2>. HIDE DEF w
  <2>8. ContentOrder!Show(w, 0)
    BY <2>1, <2>7 DEF ContentOrder!Show, Ids
  <2>9. 0 \in 0..(Len(Ids(queue)) + 1)
    BY <1>2
  <2>10. ContentOrder!Commit
    BY <2>2, <2>4, <2>5, <2>6, <2>8, <2>9 DEF ContentOrder!Commit, Ids, w
  <2>. QED
    BY <2>10 DEF ContentOrder!Next
<1>8. ASSUME CommitNull \/ Destroy PROVE ContentOrder!Next
  <2>1. queue' = <<>> /\ UNCHANGED <<waiters, forced, brokenFds>>
    BY <1>8 DEF CommitNull, Destroy
  <2>2. Ids(queue') = <<>>
    BY <2>1 DEF Ids
  <2>3. Unready' = Unready
    BY <2>1 DEF Unready
  <2>4. applied' = applied \/ applied' = commits + 1
    BY <1>8 DEF CommitNull, Destroy
  <2>5. \/ applied' = applied
        \/ applied' > applied /\ \A i \in 1..Len(Ids(queue)) : applied' > Ids(queue)[i]
    BY <1>1, <1>2, <2>4
  <2>6. ContentOrder!Clear
    BY <2>2, <2>3, <2>5 DEF ContentOrder!Clear, Ids
  <2>. QED
    BY <2>6 DEF ContentOrder!Next
<1>9. CASE \/ Attach \/ FrameRequest \/ SetBarrier \/ WaitBarrier \/ SetTimestamp
           \/ GetFifo \/ DestroyFifo \/ GetSyncobj \/ SetAcquirePoint
           \/ CommitRejectedEarly \/ CommitRejected \/ SendFrame \/ Unmap
           \/ \E o \in Outputs : ToggleTearing(o)
           \/ UNCHANGED vars
  <2>1. UNCHANGED <<queue, applied, waiters, forced, brokenFds>>
    BY <1>9 DEF Attach, FrameRequest, SetBarrier, WaitBarrier, SetTimestamp, Request,
                GetFifo, DestroyFifo, GetSyncobj, SetAcquirePoint, CommitRejected,
                CommitRejectedEarly, SendFrame, Unmap, ToggleTearing, vars, surface
  <2>. QED
    BY <1>3, <2>1 DEF Settles, Unready
<1>10. ASSUME NEW w \in waiters, FenceReadable(w) \/ FenceFails(w)
       PROVE  [ContentOrder!Next]_(ContentOrder!vars)
  <2>1. Releases \/ Settles
    BY <1>10, FenceShape
  <2>. QED
    BY <1>3, <1>4, <2>1
<1>11. CASE CommitReady \/ CommitUnwaited
  BY <1>6, <1>11, AppendShape
<1>12. CASE \/ \E o \in Outputs : Presented(o) \/ SameBufferScanout(o)
            \/ \E id \in Commits : TimerFires(id)
            \/ UnfocusedTick
  BY <1>4, <1>12, ReleaseShape
<1>. QED
  BY <1>7, <1>8, <1>9, <1>10, <1>11, <1>12 DEF Next, Offscreen

(* The queue keeps the promise of ContentUpdates: commits are shown in     *)
(* order, none is skipped but by a clear, none is shown before its fence.  *)
THEOREM Implements == Spec => UpdatesSpec
PROOF
<1>1. Init => ContentOrder!Init
  BY DEF Init, ContentOrder!Init, Unready
<1>2. IInv /\ [Next]_vars => [ContentOrder!Next]_(ContentOrder!vars)
  BY StepUpdates
<1>. QED
  BY <1>1, <1>2, Invariance, PTL DEF Spec, UpdatesSpec, ContentOrder!Spec

-----------------------------------------------------------------------------
(* Pacing.                                                                 *)

(* tryProcess does not get past a state locked on a barrier that an older  *)
(* state of the queue sets, nor past a front with another lock.            *)
LEMMA NotOvertaken ==
  ASSUME TypeOK, NEW q \in Seq(QueuedState), NEW b \in BOOLEAN, TryProcess(q, b),
         \A m, n \in DOMAIN q : m < n => q[m].id < q[n].id,
         \A m \in DOMAIN q : applied < q[m].id,
         NEW i \in DOMAIN q, NEW j \in DOMAIN q, i < j, q[i].barrierSet,
         FIFO \in q[j].lockMask \/ q[1].lockMask \ {FIFO} # {}
  PROVE  ~(applied' >= q[j].id)
PROOF
<1>1. PICK k \in 0..Len(q) :
        /\ \A m \in 1..k : Open(q, b, m)
        /\ CommitStates(q, b, k)
  BY DEF TryProcess
<1>2. applied' = IF k = 0 THEN applied ELSE q[k].id
  BY <1>1 DEF CommitStates
<1>3. DOMAIN q = 1..Len(q) /\ Len(q) \in Nat /\ \A m \in DOMAIN q : q[m].id \in Int
  <2>1. DOMAIN q = 1..Len(q) /\ Len(q) \in Nat /\ \A m \in DOMAIN q : q[m] \in QueuedState
    OBVIOUS
  <2>. QED
    BY <2>1 DEF QueuedState, Commits
<1>4. k < j
  <2>. SUFFICES ASSUME j <= k PROVE FALSE
    BY <1>3
  <2>1. Open(q, b, j) /\ Open(q, b, 1)
    BY <1>1, <1>3
  <2>2. BarrierBefore(q, b, j)
    BY <1>3 DEF BarrierBefore
  <2>3. FIFO \notin q[j].lockMask /\ q[1].lockMask \ {FIFO} = {}
    BY <2>1, <2>2 DEF Open
  <2>. QED
    BY <2>3
<1>5. CASE k = 0
  BY <1>2, <1>3, <1>5 DEF TypeOK
<1>6. CASE k > 0
  BY <1>2, <1>3, <1>4, <1>6
<1>. QED
  BY <1>5, <1>6

(* No step applies two states of which the older sets the barrier the      *)
(* younger is locked on: an unlock that opens the younger one leaves a     *)
(* front that is still locked.                                             *)
LEMMA StepPaced ==
  ASSUME IInv, [Next]_vars,
         NEW i \in DOMAIN queue, NEW j \in DOMAIN queue, i < j,
         queue[i].barrierSet, FIFO \in queue[j].lockMask, applied' >= queue[j].id
  PROVE  queue[j].id \in discarded'
PROOF
<1>1. /\ DOMAIN queue = 1..Len(queue) /\ Len(queue) \in Nat
      /\ queue \in Seq(QueuedState)
      /\ \A n \in DOMAIN queue : queue[n] \in QueuedState
      /\ \A m, n \in DOMAIN queue : m < n => queue[m].id < queue[n].id
      /\ \A n \in DOMAIN queue : applied < queue[n].id /\ queue[n].id <= commits
      /\ applied <= commits
  BY QueueFacts
<1>2. /\ TypeOK /\ barrier \in BOOLEAN /\ applied \in Int /\ commits \in Int
      /\ \A n \in DOMAIN queue : queue[n].id \in Int
  BY <1>1 DEF IInv, TypeOK, QueuedState, Commits
<1>3. 1 \in DOMAIN queue /\ queue[1].lockMask # {} /\ 1 < j
  BY <1>1 DEF IInv, NoMissedWakeup, Open
<1>4. applied' # applied
  BY <1>1, <1>2
<1>5. ASSUME NEW q \in Seq(QueuedState), NEW b \in BOOLEAN, TryProcess(q, b),
             DOMAIN q = DOMAIN queue,
             \A n \in DOMAIN queue :
               q[n].id = queue[n].id /\ q[n].barrierSet = queue[n].barrierSet,
             FIFO \in q[j].lockMask \/ q[1].lockMask \ {FIFO} # {}
      PROVE  FALSE
  <2>1. /\ \A m, n \in DOMAIN q : m < n => q[m].id < q[n].id
        /\ \A n \in DOMAIN q : applied < q[n].id
        /\ q[i].barrierSet /\ i \in DOMAIN q /\ j \in DOMAIN q
    BY <1>1, <1>5
  <2>2. ~(applied' >= q[j].id)
    BY <1>2, <1>5, <2>1, NotOvertaken
  <2>. QED
    BY <1>5, <2>2
(* The queue after unlockFirst.                                            *)
<1>6. ASSUME NEW reasons
      PROVE  /\ UnlockedFirst(queue, reasons) \in Seq(QueuedState)
             /\ DOMAIN UnlockedFirst(queue, reasons) = DOMAIN queue
             /\ \A n \in DOMAIN queue :
                  /\ UnlockedFirst(queue, reasons)[n].id = queue[n].id
                  /\ UnlockedFirst(queue, reasons)[n].barrierSet = queue[n].barrierSet
                  /\ UnlockedFirst(queue, reasons)[n].lockMask =
                       IF n \in FirstLocked(queue, reasons)
                       THEN queue[n].lockMask \ reasons ELSE queue[n].lockMask
  <2> DEFINE u == UnlockedFirst(queue, reasons)
  <2>1. \A n \in DOMAIN queue :
          u[n] = IF n \in FirstLocked(queue, reasons)
                 THEN [queue[n] EXCEPT !.lockMask = @ \ reasons] ELSE queue[n]
    BY DEF UnlockedFirst
  <2>2. /\ u \in Seq(QueuedState) /\ DOMAIN u = DOMAIN queue
        /\ \A n \in DOMAIN queue :
             /\ u[n].id = queue[n].id
             /\ u[n].lockMask = IF n \in FirstLocked(queue, reasons)
                                THEN queue[n].lockMask \ reasons ELSE queue[n].lockMask
    BY UnlockedFirstFacts
  <2>. HIDE DEF u
  <2>3. ASSUME NEW n \in DOMAIN queue PROVE u[n].barrierSet = queue[n].barrierSet
    <3>1. CASE n \in FirstLocked(queue, reasons)
      <4>1. u[n] = [queue[n] EXCEPT !.lockMask = @ \ reasons]
        BY <2>1, <3>1
      <4>. QED
        BY <1>1, <4>1 DEF QueuedState
    <3>2. CASE n \notin FirstLocked(queue, reasons)
      BY <2>1, <3>2
    <3>. QED
      BY <3>1, <3>2
  <2>. QED
    BY <2>2, <2>3 DEF u
<1>7. ASSUME NEW o \in Outputs, Presented(o) \/ SameBufferScanout(o)
      PROVE  FALSE
  <2> DEFINE q == UnlockedFirst(queue, {FIFO})
  <2>1. PICK b \in BOOLEAN : TryProcess(q, b)
    BY <1>2, <1>7 DEF Presented, SameBufferScanout
  <2>2. /\ q \in Seq(QueuedState) /\ DOMAIN q = DOMAIN queue
        /\ \A n \in DOMAIN queue :
             /\ q[n].id = queue[n].id /\ q[n].barrierSet = queue[n].barrierSet
             /\ q[n].lockMask = IF n \in FirstLocked(queue, {FIFO})
                                THEN queue[n].lockMask \ {FIFO} ELSE queue[n].lockMask
    BY <1>6
  <2>3. FIFO \in q[j].lockMask \/ q[1].lockMask \ {FIFO} # {}
    <3>1. CASE FIFO \in queue[1].lockMask
      <4>1. j \notin FirstLocked(queue, {FIFO})
        BY <1>1, <1>3, <3>1 DEF FirstLocked
      <4>. QED
        BY <2>2, <4>1
    <3>2. CASE FIFO \notin queue[1].lockMask
      BY <1>3, <2>2, <3>2
    <3>. QED
      BY <3>1, <3>2
  <2>. HIDE DEF q
  <2>. QED
    BY <1>5, <2>1, <2>2, <2>3
<1>8. ASSUME UnfocusedTick PROVE FALSE
  <2> DEFINE q == UnlockedFirst(queue, LockReasons)
  <2>1. TryProcess(q, barrier)
    BY <1>8 DEF UnfocusedTick
  <2>2. /\ q \in Seq(QueuedState) /\ DOMAIN q = DOMAIN queue
        /\ \A n \in DOMAIN queue :
             /\ q[n].id = queue[n].id /\ q[n].barrierSet = queue[n].barrierSet
             /\ q[n].lockMask = IF n \in FirstLocked(queue, LockReasons)
                                THEN queue[n].lockMask \ LockReasons
                                ELSE queue[n].lockMask
    BY <1>6
  <2>3. queue[1].lockMask \cap LockReasons # {}
    BY <1>1, <1>3 DEF QueuedState
  <2>4. j \notin FirstLocked(queue, LockReasons)
    BY <1>1, <1>3, <2>3 DEF FirstLocked
  <2>5. FIFO \in q[j].lockMask
    BY <2>2, <2>4
  <2>. HIDE DEF q
  <2>. QED
    BY <1>2, <1>5, <2>1, <2>2, <2>5
(* unlock takes no FIFO lock away, nor does the timer.                     *)
<1>9. ASSUME NEW q, DOMAIN q = DOMAIN queue, q = [n \in 1..Len(queue) |-> q[n]],
             \A n \in DOMAIN queue :
               /\ q[n] \in QueuedState
               /\ q[n].id = queue[n].id /\ q[n].barrierSet = queue[n].barrierSet
               /\ FIFO \in queue[n].lockMask => FIFO \in q[n].lockMask,
             TryProcess(q, barrier)
      PROVE  FALSE
  <2>1. q \in Seq(QueuedState)
    <3>1. \A n \in 1..Len(queue) : q[n] \in QueuedState
      BY <1>1, <1>9
    <3>. QED
      BY <1>1, <1>9, <3>1
  <2>. QED
    BY <1>2, <1>5, <1>9, <2>1
<1>10. ASSUME NEW id \in Commits, TimerFires(id) PROVE FALSE
  <2> DEFINE q == [n \in DOMAIN queue |->
                     IF queue[n].id = id
                     THEN [queue[n] EXCEPT !.lockMask = @ \ {TIMER}, !.timer = FALSE]
                     ELSE queue[n]]
  <2>1. TryProcess(q, barrier)
    BY <1>10 DEF TimerFires
  <2>2. DOMAIN q = DOMAIN queue /\ q = [n \in 1..Len(queue) |-> q[n]]
    BY <1>1
  <2>3. \A n \in DOMAIN queue :
          q[n] = IF queue[n].id = id
                 THEN [queue[n] EXCEPT !.lockMask = @ \ {TIMER}, !.timer = FALSE]
                 ELSE queue[n]
    OBVIOUS
  <2>. HIDE DEF q
  <2>4. ASSUME NEW n \in DOMAIN queue
        PROVE  /\ q[n] \in QueuedState
               /\ q[n].id = queue[n].id /\ q[n].barrierSet = queue[n].barrierSet
               /\ FIFO \in queue[n].lockMask => FIFO \in q[n].lockMask
    <3>1. CASE queue[n].id = id
      <4>1. q[n] = [queue[n] EXCEPT !.lockMask = @ \ {TIMER}, !.timer = FALSE]
        BY <2>3, <3>1
      <4>2. queue[n] \in QueuedState
        BY <1>1
      <4>3. /\ q[n] \in QueuedState
            /\ q[n].id = queue[n].id /\ q[n].barrierSet = queue[n].barrierSet
            /\ q[n].lockMask = queue[n].lockMask \ {TIMER}
        BY <4>1, <4>2 DEF QueuedState
      <4>. QED
        BY <4>3 DEF FIFO, TIMER
    <3>2. CASE queue[n].id # id
      BY <1>1, <2>3, <3>2
    <3>. QED
      BY <3>1, <3>2
  <2>. QED
    BY <1>9, <2>1, <2>2, <2>4
<1>11. ASSUME NEW w \in waiters, FenceReadable(w) \/ FenceFails(w) PROVE FALSE
  <2> DEFINE q == Unlocked(queue, w.id, FENCE)
  <2>1. TryProcess(q, barrier)
    BY <1>4, <1>11 DEF FenceReadable, FenceFails, surface
  <2>2. DOMAIN q = DOMAIN queue /\ q = [n \in 1..Len(queue) |-> q[n]]
    BY <1>1 DEF Unlocked
  <2>3. \A n \in DOMAIN queue :
          q[n] = IF queue[n].id = w.id
                 THEN [queue[n] EXCEPT !.lockMask = @ \ {FENCE}] ELSE queue[n]
    BY DEF Unlocked
  <2>. HIDE DEF q
  <2>4. ASSUME NEW n \in DOMAIN queue
        PROVE  /\ q[n] \in QueuedState
               /\ q[n].id = queue[n].id /\ q[n].barrierSet = queue[n].barrierSet
               /\ FIFO \in queue[n].lockMask => FIFO \in q[n].lockMask
    <3>1. CASE queue[n].id = w.id
      <4>1. q[n] = [queue[n] EXCEPT !.lockMask = @ \ {FENCE}]
        BY <2>3, <3>1
      <4>2. queue[n] \in QueuedState
        BY <1>1
      <4>3. /\ q[n] \in QueuedState
            /\ q[n].id = queue[n].id /\ q[n].barrierSet = queue[n].barrierSet
            /\ q[n].lockMask = queue[n].lockMask \ {FENCE}
        BY <4>1, <4>2 DEF QueuedState
      <4>. QED
        BY <4>3 DEF FIFO, FENCE
    <3>2. CASE queue[n].id # w.id
      BY <1>1, <2>3, <3>2
    <3>. QED
      BY <3>1, <3>2
  <2>. QED
    BY <1>9, <2>1, <2>2, <2>4
<1>12. CASE CommitReady \/ CommitUnwaited
  <2> DEFINE s == NewState({})
             q == Append(queue, s)
  <2>1. TryProcess(q, barrier) /\ pending.buffer # "null" /\ commits < MaxCommits
    BY <1>12 DEF CommitReady, CommitUnwaited, Enqueue
  <2>2. commits + 1 \in Commits
    BY <1>2, <2>1, BoundsAssumption DEF Commits, TypeOK
  <2>3. /\ s.id = commits + 1 /\ q \in Seq(QueuedState)
        /\ DOMAIN q = 1..(Len(queue) + 1)
        /\ \A n \in DOMAIN queue : q[n] = queue[n]
        /\ q[Len(queue) + 1] = s
    BY <2>1, <2>2, AppendedQueue
  <2>. HIDE DEF s, q
  <2>4. \A n \in DOMAIN q : n \in DOMAIN queue \/ n = Len(queue) + 1
    BY <1>1, <2>3
  <2>5. ASSUME NEW m \in DOMAIN q, NEW n \in DOMAIN q, m < n
        PROVE  q[m].id < q[n].id
    <3>1. m \in DOMAIN queue
      BY <1>1, <2>3, <2>4, <2>5
    <3>2. CASE n \in DOMAIN queue
      BY <1>1, <2>3, <2>5, <3>1, <3>2
    <3>3. CASE n = Len(queue) + 1
      <4>1. q[m].id <= commits /\ q[n].id = commits + 1 /\ q[m].id \in Int
        BY <1>1, <1>2, <2>3, <3>1, <3>3
      <4>. QED
        BY <1>2, <4>1
    <3>. QED
      BY <2>4, <3>2, <3>3
  <2>6. \A n \in DOMAIN q : applied < q[n].id
    BY <1>1, <1>2, <2>3, <2>4
  <2>7. /\ i \in DOMAIN q /\ j \in DOMAIN q
        /\ q[i] = queue[i] /\ q[j] = queue[j]
    BY <1>1, <2>3
  <2>8. ~(applied' >= q[j].id)
    BY <1>2, <2>1, <2>3, <2>5, <2>6, <2>7, NotOvertaken
  <2>. QED
    BY <2>7, <2>8
<1>13. CASE CommitNull
  BY <1>13 DEF CommitNull, QueuedIds
<1>14. ASSUME UNCHANGED applied PROVE FALSE
  BY <1>4, <1>14
<1>15. CASE \/ Attach \/ FrameRequest \/ SetBarrier \/ WaitBarrier \/ SetTimestamp
            \/ GetFifo \/ DestroyFifo \/ GetSyncobj \/ SetAcquirePoint
            \/ CommitRejectedEarly \/ CommitRejected \/ CommitWaits
            \/ SendFrame \/ Unmap \/ Destroy
            \/ \E o \in Outputs : ToggleTearing(o)
            \/ UNCHANGED vars
  <2>1. UNCHANGED applied
    BY <1>15 DEF Attach, FrameRequest, SetBarrier, WaitBarrier, SetTimestamp, Request,
                 GetFifo, DestroyFifo, GetSyncobj, SetAcquirePoint, CommitRejected,
                 CommitRejectedEarly, CommitWaits, SendFrame, Unmap, Destroy,
                 ToggleTearing, vars, surface
  <2>. QED
    BY <1>14, <2>1
<1>. QED
  BY <1>7, <1>8, <1>10, <1>11, <1>12, <1>13, <1>15 DEF Next, Offscreen

(* Of two states paced by a barrier, no step applies both.                 *)
THEOREM Paced == Spec => OneBarrierPerStep
PROOF
<1>1. IInv /\ [Next]_vars =>
        [\A i, j \in DOMAIN queue :
           /\ i < j
           /\ queue[i].barrierSet
           /\ FIFO \in queue[j].lockMask
           /\ applied' >= queue[j].id
           => queue[j].id \in discarded']_vars
  BY StepPaced
<1>. QED
  BY <1>1, Invariance, PTL DEF Spec, OneBarrierPerStep
=============================================================================
