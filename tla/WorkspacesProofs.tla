--------------------------- MODULE WorkspacesProofs ---------------------------
(***************************************************************************)
(* The properties of Workspaces for every number of outputs, workspaces and*)
(* windows, under any configuration.  Two hypotheses: Orderly, which leaves*)
(* out the three ways something is left behind on an output that goes, and *)
(* IdsNeverRunOut, that a loop that looks for a free id finds one.  What   *)
(* is said of the types and of the first owner needs only the second.      *)
(*                                                                         *)
(* The proof follows the code.  Fine says that the records of where a      *)
(* workspace is agree, and each function of CMonitor and of the placement  *)
(* controller is shown to keep it; Sound adds what holds between two       *)
(* handlers, which a monitor that comes or goes breaks on the way.         *)
(* Returns, in the last part, follows m_lastMonitor on any desk.           *)
(***************************************************************************)
EXTENDS Workspaces, WellFoundedInduction, TLAPS

(***************************************************************************)
(* Numbers, sequences and loops.  The library's theorems on induction take *)
(* an operator as a parameter; a set of numbers does as well, and FoldLeft *)
(* is a loop whose steps it follows.                                       *)
(***************************************************************************)

(* A set of numbers that is not empty has a least one. *)
LEMMA NatMin ==
  ASSUME NEW T, T \subseteq Nat, T # {}
  PROVE  \E x \in T : \A y \in T : x <= y
<1>1. PICK x \in T : \A y \in T : ~ (<<y, x>> \in OpToRel(<, Nat))
  BY NatLessThanWellFounded, WFMin
<1>2. ASSUME NEW y \in T PROVE x <= y
  <2>1. <<y, x>> \in Nat \X Nat
    OBVIOUS
  <2>2. ~(y < x)
    BY <1>1, <2>1 DEF OpToRel
  <2> QED
    BY <2>2
<1> QED
  BY <1>2

(* Induction over a set: the library's rules take an operator, this one does
   not. *)
LEMMA NatInd ==
  ASSUME NEW S, 0 \in S, \A n \in Nat : n \in S => n + 1 \in S
  PROVE  \A n \in Nat : n \in S
<1> SUFFICES ASSUME NEW k \in Nat, k \notin S PROVE FALSE
  OBVIOUS
<1> DEFINE T == {n \in Nat : n \notin S}
<1>1. PICK x \in T : \A y \in T : x <= y
  <2>1. T # {} /\ T \subseteq Nat
    OBVIOUS
  <2> HIDE DEF T
  <2> QED
    BY <2>1, NatMin
<1>2. x # 0 /\ x \in Nat /\ x \notin S
  OBVIOUS
<1>3. x - 1 \in Nat /\ x - 1 \notin T
  BY <1>1, <1>2
<1> QED
  BY <1>2, <1>3

(* The largest element of a set that has k + 1 and nothing above it. *)
LEMMA MaxLast ==
  ASSUME NEW k \in Nat, NEW t \in SUBSET (1..(k+1)), k + 1 \in t
  PROVE  Max(t) = k + 1
<1>1. \A y \in t : k + 1 >= y
  OBVIOUS
<1>2. \A x \in t : (\A y \in t : x >= y) => x = k + 1
  <2> SUFFICES ASSUME NEW x \in t, \A y \in t : x >= y PROVE x = k + 1
    OBVIOUS
  <2>1. x >= k + 1 /\ x <= k + 1 /\ x \in Nat
    BY <1>1
  <2> QED
    BY <2>1
<1> QED
  BY <1>1, <1>2 DEF Max

(* A set of numbers up to k that is not empty has its largest element. *)
LEMMA MaxIn ==
  ASSUME NEW k \in Nat, NEW t \in SUBSET (1..k), t # {}
  PROVE  Max(t) \in t
<1> DEFINE S == {i \in Nat : i > k \/ \A j \in t : j <= k - i}
<1> DEFINE R == {i \in Nat : \A j \in t : j <= i}
<1>1. k \in R
  OBVIOUS
<1>2. R \subseteq Nat /\ R # {}
  BY <1>1
<1>3. PICK x \in R : \A y \in R : x <= y
  <2> HIDE DEF R
  <2> QED
    BY <1>2, NatMin
<1>4. x \in t
  <2> SUFFICES ASSUME x \notin t PROVE FALSE
    OBVIOUS
  <2>1. PICK j \in t : TRUE
    OBVIOUS
  <2>2. x # 0
    BY <2>1
  <2>3. x - 1 \in Nat /\ x - 1 \in R
    BY <2>2
  <2> QED
    BY <2>3, <1>3
<1>5. \A y \in t : x >= y
  OBVIOUS
<1> QED
  BY <1>4, <1>5 DEF Max

LoopBody(base, g, s, f) ==
  \A t \in DOMAIN f : f[t] = IF t = {} THEN base ELSE g[<<f[t \ {Max(t)}], s[Max(t)]>>]

(* There is such a loop for every sequence: what makes FoldLeft, a CHOOSE,
   defined. *)
LEMMA LoopExists ==
  ASSUME NEW D, NEW W, NEW base \in D, NEW s \in Seq(W), NEW g \in [D \X W -> D]
  PROVE  \E f \in [SUBSET (1..Len(s)) -> D] : LoopBody(base, g, s, f)
<1> DEFINE F(k) == \E f \in [SUBSET (1..k) -> D] : LoopBody(base, g, s, f)
<1> DEFINE S == {k \in Nat : k <= Len(s) => F(k)}
<1>0. Len(s) \in Nat
  OBVIOUS
<1>1. 0 \in S
  <2> DEFINE f == [t \in SUBSET (1..0) |-> base]
  <2>1. \A t \in SUBSET (1..0) : t = {}
    OBVIOUS
  <2>2. f \in [SUBSET (1..0) -> D] /\ LoopBody(base, g, s, f)
    BY <2>1 DEF LoopBody
  <2> QED
    BY <2>2
<1>2. ASSUME NEW k \in Nat, k \in S PROVE k + 1 \in S
  <2> SUFFICES ASSUME k + 1 <= Len(s) PROVE F(k + 1)
    <3> HIDE DEF F
    <3> QED
      OBVIOUS
  <2>0. F(k)
    <3> HIDE DEF F
    <3> QED
      BY <1>2, <1>0
  <2>1. PICK f \in [SUBSET (1..k) -> D] : LoopBody(base, g, s, f)
    BY <2>0
  <2> DEFINE h == [t \in SUBSET (1..(k+1)) |->
                     IF k + 1 \in t THEN g[<<f[t \ {k + 1}], s[k + 1]>>] ELSE f[t]]
  <2>2. \A t \in SUBSET (1..(k+1)) : t \ {k + 1} \in SUBSET (1..k)
    OBVIOUS
  <2>3. \A t \in SUBSET (1..(k+1)) : k + 1 \notin t => t \in SUBSET (1..k)
    OBVIOUS
  <2>4. s[k + 1] \in W
    OBVIOUS
  <2>5. h \in [SUBSET (1..(k+1)) -> D]
    BY <2>2, <2>3, <2>4
  <2>6. LoopBody(base, g, s, h)
    <3> SUFFICES ASSUME NEW t \in SUBSET (1..(k+1))
                 PROVE  h[t] = IF t = {} THEN base ELSE g[<<h[t \ {Max(t)}], s[Max(t)]>>]
      BY DEF LoopBody
    <3>1. CASE k + 1 \in t
      <4>1. Max(t) = k + 1
        BY <3>1, MaxLast
      <4>2. h[t \ {k + 1}] = f[t \ {k + 1}] /\ t \ {k + 1} \in SUBSET (1..(k+1))
        BY <2>2
      <4> QED
        BY <3>1, <4>1, <4>2
    <3>2. CASE k + 1 \notin t
      <4>1. h[t] = f[t] /\ t \in SUBSET (1..k)
        BY <3>2, <2>3
      <4>2. f[t] = IF t = {} THEN base ELSE g[<<f[t \ {Max(t)}], s[Max(t)]>>]
        BY <2>1, <4>1 DEF LoopBody
      <4>3. t # {} => h[t \ {Max(t)}] = f[t \ {Max(t)}]
        BY <3>2
      <4> QED
        BY <4>1, <4>2, <4>3
    <3> QED
      BY <3>1, <3>2
  <2> QED
    BY <2>5, <2>6
<1>3. F(Len(s))
  <2>1. Len(s) \in S
    <3> HIDE DEF S
    <3> QED
      BY <1>0, <1>1, <1>2, NatInd
  <2> HIDE DEF F
  <2> QED
    BY <2>1
<1> QED
  BY <1>3

(* After k + 1 elements it is one step further than after k. *)
LEMMA LoopStep ==
  ASSUME NEW D, NEW W, NEW base, NEW s \in Seq(W), NEW g,
         NEW f \in [SUBSET (1..Len(s)) -> D], LoopBody(base, g, s, f),
         NEW k \in Nat, k + 1 <= Len(s)
  PROVE  f[1..(k+1)] = g[<<f[1..k], s[k+1]>>] /\ f[1..k] \in D
<1>1. Max(1..(k+1)) = k + 1
  BY MaxLast
<1>2. (1..(k+1)) \ {k + 1} = 1..k
  OBVIOUS
<1>3. (1..(k+1)) \in SUBSET (1..Len(s)) /\ (1..k) \in SUBSET (1..Len(s)) /\ (1..(k+1)) # {}
  <2>1. Len(s) \in Nat /\ k + 1 \in (1..(k+1))
    OBVIOUS
  <2>2. \A i \in (1..(k+1)) : i \in 1..Len(s)
    BY <2>1
  <2>3. \A i \in (1..k) : i \in 1..Len(s)
    BY <2>1
  <2> QED
    BY <2>1, <2>2, <2>3
<1>4. DOMAIN f = SUBSET (1..Len(s))
  OBVIOUS
<1>5. f[1..(k+1)] = g[<<f[(1..(k+1)) \ {Max(1..(k+1))}], s[Max(1..(k+1))]>>]
  BY <1>3, <1>4 DEF LoopBody
<1> QED
  BY <1>1, <1>2, <1>3, <1>5

(* r is a loop over s whose step is g as long as it stays in D *)
LEMMA LoopKeeps ==
  ASSUME NEW D, NEW W, NEW base \in D, NEW s \in Seq(W), NEW g \in [D \X W -> D],
         NEW r, r[{}] = base,
         \A t \in SUBSET (1..Len(s)) :
            t # {} /\ r[t \ {Max(t)}] \in D => r[t] = g[<<r[t \ {Max(t)}], s[Max(t)]>>],
         NEW P \in [0..Len(s) -> SUBSET D], base \in P[0],
         \A k \in 1..Len(s) : \A e \in P[k-1] : g[<<e, s[k]>>] \in P[k]
  PROVE  r[1..Len(s)] \in P[Len(s)]
<1> DEFINE S == {k \in Nat : k <= Len(s) => r[1..k] \in P[k]}
<1>1. 0 \in S
  <2>1. 1..0 = {}
    OBVIOUS
  <2> QED
    BY <2>1
<1>2. ASSUME NEW k \in Nat, k \in S PROVE k + 1 \in S
  <2> SUFFICES ASSUME k + 1 <= Len(s) PROVE r[1..(k+1)] \in P[k+1]
    OBVIOUS
  <2>1. Max(1..(k+1)) = k + 1
    BY MaxLast
  <2>2. (1..(k+1)) \ {k + 1} = 1..k
    OBVIOUS
  <2>3. r[1..k] \in P[k] /\ P[k] \subseteq D
    BY <1>2
  <2>4. (1..(k+1)) \in SUBSET (1..Len(s)) /\ (1..(k+1)) # {} /\ k + 1 \in 1..Len(s)
    <3>1. Len(s) \in Nat /\ k + 1 \in (1..(k+1)) /\ k + 1 \in 1..Len(s)
      OBVIOUS
    <3>2. \A i \in (1..(k+1)) : i \in 1..Len(s)
      BY <3>1
    <3> QED
      BY <3>1, <3>2
  <2>5. r[1..(k+1)] = g[<<r[1..k], s[k + 1]>>]
    BY <2>1, <2>2, <2>3, <2>4
  <2>6. g[<<r[1..k], s[k + 1]>>] \in P[k + 1]
    <3>1. (k + 1) - 1 = k
      OBVIOUS
    <3> QED
      BY <2>3, <2>4, <3>1
  <2> QED
    BY <2>5, <2>6
<1>3. Len(s) \in S
  <2> HIDE DEF S
  <2> QED
    BY <1>1, <1>2, NatInd
<1> QED
  BY <1>3

(* Only keeps the elements of T. *)
LEMMA OnlySet ==
  ASSUME NEW X, NEW s \in Seq(X), NEW T
  PROVE  /\ Only(s, T) \in Seq(X)
         /\ ToSet(Only(s, T)) = ToSet(s) \cap T
<1> DEFINE D == Seq(X)
<1> DEFINE Step(r, v) == IF v \in T THEN Append(r, v) ELSE r
<1> DEFINE g == [p \in D \X X |-> Step(p[1], p[2])]
<1> DEFINE Body(u) == [i \in 0..Len(s) |-> IF i = 0 THEN <<>>
                                           ELSE IF s[i] \in T THEN Append(u[i-1], s[i]) ELSE u[i-1]]
<1> DEFINE r == CHOOSE u : u = Body(u)
<1>0. Len(s) \in Nat /\ DOMAIN s = 1..Len(s) /\ <<>> \in D
  OBVIOUS
<1>1. g \in [D \X X -> D] /\ \A d \in D, w \in X : g[<<d, w>>] = Step(d, w)
  OBVIOUS
<1>2. PICK f \in [SUBSET (1..Len(s)) -> D] : LoopBody(<<>>, g, s, f)
  <2> HIDE DEF D, g
  <2> QED
    BY <1>0, <1>1, LoopExists
<1> DEFINE h == [i \in 0..Len(s) |-> f[1..i]]
<1>3. h = Body(h)
  <2> SUFFICES ASSUME NEW i \in 0..Len(s)
               PROVE  h[i] = IF i = 0 THEN <<>> ELSE Step(h[i-1], s[i])
    OBVIOUS
  <2>1. CASE i = 0
    <3>1. 1..i = {}
      BY <2>1
    <3>2. f[{}] = <<>>
      BY <1>2 DEF LoopBody
    <3> QED
      BY <2>1, <3>1, <3>2
  <2>2. CASE i # 0
    <3>1. PICK k \in Nat : i = k + 1 /\ k = i - 1 /\ k + 1 <= Len(s)
      <4>1. i - 1 \in Nat /\ i = (i - 1) + 1 /\ (i - 1) + 1 <= Len(s)
        BY <2>2, <1>0
      <4> QED
        BY <4>1
    <3>2. k \in 0..Len(s) /\ s[k+1] \in X
      BY <3>1, <1>0
    <3>3. f[1..(k+1)] = g[<<f[1..k], s[k+1]>>] /\ f[1..k] \in D
      <4> HIDE DEF D, g
      <4> QED
        BY <3>1, <1>2, LoopStep
    <3>4. h[k+1] = f[1..(k+1)] /\ h[k] = f[1..k]
      BY <3>1, <3>2
    <3>5. h[k+1] = Step(h[k], s[k+1])
      <4> HIDE DEF g, D, h, Step
      <4> QED
        BY <3>2, <3>3, <3>4, <1>1
    <3> QED
      BY <2>2, <3>1, <3>5
  <2> QED
    BY <2>1, <2>2
<1>4. r = Body(r)
  <2> HIDE DEF Body
  <2> QED
    BY <1>3
<1> HIDE DEF r
<1>4a. \A i \in 0..Len(s) : r[i] = IF i = 0 THEN <<>> ELSE Step(r[i-1], s[i])
  BY <1>4
<1>5. Only(s, T) = r[Len(s)]
  BY DEF Only, r
<1> DEFINE S == {k \in Nat : k <= Len(s) => r[k] \in D /\ ToSet(r[k]) = {s[i] : i \in 1..k} \cap T}
<1>6. 0 \in S
  <2>1. r[0] = <<>>
    BY <1>4a, <1>0
  <2>2. ToSet(<<>>) = {} /\ {s[i] : i \in 1..0} = {}
    BY DEF ToSet
  <2> QED
    BY <2>1, <2>2, <1>0
<1>7. ASSUME NEW k \in Nat, k \in S PROVE k + 1 \in S
  <2> SUFFICES ASSUME k + 1 <= Len(s)
               PROVE  r[k+1] \in D /\ ToSet(r[k+1]) = {s[i] : i \in 1..(k+1)} \cap T
    <3> HIDE DEF D
    <3> QED
      OBVIOUS
  <2>1. r[k] \in D /\ ToSet(r[k]) = {s[i] : i \in 1..k} \cap T
    BY <1>7, <1>0
  <2>2. r[k+1] = IF s[k+1] \in T THEN Append(r[k], s[k+1]) ELSE r[k]
    <3>1. k + 1 \in 0..Len(s) /\ k + 1 # 0 /\ (k + 1) - 1 = k
      BY <1>0
    <3> QED
      BY <1>4a, <3>1
  <2>3. s[k+1] \in X
    BY <1>0
  <2>4. ASSUME NEW q \in D, NEW v \in X PROVE Append(q, v) \in D /\ ToSet(Append(q, v)) = ToSet(q) \cup {v}
    <3>1. DOMAIN Append(q, v) = 1..(Len(q) + 1) /\ Append(q, v)[Len(q) + 1] = v /\ Len(q) \in Nat
      OBVIOUS
    <3>2. \A i \in 1..Len(q) : Append(q, v)[i] = q[i]
      OBVIOUS
    <3>3. DOMAIN q = 1..Len(q)
      OBVIOUS
    <3>4. DOMAIN Append(q, v) = DOMAIN q \cup {Len(q) + 1}
      BY <3>1, <3>3
    <3>5. ASSUME NEW a PROVE a \in ToSet(Append(q, v)) <=> a \in ToSet(q) \cup {v}
      BY <3>1, <3>2, <3>3, <3>4 DEF ToSet
    <3> QED
      BY <3>5
  <2>5. {s[i] : i \in 1..(k+1)} = {s[i] : i \in 1..k} \cup {s[k+1]}
    <3>1. 1..(k+1) = (1..k) \cup {k+1}
      OBVIOUS
    <3> QED
      BY <3>1
  <2> HIDE DEF D
  <2> QED
    BY <2>1, <2>2, <2>3, <2>4, <2>5
<1>8. Len(s) \in S
  <2> HIDE DEF S
  <2> QED
    BY <1>0, <1>6, <1>7, NatInd
<1>9. {s[i] : i \in 1..Len(s)} = ToSet(s)
  BY <1>0 DEF ToSet
<1> QED
  BY <1>5, <1>8, <1>9

(* Least is one of the numbers. *)
LEMMA LeastIn ==
  ASSUME NEW S, S \subseteq Nat, S # {}
  PROVE  Least(S) \in S
  BY NatMin DEF Least

(* A sequence with elements has a first one. *)
LEMMA HeadIn ==
  ASSUME NEW X, NEW s \in Seq(X)
  PROVE  /\ ToSet(s) \subseteq X
         /\ s = <<>> <=> ToSet(s) = {}
         /\ s # <<>> => Head(s) \in ToSet(s)
  BY DEF ToSet

(* Append adds one element. *)
LEMMA AppendSet ==
  ASSUME NEW X, NEW s \in Seq(X), NEW v \in X
  PROVE  /\ Append(s, v) \in Seq(X)
         /\ ToSet(Append(s, v)) = ToSet(s) \cup {v}
<1>1. DOMAIN Append(s, v) = 1..(Len(s) + 1) /\ Append(s, v)[Len(s) + 1] = v /\ Len(s) \in Nat
  OBVIOUS
<1>2. \A i \in 1..Len(s) : Append(s, v)[i] = s[i]
  OBVIOUS
<1>3. DOMAIN s = 1..Len(s)
  OBVIOUS
<1>4. DOMAIN Append(s, v) = DOMAIN s \cup {Len(s) + 1}
  BY <1>1, <1>3
<1>5. ASSUME NEW a PROVE a \in ToSet(Append(s, v)) <=> a \in ToSet(s) \cup {v}
  BY <1>1, <1>2, <1>3, <1>4 DEF ToSet
<1> QED
  BY <1>5

(***************************************************************************)
(* The desk between two functions.                                         *)
(***************************************************************************)
Desks ==
  [mons : Seq(Outputs), ws : Seq(All),
   active : [Outputs -> Regular \cup {None}], special : [Outputs -> Special \cup {None}],
   home : [All -> MonitorOrNone], last : [All -> MonitorOrNone],
   visible : SUBSET All, persistent : SUBSET Regular,
   seen : [Outputs -> Regular \cup {None}], focus : MonitorOrNone,
   winWs : [Windows -> All \cup {None}], winMon : [Windows -> MonitorOrNone],
   pinned : SUBSET Windows]

Live(d) == ToSet(d.ws)

(* What a monitor shows is there and alive. *)
ShowsItsOwn(d) ==
  \A m \in Outputs :
    /\ d.active[m] # None => d.active[m] \in Live(d) /\ d.home[d.active[m]] = m
    /\ d.special[m] # None => d.special[m] \in Live(d) /\ d.home[d.special[m]] = m

(* m_visible is set on what the monitor of the workspace shows. *)
OnShow(d, w) == d.home[w] # None /\ w \in {d.active[d.home[w]], d.special[d.home[w]]}
FlagAgrees(d) == \A w \in All : w \in d.visible <=> OnShow(d, w)

(* Every workspace that lives is on a monitor of N. *)
Housed(d, N) == \A w \in All : IF w \in Live(d) THEN d.home[w] \in N ELSE d.home[w] = None

Peopled(d) == \A x \in Windows : d.winWs[x] # None => d.winWs[x] \in Live(d)

Beside(d) ==
  \A x \in Windows \ d.pinned : d.winWs[x] # None => d.winMon[x] = d.home[d.winWs[x]]

PinsMapped(d) == \A x \in d.pinned : d.winWs[x] # None

Fine(d, N) ==
  /\ ShowsItsOwn(d) /\ FlagAgrees(d) /\ Housed(d, N)
  /\ Peopled(d) /\ Beside(d) /\ PinsMapped(d)
  /\ d.persistent \subseteq Live(d)
  /\ d.focus \in N \cup {None}

(* The kinds of names do not overlap. *)
LEMMA NamesApart ==
  /\ None \notin Outputs /\ None \notin All /\ None \notin Regular /\ None \notin Special
  /\ \A w \in Special : w \notin Regular
  /\ Regular \subseteq All /\ Special \subseteq All /\ All = Regular \cup Special
  /\ Real \subseteq Outputs /\ FALLBACK \in Outputs
  BY SetupAssumption DEF All, Outputs

(* FocusLastWindow moves the focus to m at most. *)
LEMMA FocusLastWindowFine ==
  ASSUME NEW d \in Desks, NEW m \in Outputs, NEW w
  PROVE  \E f \in {d.focus, m} : FocusLastWindow(d, m, w) = [d EXCEPT !.focus = f]
<1>1. [d EXCEPT !.focus = d.focus] = d
  BY DEF Desks
<1> QED
  BY <1>1 DEF FocusLastWindow

(* Another focus changes nothing else. *)
LEMMA FocusFine ==
  ASSUME NEW d \in Desks, NEW N \in SUBSET Outputs, Fine(d, N), NEW f \in N \cup {None, d.focus}
  PROVE  /\ [d EXCEPT !.focus = f] \in Desks
         /\ Fine([d EXCEPT !.focus = f], N)
<1> DEFINE e == [d EXCEPT !.focus = f]
<1>1. f \in MonitorOrNone /\ f \in N \cup {None}
  BY DEF Desks, MonitorOrNone, Fine
<1>2. e \in Desks
  BY <1>1 DEF Desks
<1>3. /\ e.ws = d.ws /\ e.active = d.active /\ e.special = d.special /\ e.home = d.home
      /\ e.visible = d.visible /\ e.persistent = d.persistent /\ e.focus = f
      /\ e.winWs = d.winWs /\ e.winMon = d.winMon /\ e.pinned = d.pinned
  BY DEF Desks
<1> HIDE DEF e
<1>4. Fine(e, N)
  BY <1>1, <1>3 DEF Fine, ShowsItsOwn, FlagAgrees, OnShow, Housed, Peopled, Beside, PinsMapped, Live
<1> QED
  BY <1>2, <1>4 DEF e

(* What every function leaves alone here. *)
SameLists(d, e) ==
  /\ e.mons = d.mons /\ e.seen = d.seen /\ e.pinned = d.pinned /\ e.persistent = d.persistent
  /\ e.ws = d.ws /\ e.last = d.last /\ e.winWs = d.winWs

(***************************************************************************)
(* The functions of CMonitor, for any set N of monitors that can have      *)
(* workspaces: those on the list, and one that is about to come or to go.  *)
(***************************************************************************)

(* Closing a special workspace keeps the desk fine. *)
LEMMA CloseSpecialFine ==
  ASSUME NEW d \in Desks, NEW N \in SUBSET Outputs, Fine(d, N), NEW m \in Outputs
  PROVE  LET e == CloseSpecial(d, m) IN
         /\ e \in Desks /\ Fine(e, N) /\ SameLists(d, e)
         /\ e.active = d.active /\ e.home = d.home /\ e.focus = d.focus
         /\ e.special = [d.special EXCEPT ![m] = None]
<1> DEFINE e == CloseSpecial(d, m)
<1>1. /\ e.special = [d.special EXCEPT ![m] = None] /\ e.visible = d.visible \ {d.special[m]}
      /\ SameLists(d, e) /\ e.active = d.active /\ e.home = d.home /\ e.focus = d.focus
      /\ e.winMon = d.winMon /\ e \in Desks
  BY DEF CloseSpecial, Desks, SameLists
<1> HIDE DEF e
<1>2. FlagAgrees(e)
  <2> SUFFICES ASSUME NEW w \in All PROVE w \in e.visible <=> OnShow(e, w)
    BY DEF FlagAgrees
  <2>1. w \in d.visible <=> OnShow(d, w)
    BY DEF Fine, FlagAgrees
  <2>2. d.home[w] # None => d.home[w] \in Outputs
    BY DEF Desks, MonitorOrNone
  <2>3. d.special[m] # None => d.home[d.special[m]] = m /\ d.special[m] \in Special
    BY DEF Fine, ShowsItsOwn, Desks
  <2>4. \A o \in Outputs : d.active[o] # None => d.active[o] \in Regular
    BY DEF Desks
  <2>5. d.special \in [Outputs -> Special \cup {None}]
    BY DEF Desks
  <2> QED
    BY <1>1, <2>1, <2>2, <2>3, <2>4, <2>5, NamesApart DEF OnShow
<1>3. ShowsItsOwn(e)
  <2>1. d.special \in [Outputs -> Special \cup {None}]
    BY DEF Desks
  <2> QED
    BY <1>1, <2>1 DEF Fine, ShowsItsOwn, SameLists, Live
<1>4. Fine(e, N)
  BY <1>1, <1>2, <1>3 DEF Fine, Housed, Peopled, Beside, PinsMapped, Live, SameLists
<1> QED
  BY <1>1, <1>4 DEF e

(* Opening one does, on a monitor that has none open, when the monitor it was
   open on loses it. *)
LEMMA OpenSpecialFine ==
  ASSUME NEW d \in Desks, NEW N \in SUBSET Outputs, Fine(d, N), NEW m \in N,
         NEW w \in Special, w \in Live(d), d.special[m] = None, NEW from, from = d.home[w]
  PROVE  LET e == OpenSpecial(Stolen(d, from, w), m, w) IN
         /\ e \in Desks /\ Fine(e, N) /\ SameLists(d, e)
         /\ e.active = d.active /\ e.home = [d.home EXCEPT ![w] = m] /\ e.focus = d.focus
         /\ e.special[m] = w
         /\ \A o \in Outputs \ {m} : e.special[o] \in {d.special[o], None}
<1> DEFINE s == Stolen(d, from, w)
<1> DEFINE e == OpenSpecial(s, m, w)
<1>0. w \in All /\ d.home[w] \in N /\ d.home[w] # None /\ m # None
  BY NamesApart DEF Fine, Housed
<1>1. /\ s \in Desks /\ SameLists(d, s) /\ s.active = d.active /\ s.home = d.home /\ s.focus = d.focus
      /\ s.winMon = d.winMon /\ s.visible = d.visible
      /\ s.special = [o \in Outputs |-> IF o = d.home[w] /\ d.special[o] = w THEN None ELSE d.special[o]]
  <2>1. CASE d.special[d.home[w]] = w
    <3>1. s = [d EXCEPT !.special = [d.special EXCEPT ![d.home[w]] = None]]
      BY <2>1, <1>0 DEF Stolen
    <3> HIDE DEF s
    <3>2. d.home[w] \in Outputs /\ d.special \in [Outputs -> Special \cup {None}]
      BY <1>0 DEF Desks
    <3>3. [d.special EXCEPT ![d.home[w]] = None]
             = [o \in Outputs |-> IF o = d.home[w] /\ d.special[o] = w THEN None ELSE d.special[o]]
      BY <3>2, <2>1
    <3>4. s.special = [d.special EXCEPT ![d.home[w]] = None]
      BY <3>1 DEF Desks
    <3> QED
      BY <3>1, <3>2, <3>3, <3>4 DEF Desks, SameLists
  <2>2. CASE d.special[d.home[w]] # w
    <3>1. s = d
      BY <2>2, <1>0 DEF Stolen
    <3>2. d.special = [o \in Outputs |-> IF o = d.home[w] /\ d.special[o] = w THEN None ELSE d.special[o]]
      BY <2>2 DEF Desks
    <3> QED
      BY <3>1, <3>2 DEF SameLists
  <2> QED
    BY <2>1, <2>2
<1> HIDE DEF s
<1>2. /\ e.special = [s.special EXCEPT ![m] = w] /\ e.home = [s.home EXCEPT ![w] = m]
      /\ e.visible = s.visible \cup {w}
      /\ e.winMon = [x \in Windows |-> IF s.winWs[x] = w THEN m ELSE s.winMon[x]]
      /\ SameLists(s, e) /\ e.active = s.active /\ e.focus = s.focus
      /\ e \in Desks
  BY <1>0, <1>1, NamesApart DEF OpenSpecial, Desks, SameLists, MonitorOrNone
<1> HIDE DEF e
<1>3. /\ d.special \in [Outputs -> Special \cup {None}] /\ d.active \in [Outputs -> Regular \cup {None}]
      /\ d.home \in [All -> Outputs \cup {None}] /\ d.winMon \in [Windows -> Outputs \cup {None}]
  BY DEF Desks, MonitorOrNone
<1>4. /\ e.special = [o \in Outputs |-> IF o = m THEN w
                                       ELSE IF o = d.home[w] /\ d.special[o] = w THEN None ELSE d.special[o]]
      /\ e.home = [d.home EXCEPT ![w] = m] /\ e.visible = d.visible \cup {w}
      /\ e.winMon = [x \in Windows |-> IF d.winWs[x] = w THEN m ELSE d.winMon[x]]
      /\ SameLists(d, e) /\ e.active = d.active /\ e.focus = d.focus
  BY <1>1, <1>2, <1>3 DEF SameLists
<1>5. ShowsItsOwn(e)
  <2> SUFFICES ASSUME NEW o \in Outputs
               PROVE  /\ e.active[o] # None => e.active[o] \in Live(e) /\ e.home[e.active[o]] = o
                      /\ e.special[o] # None => e.special[o] \in Live(e) /\ e.home[e.special[o]] = o
    BY DEF ShowsItsOwn
  <2>1. /\ d.active[o] # None => d.active[o] \in Live(d) /\ d.home[d.active[o]] = o
        /\ d.special[o] # None => d.special[o] \in Live(d) /\ d.home[d.special[o]] = o
    BY DEF Fine, ShowsItsOwn
  <2>2. Live(e) = Live(d)
    BY <1>4 DEF SameLists, Live
  <2>3. e.active[o] # None => e.active[o] \in Live(e) /\ e.home[e.active[o]] = o
    BY <1>0, <1>3, <1>4, <2>1, <2>2, NamesApart
  <2>4. e.special[o] # None => e.special[o] \in Live(e) /\ e.home[e.special[o]] = o
    BY <1>0, <1>3, <1>4, <2>1, <2>2, NamesApart
  <2> QED
    BY <2>3, <2>4
<1>6. FlagAgrees(e)
  <2> SUFFICES ASSUME NEW v \in All PROVE v \in e.visible <=> OnShow(e, v)
    BY DEF FlagAgrees
  <2>1. v \in d.visible <=> OnShow(d, v)
    BY DEF Fine, FlagAgrees
  <2>2. d.home[v] # None => d.home[v] \in Outputs
    BY <1>3
  <2>3. CASE v = w
    BY <1>0, <1>3, <1>4, <2>3 DEF OnShow
  <2>4. CASE v # w
    <3>1. e.home[v] = d.home[v] /\ (v \in e.visible <=> v \in d.visible)
      BY <2>4, <1>0, <1>3, <1>4
    <3>2. d.home[v] # None => (v = e.special[d.home[v]] <=> v = d.special[d.home[v]])
      BY <2>2, <2>4, <1>3, <1>4, NamesApart
    <3> QED
      BY <3>1, <3>2, <2>1, <1>4 DEF OnShow
  <2> QED
    BY <2>3, <2>4
<1>7. Housed(e, N)
  BY <1>3, <1>4 DEF Fine, Housed, SameLists, Live
<1>8. Peopled(e) /\ PinsMapped(e) /\ e.persistent \subseteq Live(e) /\ e.focus \in N \cup {None}
  BY <1>4 DEF Fine, Peopled, PinsMapped, SameLists, Live
<1>9. Beside(e)
  <2> SUFFICES ASSUME NEW x \in Windows \ e.pinned, e.winWs[x] # None
               PROVE  e.winMon[x] = e.home[e.winWs[x]]
    BY DEF Beside
  <2>1. d.winMon[x] = d.home[d.winWs[x]] /\ e.winWs[x] = d.winWs[x]
    BY <1>4 DEF Fine, Beside, SameLists
  <2>2. d.winWs[x] \in All
    <3>1. d.winWs \in [Windows -> All \cup {None}]
      BY DEF Desks
    <3> QED
      BY <3>1, <2>1
  <2> QED
    BY <2>1, <2>2, <1>3, <1>4
<1>10. Fine(e, N)
  BY <1>5, <1>6, <1>7, <1>8, <1>9 DEF Fine
<1> QED
  BY <1>2, <1>3, <1>4, <1>10, NamesApart DEF e, s

(* CMonitor::setSpecialWorkspace *)
LEMMA SetSpecialFine ==
  ASSUME NEW d \in Desks, NEW N \in SUBSET Outputs, Fine(d, N), NEW m \in N,
         NEW w, w = None \/ (w \in Special /\ w \in Live(d))
  PROVE  LET e == SetSpecialWorkspace(d, m, w) IN
         /\ e \in Desks /\ Fine(e, N) /\ SameLists(d, e)
         /\ e.active = d.active /\ e.focus \in {d.focus, m}
         /\ e.home = [v \in All |-> IF v = w THEN m ELSE d.home[v]]
         /\ e.special[m] = w
         /\ \A o \in Outputs \ {m} : e.special[o] \in {d.special[o], None}
<1> DEFINE e == SetSpecialWorkspace(d, m, w)
<1> DEFINE c == CloseSpecial(d, m)
<1>0. /\ d.special \in [Outputs -> Special \cup {None}] /\ d.home \in [All -> MonitorOrNone]
      /\ m \in Outputs
  BY DEF Desks
<1>1. CASE w = d.special[m]
  <2>1. e = d
    BY <1>1 DEF SetSpecialWorkspace
  <2>2. w # None => w \in All /\ d.home[w] = m
    BY <1>1, <1>0, NamesApart DEF Fine, ShowsItsOwn
  <2>3. d.home = [v \in All |-> IF v = w THEN m ELSE d.home[v]]
    BY <2>2, <1>0, NamesApart
  <2> QED
    BY <1>1, <2>1, <2>3 DEF SameLists
<1>2. /\ c \in Desks /\ Fine(c, N) /\ SameLists(d, c)
      /\ c.active = d.active /\ c.home = d.home /\ c.focus = d.focus
      /\ c.special = [d.special EXCEPT ![m] = None]
  BY <1>0, CloseSpecialFine
<1>3. CASE w # d.special[m] /\ w = None
  <2>1. e = FocusLastWindow(c, m, d.active[m])
    BY <1>3 DEF SetSpecialWorkspace
  <2>2. PICK f \in {c.focus, m} : e = [c EXCEPT !.focus = f]
    <3> HIDE DEF c, e
    <3> QED
      BY <2>1, <1>0, <1>2, FocusLastWindowFine
  <2>3. e \in Desks /\ Fine(e, N)
    <3> HIDE DEF c, e
    <3>1. f \in N \cup {None, c.focus}
      OBVIOUS
    <3> QED
      BY <2>2, <3>1, <1>2, FocusFine
  <2>4. /\ SameLists(c, e) /\ e.active = c.active /\ e.home = c.home /\ e.special = c.special /\ e.focus = f
    <3> HIDE DEF c, e
    <3> QED
      BY <2>2, <1>2 DEF Desks, SameLists
  <2>5. d.home = [v \in All |-> IF v = w THEN m ELSE d.home[v]]
    BY <1>3, <1>0, NamesApart
  <2> HIDE DEF c, e
  <2>6. SameLists(d, e) /\ e.home = [v \in All |-> IF v = w THEN m ELSE d.home[v]]
    BY <2>4, <2>5, <1>2 DEF SameLists
  <2>7. e.active = d.active /\ e.focus \in {d.focus, m} /\ e.special = [d.special EXCEPT ![m] = None]
    BY <2>2, <2>4, <1>2
  <2> QED
    BY <2>3, <2>6, <2>7, <1>3, <1>0 DEF e
<1>4. CASE w # d.special[m] /\ w # None
  <2> DEFINE o1 == OpenSpecial(Stolen(c, d.home[w], w), m, w)
  <2>1. e = FocusLastWindow(o1, m, w)
    BY <1>4 DEF SetSpecialWorkspace
  <2>2. w \in Special /\ w \in Live(c) /\ c.special[m] = None /\ d.home[w] = c.home[w]
    <3> HIDE DEF c
    <3> QED
      BY <1>2, <1>0, <1>4 DEF SameLists, Live
  <2>3. /\ o1 \in Desks /\ Fine(o1, N) /\ SameLists(c, o1)
        /\ o1.active = c.active /\ o1.home = [c.home EXCEPT ![w] = m] /\ o1.focus = c.focus
        /\ o1.special[m] = w
        /\ \A o \in Outputs \ {m} : o1.special[o] \in {c.special[o], None}
    <3> HIDE DEF c
    <3> QED
      BY <1>2, <2>2, OpenSpecialFine
  <2> HIDE DEF c, o1, e
  <2>4. PICK f \in {o1.focus, m} : e = [o1 EXCEPT !.focus = f]
    BY <2>1, <1>0, <2>3, FocusLastWindowFine
  <2>5. e \in Desks /\ Fine(e, N)
    <3>1. f \in N \cup {None, o1.focus}
      OBVIOUS
    <3> QED
      BY <2>3, <2>4, <3>1, FocusFine
  <2>6. SameLists(o1, e) /\ e.active = o1.active /\ e.home = o1.home /\ e.special = o1.special /\ e.focus = f
    BY <2>3, <2>4 DEF Desks, SameLists
  <2>7. SameLists(d, e) /\ e.active = d.active /\ e.focus \in {d.focus, m}
    BY <2>6, <2>3, <2>4, <1>2 DEF SameLists
  <2>8. e.home = [v \in All |-> IF v = w THEN m ELSE d.home[v]]
    BY <2>6, <2>3, <1>2, <1>0
  <2>9. e.special[m] = w /\ \A o \in Outputs \ {m} : e.special[o] \in {d.special[o], None}
    BY <2>6, <2>3, <1>2, <1>0
  <2> QED
    BY <2>5, <2>7, <2>8, <2>9 DEF e
<1> QED
  BY <1>1, <1>3, <1>4

(* The types of a desk's fields. *)
LEMMA DeskFields ==
  ASSUME NEW d \in Desks
  PROVE  /\ d.special \in [Outputs -> Special \cup {None}] /\ d.active \in [Outputs -> Regular \cup {None}]
         /\ d.home \in [All -> Outputs \cup {None}] /\ d.last \in [All -> Outputs \cup {None}]
         /\ d.winWs \in [Windows -> All \cup {None}] /\ d.winMon \in [Windows -> Outputs \cup {None}]
         /\ d.ws \in Seq(All) /\ d.mons \in Seq(Outputs) /\ d.pinned \subseteq Windows
         /\ d.seen \in [Outputs -> Regular \cup {None}] /\ d.focus \in Outputs \cup {None}
         /\ d.persistent \subseteq Regular /\ d.visible \subseteq All
         /\ Live(d) \subseteq All /\ ToSet(d.mons) \subseteq Outputs
  BY HeadIn DEF Desks, MonitorOrNone, Live

(* What changeWorkspace leaves alone. *)
SameButWindows(d, e) ==
  /\ e.mons = d.mons /\ e.seen = d.seen /\ e.pinned = d.pinned /\ e.persistent = d.persistent
  /\ e.ws = d.ws /\ e.last = d.last /\ e.special = d.special /\ e.home = d.home /\ e.focus = d.focus

(* Taking pinned windows along keeps the desk fine. *)
LEMMA CarryPinnedFine ==
  ASSUME NEW d \in Desks, NEW N \in SUBSET Outputs, Fine(d, N), NEW old,
         NEW w \in All, w \in Live(d)
  PROVE  LET e == CarryPinned(d, old, w) IN
         /\ e \in Desks /\ Fine(e, N) /\ SameButWindows(d, e)
         /\ e.active = d.active /\ e.visible = d.visible
         /\ \A x \in Windows : e.winWs[x] = IF x \in d.pinned /\ d.winWs[x] = old THEN w ELSE d.winWs[x]
<1> DEFINE e == CarryPinned(d, old, w)
<1>0. /\ d.winWs \in [Windows -> All \cup {None}] /\ d.winMon \in [Windows -> Outputs \cup {None}]
      /\ d.home \in [All -> Outputs \cup {None}]
  BY DeskFields
<1>1. /\ e.winWs = [x \in Windows |-> IF x \in d.pinned /\ d.winWs[x] = old THEN w ELSE d.winWs[x]]
      /\ e.winMon = [x \in Windows |-> IF x \in d.pinned /\ d.winWs[x] = old THEN d.home[w] ELSE d.winMon[x]]
      /\ SameButWindows(d, e) /\ e.active = d.active /\ e.visible = d.visible
  BY DEF CarryPinned, Desks, SameButWindows
<1>2. e \in Desks
  BY <1>0 DEF CarryPinned, Desks, MonitorOrNone
<1> HIDE DEF e
<1>3. Live(e) = Live(d)
  BY <1>1 DEF SameButWindows, Live
<1>4. ShowsItsOwn(e) /\ FlagAgrees(e) /\ Housed(e, N)
  BY <1>1, <1>3 DEF Fine, ShowsItsOwn, FlagAgrees, OnShow, Housed, SameButWindows
<1>5. Peopled(e)
  BY <1>0, <1>1, <1>3 DEF Fine, Peopled
<1>6. Beside(e)
  BY <1>0, <1>1 DEF Fine, Beside, SameButWindows
<1>7. PinsMapped(e)
  BY <1>0, <1>1, NamesApart, DeskFields DEF Fine, PinsMapped, SameButWindows
<1>8. e.persistent \subseteq Live(e) /\ e.focus \in N \cup {None}
  BY <1>1, <1>3 DEF Fine, SameButWindows
<1> QED
  BY <1>1, <1>2, <1>4, <1>5, <1>6, <1>7, <1>8 DEF e, Fine

(* CMonitor::changeWorkspace, to a workspace that is not special: c is what
   it starts from. *)
Changed(d, c, m, w) ==
  IF w = d.active[m] THEN d
  ELSE [c EXCEPT !.active[m] = w, !.visible = (@ \ {d.active[m]}) \cup {w}]

(* Showing a workspace where it is keeps the desk fine, with or without pinned
   windows. *)
LEMMA ChangeFine ==
  ASSUME NEW d \in Desks, NEW N \in SUBSET Outputs, Fine(d, N), NEW m \in N,
         NEW w \in Regular, w \in Live(d), d.home[w] = m,
         NEW c, c \in {d, CarryPinned(d, d.active[m], w)}
  PROVE  LET e == Changed(d, c, m, w) IN
         /\ e \in Desks /\ Fine(e, N) /\ SameButWindows(d, e)
         /\ e.active = [d.active EXCEPT ![m] = w]
         /\ \A x \in Windows : /\ e.winWs[x] \in {d.winWs[x], w}
                               /\ x \notin d.pinned => e.winWs[x] = d.winWs[x]
                               /\ d.winWs[x] # d.active[m] => e.winWs[x] = d.winWs[x]
<1> DEFINE e == Changed(d, c, m, w)
<1>0. w \notin Special /\ w # None /\ w \in All /\ m \in Outputs
  BY NamesApart
<1>1. CASE w = d.active[m]
  <2>1. e = d
    BY <1>0, <1>1 DEF Changed
  <2>2. d.active = [d.active EXCEPT ![m] = w]
    BY <1>1, <1>0, DeskFields
  <2> QED
    BY <2>1, <2>2 DEF SameButWindows
<1>2. CASE w # d.active[m]
  <2>1. e = [c EXCEPT !.active[m] = w, !.visible = (@ \ {d.active[m]}) \cup {w}]
    BY <1>0, <1>2 DEF Changed
  <2>2. /\ c \in Desks /\ Fine(c, N) /\ SameButWindows(d, c) /\ c.active = d.active /\ c.visible = d.visible
        /\ \A x \in Windows : /\ c.winWs[x] \in {d.winWs[x], w}
                              /\ x \notin d.pinned => c.winWs[x] = d.winWs[x]
                              /\ d.winWs[x] # d.active[m] => c.winWs[x] = d.winWs[x]
    <3>1. CASE c = d
      BY <3>1 DEF SameButWindows
    <3>2. CASE c = CarryPinned(d, d.active[m], w)
      BY <3>2, <1>0, CarryPinnedFine
    <3> QED
      BY <3>1, <3>2
  <2> HIDE DEF e
  <2>3. /\ e.active = [d.active EXCEPT ![m] = w] /\ e.visible = (d.visible \ {d.active[m]}) \cup {w}
        /\ e.winWs = c.winWs /\ e.winMon = c.winMon /\ SameButWindows(d, e)
    BY <2>1, <2>2 DEF Desks, SameButWindows
  <2>4. e \in Desks
    BY <2>1, <2>2, <1>0 DEF Desks
  <2>5. Live(e) = Live(d) /\ Live(c) = Live(d) /\ c.home = d.home /\ c.pinned = d.pinned /\ e.home = d.home
    BY <2>2, <2>3 DEF SameButWindows, Live
  <2>6. ShowsItsOwn(e)
    BY <1>0, <2>3, <2>5, DeskFields DEF Fine, ShowsItsOwn, SameButWindows
  <2>7. FlagAgrees(e)
    <3> SUFFICES ASSUME NEW v \in All PROVE v \in e.visible <=> OnShow(e, v)
      BY DEF FlagAgrees
    <3>1. v \in d.visible <=> OnShow(d, v)
      BY DEF Fine, FlagAgrees
    <3>2. d.home[v] # None => d.home[v] \in Outputs
      BY DeskFields
    <3>3. d.active[m] # None => d.home[d.active[m]] = m
      BY <1>0 DEF Fine, ShowsItsOwn
    <3>4. d.active \in [Outputs -> Regular \cup {None}] /\ d.special \in [Outputs -> Special \cup {None}]
      BY DeskFields
    <3>5. e.special = d.special
      BY <2>3 DEF SameButWindows
    <3>6. CASE d.home[v] = m
      BY <3>1, <3>4, <3>5, <3>6, <2>3, <2>5, <1>0, NamesApart DEF OnShow
    <3>7. CASE d.home[v] # m
      BY <3>1, <3>2, <3>3, <3>4, <3>5, <3>7, <2>3, <2>5, <1>0, NamesApart DEF OnShow
    <3> QED
      BY <3>6, <3>7
  <2>8. Housed(e, N) /\ PinsMapped(e) /\ Peopled(e) /\ Beside(e)
    BY <2>2, <2>3, <2>5 DEF Fine, Housed, PinsMapped, Peopled, Beside, SameButWindows
  <2>9. e.persistent \subseteq Live(e) /\ e.focus \in N \cup {None}
    BY <2>3, <2>5 DEF Fine, SameButWindows
  <2>10. Fine(e, N)
    BY <2>6, <2>7, <2>8, <2>9 DEF Fine
  <2> QED
    BY <2>2, <2>3, <2>4, <2>10 DEF e
<1> QED
  BY <1>1, <1>2

(* The same where pinned windows are carried along. *)
Opened(d, m, w) == Changed(d, CarryPinned(d, d.active[m], w), m, w)

(* The same with pinned windows carried along. *)
LEMMA OpenedFine ==
  ASSUME NEW d \in Desks, NEW N \in SUBSET Outputs, Fine(d, N), NEW m \in N,
         NEW w \in Regular, w \in Live(d), d.home[w] = m
  PROVE  LET e == Opened(d, m, w) IN
         /\ e \in Desks /\ Fine(e, N) /\ SameButWindows(d, e)
         /\ e.active = [d.active EXCEPT ![m] = w]
         /\ \A x \in Windows : /\ e.winWs[x] \in {d.winWs[x], w}
                               /\ x \notin d.pinned => e.winWs[x] = d.winWs[x]
                               /\ d.winWs[x] # d.active[m] => e.winWs[x] = d.winWs[x]
<1> DEFINE c == CarryPinned(d, d.active[m], w)
<1>1. Opened(d, m, w) = Changed(d, c, m, w)
  BY DEF Opened
<1>2. c \in {d, CarryPinned(d, d.active[m], w)}
  OBVIOUS
<1> HIDE DEF c
<1> QED
  BY <1>1, <1>2, ChangeFine

(* The two ways changeWorkspace is called. *)
LEMMA OpenedIs ==
  ASSUME NEW d, NEW m, NEW w \in Regular
  PROVE  /\ ChangeWorkspace(d, m, w, FALSE) = Opened(d, m, w)
         /\ ChangeWorkspace(d, m, w, TRUE) = Changed(d, d, m, w)
  BY NamesApart DEF ChangeWorkspace, Changed, Opened

(* What a new workspace changes. *)
SameButLists(d, e) ==
  /\ e.mons = d.mons /\ e.seen = d.seen /\ e.pinned = d.pinned /\ e.last = d.last
  /\ e.special = d.special /\ e.active = d.active /\ e.focus = d.focus
  /\ e.winWs = d.winWs /\ e.winMon = d.winMon /\ e.visible = d.visible

(* A new workspace on a monitor of N keeps the desk fine. *)
LEMMA NewFine ==
  ASSUME setup \in Setups,
         NEW d \in Desks, NEW N \in SUBSET Outputs, Fine(d, N), NEW m \in N,
         NEW w \in All, w \notin Live(d)
  PROVE  LET e == NewWorkspace(d, w, m) IN
         /\ e \in Desks /\ Fine(e, N) /\ SameButLists(d, e)
         /\ Live(e) = Live(d) \cup {w} /\ e.home = [d.home EXCEPT ![w] = m]
         /\ e.persistent = d.persistent \cup ({w} \cap ToSet(setup.persistent))
<1> DEFINE e == NewWorkspace(d, w, m)
<1>1. /\ SameButLists(d, e) /\ e.ws = Append(d.ws, w) /\ e.home = [d.home EXCEPT ![w] = m]
      /\ e.persistent = d.persistent \cup ({w} \cap ToSet(setup.persistent))
  BY DEF NewWorkspace, Desks, SameButLists
<1>2. Append(d.ws, w) \in Seq(All) /\ Live(e) = Live(d) \cup {w}
  <2>1. d.ws \in Seq(All)
    BY DeskFields
  <2> HIDE DEF e
  <2> QED
    BY <2>1, <1>1, AppendSet DEF Live
<1>3. ToSet(setup.persistent) \subseteq Regular
  <2>1. setup.persistent \in Seq(DOMAIN setup.bound) /\ DOMAIN setup.bound \subseteq Regular
    BY SetupAssumption
  <2> QED
    BY <2>1, HeadIn
<1>4. e \in Desks
  BY <1>2, <1>3 DEF NewWorkspace, Desks, MonitorOrNone
<1> HIDE DEF e
<1>5. d.home[w] = None /\ d.home \in [All -> Outputs \cup {None}] /\ m # None
  BY DeskFields, NamesApart DEF Fine, Housed
<1>6. ShowsItsOwn(e)
  BY <1>1, <1>2, <1>5, DeskFields DEF Fine, ShowsItsOwn, SameButLists
<1>7. FlagAgrees(e)
  <2> SUFFICES ASSUME NEW v \in All PROVE v \in e.visible <=> OnShow(e, v)
    BY DEF FlagAgrees
  <2>1. v \in d.visible <=> OnShow(d, v)
    BY DEF Fine, FlagAgrees
  <2>2. CASE v # w
    BY <2>1, <2>2, <1>1, <1>5 DEF OnShow, SameButLists
  <2>3. CASE v = w
    <3>1. w \notin d.visible
      BY <2>1, <2>3, <1>5 DEF OnShow
    <3>2. w \notin {d.active[m], d.special[m]}
      BY NamesApart DEF Fine, ShowsItsOwn
    <3> QED
      BY <2>3, <3>1, <3>2, <1>1, <1>5 DEF OnShow, SameButLists
  <2> QED
    BY <2>2, <2>3
<1>8. Housed(e, N)
  BY <1>1, <1>2, <1>5 DEF Fine, Housed
<1>9. Beside(e)
  <2>1. \A x \in Windows : d.winWs[x] # None => d.winWs[x] # w /\ d.winWs[x] \in All
    BY DeskFields DEF Fine, Peopled
  <2> QED
    BY <2>1, <1>1, <1>5 DEF Fine, Beside, SameButLists
<1>10. Peopled(e) /\ PinsMapped(e)
  BY <1>1, <1>2 DEF Fine, Peopled, PinsMapped, SameButLists
<1>11. e.persistent \subseteq Live(e) /\ e.focus \in N \cup {None}
  BY <1>1, <1>2 DEF Fine, SameButLists
<1> QED
  BY <1>1, <1>2, <1>4, <1>6, <1>7, <1>8, <1>9, <1>10, <1>11 DEF Fine, e

(* A workspace is bound to a monitor on the list. *)
LEMMA BoundIn ==
  ASSUME setup \in Setups, NEW d \in Desks, NEW w
  PROVE  BoundMonitor(d, w) \in ToSet(d.mons) \cup {None}
  BY DEF BoundMonitor, OnList

(* CWorkspaceStateTracker::create *)
LEMMA CreateFine ==
  ASSUME setup \in Setups,
         NEW d \in Desks, NEW N \in SUBSET Outputs, Fine(d, N), NEW m \in N,
         ToSet(d.mons) \subseteq N,
         NEW w \in All, w \notin Live(d)
  PROVE  LET e == Create(d, w, m) IN
         /\ e \in Desks /\ Fine(e, N) /\ SameButLists(d, e)
         /\ Live(e) = Live(d) \cup {w}
         /\ e.home = [d.home EXCEPT ![w] = IF BoundMonitor(d, w) # None THEN BoundMonitor(d, w) ELSE m]
         /\ e.persistent = d.persistent \cup ({w} \cap ToSet(setup.persistent))
<1> DEFINE h == IF BoundMonitor(d, w) # None THEN BoundMonitor(d, w) ELSE m
<1>1. h \in N
  BY BoundIn
<1>2. Create(d, w, m) = NewWorkspace(d, w, h)
  BY DEF Create
<1> HIDE DEF h
<1>3. LET e == NewWorkspace(d, w, h) IN
         /\ e \in Desks /\ Fine(e, N) /\ SameButLists(d, e)
         /\ Live(e) = Live(d) \cup {w} /\ e.home = [d.home EXCEPT ![w] = h]
         /\ e.persistent = d.persistent \cup ({w} \cap ToSet(setup.persistent))
  BY <1>1, NewFine
<1> QED
  BY <1>2, <1>3 DEF h

(* The ids of the regular workspaces are not used up: moveWorkspaceToMonitor
   and findAvailableDefaultWS count on until they find one. *)
IdsNeverRunOut ==
  \A s \in Setups, used \in Seq(All) : \E i \in DOMAIN s.bound : s.bound[i] = None /\ i \notin ToSet(used)

(* The id a gap is plugged with is free, and no other monitor has a rule for
   it. *)
LEMMA PlugIdFree ==
  ASSUME IdsNeverRunOut, setup \in Setups, NEW d \in Desks, NEW m
  PROVE  /\ PlugId(d, m) \in Regular /\ PlugId(d, m) \notin Live(d)
         /\ BoundMonitor(d, PlugId(d, m)) \in {None, m}
<1> DEFINE S == {i \in DOMAIN setup.bound : ~IsLive(d, i) /\ BoundMonitor(d, i) \in {None, m}}
<1>1. d.ws \in Seq(All) /\ DOMAIN setup.bound \subseteq Regular /\ Regular \subseteq Nat
  BY DeskFields, SetupAssumption
<1>2. PICK i \in DOMAIN setup.bound : setup.bound[i] = None /\ i \notin ToSet(d.ws)
  BY <1>1 DEF IdsNeverRunOut
<1>3. BoundMonitor(d, i) = None
  BY <1>2 DEF BoundMonitor
<1>4. S \subseteq Nat /\ S # {}
  BY <1>1, <1>2, <1>3 DEF IsLive
<1>5. Least(S) \in S
  <2> HIDE DEF S
  <2> QED
    BY <1>4, LeastIn
<1> QED
  BY <1>1, <1>5 DEF PlugId, IsLive, Live

(* The id of a default workspace is free. *)
LEMMA DefaultIdFree ==
  ASSUME IdsNeverRunOut, setup \in Setups, NEW d \in Desks, NEW m
  PROVE  /\ FindAvailableDefaultWS(d, m) \in Regular
         /\ FindAvailableDefaultWS(d, m) \notin Live(d)
<1> DEFINE S == {i \in DOMAIN setup.bound : ~IsLive(d, i) /\ setup.bound[i] \in {None, m}}
<1>1. d.ws \in Seq(All) /\ DOMAIN setup.bound \subseteq Regular /\ Regular \subseteq Nat
  BY DeskFields, SetupAssumption
<1>2. PICK i \in DOMAIN setup.bound : setup.bound[i] = None /\ i \notin ToSet(d.ws)
  BY <1>1 DEF IdsNeverRunOut
<1>4. S \subseteq Nat /\ S # {}
  BY <1>1, <1>2 DEF IsLive
<1>5. Least(S) \in S
  <2> HIDE DEF S
  <2> QED
    BY <1>4, LeastIn
<1> QED
  BY <1>1, <1>5 DEF FindAvailableDefaultWS, IsLive, Live

(* A desk is its fields. *)
LEMMA SameDesk ==
  ASSUME NEW d \in Desks, NEW e \in Desks,
         e.mons = d.mons, e.seen = d.seen, e.pinned = d.pinned, e.persistent = d.persistent,
         e.ws = d.ws, e.last = d.last, e.home = d.home, e.winWs = d.winWs, e.winMon = d.winMon,
         e.special = d.special, e.focus = d.focus, e.active = d.active, e.visible = d.visible
  PROVE  e = d
<1>1. \A c \in Desks :
        c = [mons |-> c.mons, ws |-> c.ws, active |-> c.active, special |-> c.special,
             home |-> c.home, last |-> c.last, visible |-> c.visible, persistent |-> c.persistent,
             seen |-> c.seen, focus |-> c.focus, winWs |-> c.winWs, winMon |-> c.winMon,
             pinned |-> c.pinned]
  BY DEF Desks
<1> QED
  BY <1>1

(* What a collection leaves alone. *)
SameButLives(d, e) ==
  /\ e.mons = d.mons /\ e.seen = d.seen /\ e.pinned = d.pinned /\ e.persistent = d.persistent
  /\ e.special = d.special /\ e.active = d.active /\ e.focus = d.focus /\ e.visible = d.visible
  /\ e.winWs = d.winWs /\ e.winMon = d.winMon

(* Dropping the workspaces nobody holds keeps the desk fine: what is shown is
   held. *)
LEMMA CollectFine ==
  ASSUME NEW d \in Desks, NEW N \in SUBSET Outputs, Fine(d, N), NEW local
  PROVE  LET e == Collect(d, local) IN
         /\ e \in Desks /\ Fine(e, N) /\ SameButLives(d, e)
         /\ Live(e) = Live(d) \cap (Held(d) \cup local)
         /\ \A v \in All : e.home[v] = (IF v \in Held(d) \cup local THEN d.home[v] ELSE None)
         /\ \A v \in All : e.last[v] = (IF v \in Held(d) \cup local THEN d.last[v] ELSE None)
<1> DEFINE kept == Held(d) \cup local
<1> DEFINE e == Collect(d, local)
<1>0. /\ d.special \in [Outputs -> Special \cup {None}] /\ d.active \in [Outputs -> Regular \cup {None}]
      /\ d.home \in [All -> Outputs \cup {None}] /\ d.last \in [All -> Outputs \cup {None}]
      /\ d.ws \in Seq(All) /\ d.visible \subseteq All
      /\ d.winWs \in [Windows -> All \cup {None}]
  BY DeskFields
<1>1. /\ \A m \in Outputs : d.active[m] \in kept /\ d.special[m] \in kept
      /\ \A x \in Windows : d.winWs[x] \in kept
      /\ d.persistent \subseteq kept
  BY DEF Held
<1>2. e = Keep(d, kept)
  BY DEF Collect
<1> HIDE DEF kept
<1>3. d.visible \cap kept = d.visible
  <2> SUFFICES ASSUME NEW w \in d.visible PROVE w \in kept
    OBVIOUS
  <2>1. OnShow(d, w)
    BY <1>0 DEF Fine, FlagAgrees
  <2> QED
    BY <1>0, <1>1, <2>1 DEF OnShow
<1>4. /\ e.ws = Only(d.ws, kept)
      /\ e.home = [w \in All |-> IF w \in kept THEN d.home[w] ELSE None]
      /\ e.last = [w \in All |-> IF w \in kept THEN d.last[w] ELSE None]
      /\ SameButLives(d, e)
  BY <1>2, <1>3 DEF Keep, Desks, SameButLives
<1>5. Only(d.ws, kept) \in Seq(All) /\ ToSet(Only(d.ws, kept)) = ToSet(d.ws) \cap kept
  BY <1>0, OnlySet
<1>6. e \in Desks
  <2> DEFINE ws1 == Only(d.ws, kept)
  <2> DEFINE home1 == [w \in All |-> IF w \in kept THEN d.home[w] ELSE None]
  <2> DEFINE last1 == [w \in All |-> IF w \in kept THEN d.last[w] ELSE None]
  <2>1. ws1 \in Seq(All) /\ home1 \in [All -> MonitorOrNone] /\ last1 \in [All -> MonitorOrNone]
    BY <1>0, <1>5 DEF MonitorOrNone
  <2>2. e = [d EXCEPT !.ws = ws1, !.home = home1, !.last = last1, !.visible = d.visible \cap kept]
    BY <1>2 DEF Keep, Desks
  <2> HIDE DEF ws1, home1, last1, e
  <2> QED
    BY <1>3, <2>1, <2>2 DEF Desks
<1> HIDE DEF e
<1>7. Live(e) = Live(d) \cap kept
  BY <1>4, <1>5 DEF Live
<1>8. ShowsItsOwn(e)
  BY <1>0, <1>1, <1>4, <1>7, NamesApart DEF Fine, ShowsItsOwn, SameButLives
<1>9. FlagAgrees(e)
  <2> SUFFICES ASSUME NEW v \in All PROVE v \in e.visible <=> OnShow(e, v)
    BY DEF FlagAgrees
  <2>1. v \in d.visible <=> OnShow(d, v)
    BY DEF Fine, FlagAgrees
  <2>2. v \in d.visible => v \in kept
    BY <1>3
  <2>3. v \in kept => e.home[v] = d.home[v]
    BY <1>4
  <2>4. v \notin kept => e.home[v] = None
    BY <1>4
  <2> QED
    BY <2>1, <2>2, <2>3, <2>4, <1>4 DEF OnShow, SameButLives
<1>10. Housed(e, N)
  BY <1>4, <1>7 DEF Fine, Housed
<1>11. Peopled(e) /\ PinsMapped(e) /\ e.persistent \subseteq Live(e) /\ e.focus \in N \cup {None}
  BY <1>0, <1>1, <1>4, <1>7, DeskFields DEF Fine, Peopled, PinsMapped, SameButLives
<1>12. Beside(e)
  BY <1>0, <1>1, <1>4 DEF Fine, Beside, SameButLives
<1> QED
  BY <1>4, <1>6, <1>7, <1>8, <1>9, <1>10, <1>11, <1>12 DEF Fine, e, kept

(***************************************************************************)
(* moveWorkspaceToMonitor.                                                 *)
(***************************************************************************)

(* Moving a workspace that is not shown keeps the desk fine: its windows go
   along. *)
LEMMA CarryFine ==
  ASSUME NEW d \in Desks, NEW N \in SUBSET Outputs, Fine(d, N), NEW m \in N,
         NEW w \in All, w \in Live(d), NEW next \in All, next \in Live(d), ~OnShow(d, w)
  PROVE  LET e == CarryWindows(d, w, m, next) IN
         /\ e \in Desks /\ Fine(e, N)
         /\ e.mons = d.mons /\ e.seen = d.seen /\ e.pinned = d.pinned /\ e.persistent = d.persistent
         /\ e.ws = d.ws /\ e.last = d.last /\ e.special = d.special /\ e.active = d.active
         /\ e.focus = d.focus /\ e.visible = d.visible
         /\ e.home = [d.home EXCEPT ![w] = m]
         /\ \A x \in Windows :
              e.winWs[x] = IF d.winWs[x] = w /\ x \in d.pinned THEN next ELSE d.winWs[x]
<1> DEFINE e == CarryWindows(d, w, m, next)
<1>0. /\ d.winWs \in [Windows -> All \cup {None}] /\ d.winMon \in [Windows -> Outputs \cup {None}]
      /\ d.home \in [All -> Outputs \cup {None}] /\ m \in Outputs /\ m # None /\ w # None
      /\ d.special \in [Outputs -> Special \cup {None}] /\ d.active \in [Outputs -> Regular \cup {None}]
      /\ next # None
  BY DeskFields, NamesApart
<1> DEFINE mon == [x \in Windows |-> IF d.winWs[x] = w /\ x \notin d.pinned THEN m ELSE d.winMon[x]]
<1> DEFINE wsp == [x \in Windows |-> IF d.winWs[x] = w /\ x \in d.pinned THEN next ELSE d.winWs[x]]
<1> DEFINE hm == [d.home EXCEPT ![w] = m]
<1>1. e = [d EXCEPT !.home = hm, !.winWs = wsp, !.winMon = mon]
  BY DEF CarryWindows, Desks
<1>2. hm \in [All -> MonitorOrNone] /\ wsp \in [Windows -> All \cup {None}]
      /\ mon \in [Windows -> MonitorOrNone]
  BY <1>0 DEF MonitorOrNone
<1> HIDE DEF e
<1>3. /\ e.mons = d.mons /\ e.seen = d.seen /\ e.pinned = d.pinned /\ e.persistent = d.persistent
      /\ e.ws = d.ws /\ e.last = d.last /\ e.special = d.special /\ e.active = d.active
      /\ e.focus = d.focus /\ e.visible = d.visible
      /\ e.home = hm /\ e.winWs = wsp /\ e.winMon = mon
  <2> HIDE DEF hm, wsp, mon
  <2> QED
    BY <1>1 DEF Desks
<1>4. e \in Desks
  <2> HIDE DEF hm, wsp, mon
  <2> QED
    BY <1>1, <1>2 DEF Desks
<1>5. Live(e) = Live(d)
  BY <1>3 DEF Live
<1>6. \A o \in Outputs : d.active[o] # w /\ d.special[o] # w
  <2> SUFFICES ASSUME NEW o \in Outputs, d.active[o] = w \/ d.special[o] = w PROVE FALSE
    OBVIOUS
  <2>1. d.home[w] = o /\ o # None
    BY <1>0, NamesApart DEF Fine, ShowsItsOwn
  <2> QED
    BY <2>1 DEF OnShow
<1>7. ShowsItsOwn(e)
  BY <1>0, <1>3, <1>5, <1>6 DEF Fine, ShowsItsOwn
<1>8. FlagAgrees(e)
  <2> SUFFICES ASSUME NEW v \in All PROVE v \in e.visible <=> OnShow(e, v)
    BY DEF FlagAgrees
  <2>1. v \in d.visible <=> OnShow(d, v)
    BY DEF Fine, FlagAgrees
  <2>2. CASE v # w
    BY <2>1, <2>2, <1>0, <1>3 DEF OnShow
  <2>3. CASE v = w
    BY <2>1, <2>3, <1>0, <1>3, <1>6 DEF OnShow
  <2> QED
    BY <2>2, <2>3
<1>9. Housed(e, N)
  BY <1>0, <1>3, <1>5 DEF Fine, Housed
<1>10. Peopled(e) /\ PinsMapped(e) /\ e.persistent \subseteq Live(e) /\ e.focus \in N \cup {None}
  BY <1>0, <1>3, <1>5, DeskFields DEF Fine, Peopled, PinsMapped
<1>11. Beside(e)
  <2> SUFFICES ASSUME NEW x \in Windows \ d.pinned, e.winWs[x] # None
               PROVE  e.winMon[x] = e.home[e.winWs[x]]
    BY <1>3 DEF Beside
  <2>1. e.winWs[x] = d.winWs[x]
    BY <1>3
  <2>2. d.winMon[x] = d.home[d.winWs[x]] /\ d.winWs[x] \in All
    BY <2>1, <1>0 DEF Fine, Beside
  <2> QED
    BY <1>0, <1>3, <2>1, <2>2
<1> QED
  BY <1>3, <1>4, <1>7, <1>8, <1>9, <1>10, <1>11 DEF Fine, e

(* What the takeover of a monitor in focus leaves alone. *)
LEMMA TakeOverFine ==
  ASSUME setup \in Setups,
         NEW d \in Desks, NEW N \in SUBSET Outputs, Fine(d, N), NEW m \in N,
         NEW w \in Regular, w \in Live(d), d.home[w] = m
  PROVE  LET e == TakeOver(d, w, m) IN
         /\ e \in Desks /\ Fine(e, N)
         /\ e.mons = d.mons /\ e.seen = d.seen /\ e.pinned = d.pinned /\ e.persistent = d.persistent
         /\ e.ws = d.ws /\ e.last = d.last /\ e.home = d.home /\ e.winWs = d.winWs
         /\ e.focus = m
         /\ e.active = [d.active EXCEPT ![m] = w]
         /\ e.special[m] \in {d.special[m], None}
         /\ \A o \in Outputs \ {m} : e.special[o] = d.special[o]
<1> DEFINE h == Hidden(d, d.active[m])
<1> DEFINE r == Replaced(h, m)
<1> DEFINE c == IF setup.hide THEN CloseSpecial(d, m) ELSE d
<1> DEFINE e == TakeOver(d, w, m)
<1>0. m \in Outputs /\ setup.hide \in BOOLEAN /\ m # None
      /\ d.special \in [Outputs -> Special \cup {None}] /\ d.active \in [Outputs -> Regular \cup {None}]
      /\ d.visible \subseteq All
  BY SetupAssumption, DeskFields, NamesApart
<1>1. /\ c \in Desks /\ Fine(c, N) /\ SameLists(d, c) /\ c.active = d.active /\ c.home = d.home
      /\ c.special = (IF setup.hide THEN [d.special EXCEPT ![m] = None] ELSE d.special)
      /\ c.winMon = d.winMon
      /\ c.visible = (IF setup.hide THEN d.visible \ {d.special[m]} ELSE d.visible)
  <2>1. CASE setup.hide
    <3>1. CloseSpecial(d, m).winMon = d.winMon /\ CloseSpecial(d, m).visible = d.visible \ {d.special[m]}
      BY DEF CloseSpecial, Desks
    <3> QED
      BY <2>1, <3>1, <1>0, CloseSpecialFine
  <2>2. CASE ~setup.hide
    BY <2>2, <1>0 DEF SameLists
  <2> QED
    BY <2>1, <2>2, <1>0
<1> HIDE DEF c
<1>2. h = [d EXCEPT !.visible = d.visible \ {d.active[m]}] /\ h \in Desks
  BY <1>0 DEF Hidden, Desks
<1>3. /\ r.mons = d.mons /\ r.seen = d.seen /\ r.pinned = d.pinned /\ r.persistent = d.persistent
      /\ r.ws = d.ws /\ r.last = d.last /\ r.home = d.home /\ r.winWs = d.winWs
      /\ r.winMon = d.winMon /\ r.active = d.active
      /\ r.special = c.special /\ r.visible = c.visible \ {d.active[m]} /\ r \in Desks
  <2>0. /\ h.mons = d.mons /\ h.seen = d.seen /\ h.pinned = d.pinned /\ h.persistent = d.persistent
        /\ h.ws = d.ws /\ h.last = d.last /\ h.home = d.home /\ h.winWs = d.winWs
        /\ h.winMon = d.winMon /\ h.active = d.active
        /\ h.special = d.special /\ h.visible = d.visible \ {d.active[m]}
    <3> HIDE DEF h
    <3> QED
      BY <1>2 DEF Desks
  <2> HIDE DEF h
  <2>1. CASE ~setup.hide
    <3>1. r = h
      BY <2>1 DEF Replaced
    <3> QED
      BY <3>1, <2>0, <2>1, <1>1, <1>2
  <2>2. CASE setup.hide /\ d.special[m] = None
    <3>1. r = h
      BY <2>2, <2>0 DEF Replaced, SetSpecialWorkspace
    <3>2. [d.special EXCEPT ![m] = None] = d.special
      BY <2>2, <1>0
    <3>3. d.visible \ {d.special[m]} = d.visible
      BY <2>2, <1>0, NamesApart
    <3> QED
      BY <3>1, <3>2, <3>3, <2>0, <2>2, <1>1, <1>2
  <2>3. CASE setup.hide /\ d.special[m] # None
    <3> DEFINE k == CloseSpecial(h, m)
    <3>1. r = FocusLastWindow(k, m, h.active[m])
      BY <2>3, <2>0 DEF Replaced, SetSpecialWorkspace
    <3>2. /\ k.mons = d.mons /\ k.seen = d.seen /\ k.pinned = d.pinned /\ k.persistent = d.persistent
          /\ k.ws = d.ws /\ k.last = d.last /\ k.home = d.home /\ k.winWs = d.winWs
          /\ k.winMon = d.winMon /\ k.active = d.active
          /\ k.special = [d.special EXCEPT ![m] = None]
          /\ k.visible = (d.visible \ {d.active[m]}) \ {d.special[m]}
          /\ k \in Desks
      BY <2>0, <1>2 DEF CloseSpecial, Desks
    <3> HIDE DEF k, r
    <3>3. PICK f \in {k.focus, m} : r = [k EXCEPT !.focus = f]
      BY <3>1, <3>2, <1>0, FocusLastWindowFine
    <3>4. f \in MonitorOrNone
      BY <3>2, <1>0 DEF Desks, MonitorOrNone
    <3>5. /\ r.mons = k.mons /\ r.seen = k.seen /\ r.pinned = k.pinned /\ r.persistent = k.persistent
          /\ r.ws = k.ws /\ r.last = k.last /\ r.home = k.home /\ r.winWs = k.winWs
          /\ r.winMon = k.winMon /\ r.active = k.active
          /\ r.special = k.special /\ r.visible = k.visible /\ r \in Desks
      BY <3>2, <3>3, <3>4 DEF Desks
    <3>6. (d.visible \ {d.active[m]}) \ {d.special[m]} = (d.visible \ {d.special[m]}) \ {d.active[m]}
      OBVIOUS
    <3> QED
      BY <2>3, <3>2, <3>5, <3>6, <1>1
  <2> QED
    BY <2>1, <2>2, <2>3, <1>0
<1> DEFINE g == Changed(c, c, m, w)
<1>4. /\ g \in Desks /\ Fine(g, N) /\ SameButWindows(c, g)
      /\ g.active = [c.active EXCEPT ![m] = w]
      /\ \A x \in Windows : g.winWs[x] \in {c.winWs[x], w}
  <2>1. w \in Live(c) /\ c.home[w] = m
    BY <1>1 DEF SameLists, Live
  <2> QED
    BY <1>1, <2>1, ChangeFine
<1>5. g.winWs = c.winWs /\ g.winMon = c.winMon /\ g.visible = (c.visible \ {d.active[m]}) \cup {w}
  <2>1. CASE w = c.active[m]
    <3>1. g = c
      BY <2>1, NamesApart DEF Changed
    <3>2. OnShow(c, w) /\ w \in All
      BY <2>1, <1>1, <1>0, NamesApart DEF OnShow, SameLists
    <3>3. w \in c.visible
      BY <3>2, <1>1 DEF Fine, FlagAgrees
    <3> QED
      BY <3>1, <3>3, <2>1, <1>1
  <2>2. CASE w # c.active[m]
    <3>1. g = [c EXCEPT !.active[m] = w, !.visible = (@ \ {c.active[m]}) \cup {w}]
      BY <2>2, NamesApart DEF Changed
    <3> HIDE DEF g
    <3> QED
      BY <3>1, <1>1 DEF Desks
  <2> QED
    BY <2>1, <2>2
<1>6. e = [r EXCEPT !.focus = m, !.active[m] = w, !.visible = @ \cup {w}]
  BY DEF TakeOver, ShownThere
<1> HIDE DEF r, h, g, e
<1> DEFINE q == [g EXCEPT !.focus = m]
<1>7. e = q
  <2>1. /\ e.mons = r.mons /\ e.seen = r.seen /\ e.pinned = r.pinned /\ e.persistent = r.persistent
        /\ e.ws = r.ws /\ e.last = r.last /\ e.home = r.home /\ e.winWs = r.winWs
        /\ e.winMon = r.winMon /\ e.special = r.special
        /\ e.focus = m /\ e.active = [r.active EXCEPT ![m] = w] /\ e.visible = r.visible \cup {w}
        /\ e \in Desks
    BY <1>6, <1>3, <1>0, NamesApart DEF Desks, MonitorOrNone
  <2>2. /\ q.mons = g.mons /\ q.seen = g.seen /\ q.pinned = g.pinned /\ q.persistent = g.persistent
        /\ q.ws = g.ws /\ q.last = g.last /\ q.home = g.home /\ q.winWs = g.winWs
        /\ q.winMon = g.winMon /\ q.special = g.special
        /\ q.focus = m /\ q.active = g.active /\ q.visible = g.visible
        /\ q \in Desks
    BY <1>4, <1>0 DEF Desks, MonitorOrNone
  <2>3. /\ g.mons = d.mons /\ g.seen = d.seen /\ g.pinned = d.pinned /\ g.persistent = d.persistent
        /\ g.ws = d.ws /\ g.last = d.last /\ g.home = d.home /\ g.winWs = d.winWs
        /\ g.winMon = d.winMon /\ g.special = c.special
    BY <1>1, <1>4, <1>5 DEF SameLists, SameButWindows
  <2> HIDE DEF q
  <2>4. /\ e.mons = q.mons /\ e.seen = q.seen /\ e.pinned = q.pinned /\ e.persistent = q.persistent
        /\ e.ws = q.ws /\ e.last = q.last /\ e.home = q.home /\ e.winWs = q.winWs
        /\ e.winMon = q.winMon /\ e.special = q.special
        /\ e.focus = q.focus /\ e.active = q.active /\ e.visible = q.visible
    BY <2>1, <2>2, <2>3, <1>1, <1>3, <1>4, <1>5
  <2> QED
    BY <2>1, <2>2, <2>4, SameDesk
<1>8. q \in Desks /\ Fine(q, N)
  BY <1>4, FocusFine
<1>9. /\ q.mons = d.mons /\ q.seen = d.seen /\ q.pinned = d.pinned /\ q.persistent = d.persistent
      /\ q.ws = d.ws /\ q.last = d.last /\ q.home = d.home /\ q.winWs = d.winWs
      /\ q.special = c.special /\ q.focus = m /\ q.active = [d.active EXCEPT ![m] = w]
  <2>1. /\ q.mons = g.mons /\ q.seen = g.seen /\ q.pinned = g.pinned /\ q.persistent = g.persistent
        /\ q.ws = g.ws /\ q.last = g.last /\ q.home = g.home /\ q.winWs = g.winWs
        /\ q.special = g.special /\ q.focus = m /\ q.active = g.active
    BY <1>4 DEF Desks
  <2> HIDE DEF q
  <2> QED
    BY <2>1, <1>1, <1>4, <1>5 DEF SameLists, SameButWindows
<1> HIDE DEF q
<1>10. c.special[m] \in {d.special[m], None} /\ \A o \in Outputs \ {m} : c.special[o] = d.special[o]
  BY <1>1, <1>0
<1> QED
  BY <1>7, <1>8, <1>9, <1>10 DEF e

(* What the plugging of a gap keeps. *)
SameButGap(d, g) ==
  /\ g.mons = d.mons /\ g.seen = d.seen /\ g.pinned = d.pinned /\ g.last = d.last
  /\ g.special = d.special /\ g.focus = d.focus

Plugged(d, g, w, n, old, N) ==
  /\ g \in Desks /\ Fine(g, N) /\ SameButGap(d, g)
  /\ n \in Regular /\ n # w /\ n \in Live(g) /\ g.home[n] = old
  /\ Live(g) = Live(d) \cup {n}
  /\ \A v \in All : v # n => g.home[v] = d.home[v]
  /\ IF n \in Live(d) THEN d.home[n] = old ELSE BoundMonitor(d, n) \in {None, old}
  /\ g.active = [d.active EXCEPT ![old] = n]
  /\ d.persistent \subseteq g.persistent
  /\ \A v \in g.persistent : v \in d.persistent \/ v \in ToSet(setup.persistent) \ Live(d)
  /\ \A x \in Windows : /\ g.winWs[x] \in {d.winWs[x], n}
                        /\ x \notin d.pinned \/ d.winWs[x] # w => g.winWs[x] = d.winWs[x]

(* With the gap plugged, w is not shown on old any more. *)
LEMMA GapFine ==
  ASSUME IdsNeverRunOut, setup \in Setups,
         NEW d \in Desks, NEW N \in SUBSET Outputs, Fine(d, N), ToSet(d.mons) \subseteq N,
         NEW old \in N, NEW w \in Regular, w \in Live(d), d.home[w] = old, d.active[old] = w
  PROVE  Plugged(d, PlugGap(d, w, old).desk, w, PlugGap(d, w, old).next, old, N)
<1> DEFINE T == {v \in Regular \ {w} : d.home[v] = old}
<1>0. ToSet(Others(d, w, old)) = Live(d) \cap T /\ Others(d, w, old) \in Seq(All)
  <2>1. d.ws \in Seq(All)
    BY DeskFields
  <2> HIDE DEF T
  <2>2. ToSet(Only(d.ws, T)) = ToSet(d.ws) \cap T /\ Only(d.ws, T) \in Seq(All)
    BY <2>1, OnlySet
  <2> QED
    BY <2>2 DEF T, Others, Live
<1>1. ASSUME NEW c \in Desks, Fine(c, N), SameButLists(d, c),
             NEW n \in Regular, n \in Live(c), c.home[n] = old, n # w,
             Live(c) = Live(d) \cup {n},
             \A v \in All : v # n => c.home[v] = d.home[v],
             IF n \in Live(d) THEN d.home[n] = old ELSE BoundMonitor(d, n) \in {None, old},
             d.persistent \subseteq c.persistent,
             \A v \in c.persistent : v \in d.persistent \/ v \in ToSet(setup.persistent) \ Live(d)
      PROVE  Plugged(d, Opened(c, old, n), w, n, old, N)
  <2> DEFINE g == Opened(c, old, n)
  <2>1. /\ g \in Desks /\ Fine(g, N) /\ SameButWindows(c, g)
        /\ g.active = [c.active EXCEPT ![old] = n]
        /\ \A x \in Windows : /\ g.winWs[x] \in {c.winWs[x], n}
                              /\ x \notin c.pinned => g.winWs[x] = c.winWs[x]
                              /\ c.winWs[x] # c.active[old] => g.winWs[x] = c.winWs[x]
    BY <1>1, OpenedFine
  <2> HIDE DEF g
  <2>2. SameButGap(d, g) /\ Live(g) = Live(c) /\ g.home = c.home /\ g.persistent = c.persistent
    BY <1>1, <2>1 DEF SameButGap, SameButWindows, SameButLists, Live
  <2>3. c.active = d.active /\ c.winWs = d.winWs /\ c.pinned = d.pinned
    BY <1>1 DEF SameButLists
  <2>4. Plugged(d, g, w, n, old, N)
    BY <1>1, <2>1, <2>2, <2>3 DEF Plugged
  <2> QED
    BY <2>4 DEF g
<1>2. CASE Others(d, w, old) # <<>>
  <2> DEFINE n == Head(Others(d, w, old))
  <2>1. n \in Live(d) \cap T
    BY <1>0, <1>2, HeadIn
  <2>2. /\ PlugGap(d, w, old).desk = ChangeWorkspace(d, old, n, FALSE)
        /\ PlugGap(d, w, old).next = n
    BY <1>2 DEF PlugGap, Gap
  <2> HIDE DEF n
  <2>3. PlugGap(d, w, old).desk = Opened(d, old, n)
    BY <2>1, <2>2, OpenedIs
  <2>4. Plugged(d, Opened(d, old, n), w, n, old, N)
    <3>1. SameButLists(d, d) /\ Live(d) = Live(d) \cup {n}
      BY <2>1 DEF SameButLists
    <3> QED
      BY <2>1, <3>1, <1>1
  <2> QED
    BY <2>2, <2>3, <2>4
<1>3. CASE Others(d, w, old) = <<>>
  <2> DEFINE n == PlugId(d, old)
  <2>1. n \in Regular /\ n \notin Live(d) /\ BoundMonitor(d, n) \in {None, old}
    BY PlugIdFree
  <2>2. /\ PlugGap(d, w, old).desk = ChangeWorkspace(Create(d, n, old), old, n, FALSE)
        /\ PlugGap(d, w, old).next = n
    BY <1>3 DEF PlugGap, Gap
  <2> HIDE DEF n
  <2> DEFINE c == Create(d, n, old)
  <2>3. n \in All /\ (IF BoundMonitor(d, n) # None THEN BoundMonitor(d, n) ELSE old) = old
    BY <2>1, NamesApart
  <2>4. /\ c \in Desks /\ Fine(c, N) /\ SameButLists(d, c)
        /\ Live(c) = Live(d) \cup {n}
        /\ c.home = [d.home EXCEPT ![n] = old]
        /\ c.persistent = d.persistent \cup ({n} \cap ToSet(setup.persistent))
    BY <2>1, <2>3, CreateFine
  <2> HIDE DEF c
  <2>5. PlugGap(d, w, old).desk = Opened(c, old, n)
    BY <2>1, <2>2, OpenedIs DEF c
  <2>6. n # w /\ n \in Live(c) /\ c.home[n] = old /\ \A v \in All : v # n => c.home[v] = d.home[v]
    BY <2>1, <2>3, <2>4, DeskFields
  <2>7. Plugged(d, Opened(c, old, n), w, n, old, N)
    BY <2>1, <2>4, <2>6, <1>1
  <2> QED
    BY <2>2, <2>5, <2>7
<1> QED
  BY <1>2, <1>3

(* What a workspace that lives after a move of w to m was before: w, one
   that stays where it is, or the one that plugs the gap. *)
Traced(d, e, w, v) ==
  \/ v = w
  \/ v \in Live(d) /\ e.home[v] = d.home[v]
  \/ /\ v \in Regular \ Live(d) /\ e.home[v] = d.home[w]
     /\ BoundMonitor(d, v) \in {None, d.home[w]}

(* What a move of w to m comes to; the workspaces of local that lived still do. *)
Moved(d, e, w, m, N, local) ==
  /\ e \in Desks /\ Fine(e, N)
  /\ e.mons = d.mons /\ e.seen = d.seen /\ e.pinned = d.pinned
  /\ w \in Live(e) /\ e.home[w] = m
  /\ Live(d) \cap local \subseteq Live(e)
  /\ \A v \in Live(e) : Traced(d, e, w, v)
  /\ d.persistent \subseteq e.persistent
  /\ \A v \in e.persistent : v \in d.persistent \/ v \in ToSet(setup.persistent) \ Live(d)
  /\ \A o \in Outputs : d.active[o] # None => e.active[o] # None
  /\ \A o \in Outputs \ {m} : d.active[o] = None => e.active[o] = None
  /\ e.active[m] \in {d.active[m], w}
  /\ \A o \in Outputs \ {m} : e.special[o] \in {d.special[o], None}
  /\ e.focus \in {d.focus, m}
  /\ \A x \in Windows : x \notin d.pinned \/ d.winWs[x] # w => e.winWs[x] = d.winWs[x]
  /\ \A v \in All : e.last[v] = d.last[v] \/ (e.last[v] = None /\ v \notin Live(e))

(* A move ends with the workspaces nobody holds dropped. *)
LEMMA MovedCollected ==
  ASSUME NEW d \in Desks, NEW k, NEW w \in All, NEW m, NEW N \in SUBSET Outputs, NEW local,
         Moved(d, k, w, m, N, Live(d))
  PROVE  Moved(d, Collect(k, local \cup {w}), w, m, N, local)
<1> DEFINE e == Collect(k, local \cup {w})
<1> DEFINE kept == Held(k) \cup (local \cup {w})
<1>0. k \in Desks /\ Fine(k, N)
  BY DEF Moved
<1>1. /\ e \in Desks /\ Fine(e, N) /\ SameButLives(k, e)
      /\ Live(e) = Live(k) \cap kept
      /\ \A v \in All : e.home[v] = (IF v \in kept THEN k.home[v] ELSE None)
      /\ \A v \in All : e.last[v] = (IF v \in kept THEN k.last[v] ELSE None)
  BY <1>0, CollectFine
<1>2. w \in kept /\ local \subseteq kept
  OBVIOUS
<1> HIDE DEF e, kept
<1>3. Live(e) \subseteq All
  BY <1>1, DeskFields
<1>4. w \in Live(e) /\ e.home[w] = m /\ Live(d) \cap local \subseteq Live(e)
  BY <1>1, <1>2 DEF Moved
<1>5. ASSUME NEW v \in Live(e) PROVE Traced(d, e, w, v)
  <2>1. Traced(d, k, w, v)
    BY <1>1 DEF Moved
  <2>2. e.home[v] = k.home[v]
    BY <1>1, <1>3
  <2> QED
    BY <2>1, <2>2 DEF Traced
<1>6. \A v \in All : e.last[v] = d.last[v] \/ (e.last[v] = None /\ v \notin Live(e))
  BY <1>1 DEF Moved
<1>7. Moved(d, e, w, m, N, local)
  BY <1>1, <1>4, <1>5, <1>6 DEF Moved, SameButLives
<1> QED
  BY <1>7 DEF e

(* Nothing to do. *)
LEMMA MovedNowhere ==
  ASSUME NEW d \in Desks, NEW N \in SUBSET Outputs, Fine(d, N), NEW m, NEW w \in Live(d), d.home[w] = m,
         NEW local
  PROVE  Moved(d, d, w, m, N, local)
  BY DEF Moved, Traced

(* What is open as a special workspace moves by opening it there. *)
LEMMA MovedSpecial ==
  ASSUME NEW d \in Desks, NEW N \in SUBSET Outputs, Fine(d, N), NEW m \in N,
         NEW w \in Special, w \in Live(d), NEW local
  PROVE  Moved(d, SetSpecialWorkspace(d, m, w), w, m, N, local)
<1> DEFINE e == SetSpecialWorkspace(d, m, w)
<1>1. /\ e \in Desks /\ Fine(e, N) /\ SameLists(d, e)
      /\ e.active = d.active /\ e.focus \in {d.focus, m}
      /\ e.home = [v \in All |-> IF v = w THEN m ELSE d.home[v]]
      /\ \A o \in Outputs \ {m} : e.special[o] \in {d.special[o], None}
  BY SetSpecialFine
<1> HIDE DEF e
<1>2. Live(e) = Live(d) /\ Live(d) \subseteq All
  BY <1>1, DeskFields DEF SameLists, Live
<1>3. \A v \in Live(e) : Traced(d, e, w, v)
  BY <1>1, <1>2 DEF Traced
<1>4. e.home[w] = m
  BY <1>1, <1>2
<1>5. Moved(d, e, w, m, N, local)
  BY <1>1, <1>2, <1>3, <1>4 DEF Moved, SameLists
<1> QED
  BY <1>5 DEF e

(* What is not shown moves with its windows. *)
LEMMA MovedHidden ==
  ASSUME NEW d \in Desks, NEW N \in SUBSET Outputs, Fine(d, N), NEW m \in N,
         NEW w \in All, w \in Live(d), ~OnShow(d, w)
  PROVE  Moved(d, CarryWindows(d, w, m, w), w, m, N, Live(d))
<1> DEFINE e == CarryWindows(d, w, m, w)
<1>1. /\ e \in Desks /\ Fine(e, N)
      /\ e.mons = d.mons /\ e.seen = d.seen /\ e.pinned = d.pinned /\ e.persistent = d.persistent
      /\ e.ws = d.ws /\ e.last = d.last /\ e.special = d.special /\ e.active = d.active
      /\ e.focus = d.focus /\ e.visible = d.visible
      /\ e.home = [d.home EXCEPT ![w] = m]
      /\ \A x \in Windows :
           e.winWs[x] = IF d.winWs[x] = w /\ x \in d.pinned THEN w ELSE d.winWs[x]
  BY CarryFine
<1> HIDE DEF e
<1>2. Live(e) = Live(d) /\ Live(d) \subseteq All
  BY <1>1, DeskFields DEF Live
<1>3. e.home[w] = m /\ \A v \in All \ {w} : e.home[v] = d.home[v]
  BY <1>1, DeskFields
<1>4. \A v \in Live(e) : Traced(d, e, w, v)
  BY <1>2, <1>3 DEF Traced
<1>5. Moved(d, e, w, m, N, Live(d))
  BY <1>1, <1>2, <1>3, <1>4 DEF Moved
<1> QED
  BY <1>5 DEF e

(* What is shown leaves a plug behind, and is shown on m if the focus was there. *)
LEMMA MovedShown ==
  ASSUME IdsNeverRunOut, setup \in Setups,
         NEW d \in Desks, NEW N \in SUBSET Outputs, Fine(d, N), ToSet(d.mons) \subseteq N, NEW m \in N,
         NEW w \in Regular, w \in Live(d), d.home[w] # m, d.active[d.home[w]] = w
  PROVE  Moved(d, Relocate(PlugGap(d, w, d.home[w]), w, d.home[w], m), w, m, N, Live(d))
<1> DEFINE old == d.home[w]
<1> DEFINE g == PlugGap(d, w, old).desk
<1> DEFINE n == PlugGap(d, w, old).next
<1> DEFINE k == CarryWindows(g, w, m, n)
<1> DEFINE e == Relocate(PlugGap(d, w, old), w, old, m)
<1>0. old \in N /\ w \in All /\ w # None /\ old # None /\ m \in Outputs /\ old \in Outputs
  BY NamesApart DEF Fine, Housed
<1>1. Plugged(d, g, w, n, old, N)
  BY <1>0, GapFine
<1>2. e = IF n # w /\ old = g.focus THEN TakeOver(k, w, m) ELSE k
  BY DEF Relocate
<1> HIDE DEF old, g, n, k, e
<1>3. ~OnShow(g, w)
  <2>1. g.home[w] = old
    BY <1>0, <1>1 DEF Plugged, old
  <2>2. g.active[old] = n /\ n # w
    BY <1>0, <1>1, DeskFields DEF Plugged
  <2>3. g.special[old] \in Special \cup {None}
    BY <1>0, <1>1, DeskFields DEF Plugged
  <2> QED
    BY <1>0, <2>1, <2>2, <2>3, NamesApart DEF OnShow
<1>4. /\ k \in Desks /\ Fine(k, N)
      /\ k.mons = g.mons /\ k.seen = g.seen /\ k.pinned = g.pinned /\ k.persistent = g.persistent
      /\ k.ws = g.ws /\ k.last = g.last /\ k.special = g.special /\ k.active = g.active
      /\ k.focus = g.focus /\ k.visible = g.visible
      /\ k.home = [g.home EXCEPT ![w] = m]
      /\ \A x \in Windows :
           k.winWs[x] = IF g.winWs[x] = w /\ x \in g.pinned THEN n ELSE g.winWs[x]
  <2>1. n \in All /\ n \in Live(g) /\ w \in Live(g) /\ g \in Desks /\ Fine(g, N)
    BY <1>1, NamesApart DEF Plugged
  <2> QED
    BY <1>0, <1>3, <2>1, CarryFine DEF k
<1>5. k.home[w] = m /\ \A v \in All \ {w} : k.home[v] = g.home[v]
  BY <1>0, <1>1, <1>4, DeskFields DEF Plugged
<1>6. Live(k) = Live(d) \cup {n} /\ Live(k) \subseteq All
  BY <1>1, <1>4, DeskFields DEF Plugged, Live
<1>7. \A v \in Live(k) : Traced(d, k, w, v)
  <2> SUFFICES ASSUME NEW v \in Live(k), v # w PROVE Traced(d, k, w, v)
    BY DEF Traced
  <2>1. CASE v = n
    BY <2>1, <1>1, <1>5, <1>6 DEF Plugged, Traced, old
  <2>2. CASE v # n
    BY <2>2, <1>1, <1>5, <1>6 DEF Plugged, Traced
  <2> QED
    BY <2>1, <2>2
<1>8. /\ d.active \in [Outputs -> Regular \cup {None}]
      /\ k.active = [d.active EXCEPT ![old] = n] /\ n # None
  BY <1>1, <1>4, DeskFields, NamesApart DEF Plugged
<1>9. Moved(d, k, w, m, N, Live(d))
  <2>1. \A x \in Windows : x \notin d.pinned \/ d.winWs[x] # w => k.winWs[x] = d.winWs[x]
    BY <1>1, <1>4 DEF Plugged, SameButGap
  <2>2. /\ k.mons = d.mons /\ k.seen = d.seen /\ k.pinned = d.pinned /\ k.last = d.last
        /\ k.special = d.special /\ k.focus = d.focus
    BY <1>1, <1>4 DEF Plugged, SameButGap
  <2>3. /\ d.persistent \subseteq k.persistent
        /\ \A v \in k.persistent : v \in d.persistent \/ v \in ToSet(setup.persistent) \ Live(d)
    BY <1>1, <1>4 DEF Plugged
  <2>4. /\ \A o \in Outputs : d.active[o] # None => k.active[o] # None
        /\ \A o \in Outputs \ {m} : d.active[o] = None => k.active[o] = None
        /\ k.active[m] \in {d.active[m], w}
    BY <1>8, <1>0 DEF old
  <2> QED
    BY <1>4, <1>5, <1>6, <1>7, <2>1, <2>2, <2>3, <2>4 DEF Moved
<1>10. CASE ~(n # w /\ old = g.focus)
  BY <1>2, <1>9, <1>10 DEF e, old
<1>11. CASE n # w /\ old = g.focus
  <2>1. e = TakeOver(k, w, m)
    BY <1>2, <1>11
  <2>2. w \in Live(k) /\ k.home[w] = m
    BY <1>5, <1>6
  <2>3. /\ e \in Desks /\ Fine(e, N)
        /\ e.mons = k.mons /\ e.seen = k.seen /\ e.pinned = k.pinned /\ e.persistent = k.persistent
        /\ e.ws = k.ws /\ e.last = k.last /\ e.home = k.home /\ e.winWs = k.winWs
        /\ e.focus = m
        /\ e.active = [k.active EXCEPT ![m] = w]
        /\ e.special[m] \in {k.special[m], None}
        /\ \A o \in Outputs \ {m} : e.special[o] = k.special[o]
    <3> HIDE DEF e
    <3>1. k \in Desks /\ Fine(k, N)
      BY <1>4
    <3>2. LET t == TakeOver(k, w, m) IN
          /\ t \in Desks /\ Fine(t, N)
          /\ t.mons = k.mons /\ t.seen = k.seen /\ t.pinned = k.pinned /\ t.persistent = k.persistent
          /\ t.ws = k.ws /\ t.last = k.last /\ t.home = k.home /\ t.winWs = k.winWs
          /\ t.focus = m
          /\ t.active = [k.active EXCEPT ![m] = w]
          /\ t.special[m] \in {k.special[m], None}
          /\ \A o \in Outputs \ {m} : t.special[o] = k.special[o]
      BY <2>2, <3>1, TakeOverFine
    <3> QED
      BY <2>1, <3>2
  <2>4. Live(e) = Live(k)
    BY <2>3 DEF Live
  <2>5. \A v \in Live(e) : Traced(d, e, w, v)
    BY <2>3, <2>4, <1>7 DEF Traced
  <2>6. /\ \A o \in Outputs : d.active[o] # None => e.active[o] # None
        /\ \A o \in Outputs \ {m} : d.active[o] = None => e.active[o] = None
        /\ e.active[m] = w
    BY <2>3, <1>8, <1>0 DEF old
  <2>7. Moved(d, e, w, m, N, Live(d))
    BY <2>3, <2>4, <2>5, <2>6, <1>9 DEF Moved
  <2> QED
    BY <2>7 DEF e, old
<1> QED
  BY <1>10, <1>11

(* CWorkspacePlacementController::moveWorkspaceToMonitor *)
LEMMA MoveFine ==
  ASSUME IdsNeverRunOut, setup \in Setups,
         NEW d \in Desks, NEW N \in SUBSET Outputs, Fine(d, N), ToSet(d.mons) \subseteq N, NEW m \in N,
         NEW w \in Live(d), NEW local
  PROVE  Moved(d, MoveWorkspaceToMonitor(d, w, m, local), w, m, N, local)
<1> DEFINE old == d.home[w]
<1> DEFINE e == MoveWorkspaceToMonitor(d, w, m, local)
<1>0. w \in All /\ old \in N /\ w # None /\ old # None /\ m # None /\ old \in Outputs /\ m \in Outputs
  BY DeskFields, NamesApart DEF Fine, Housed
<1>1. CASE old = m
  BY <1>1, MovedNowhere DEF MoveWorkspaceToMonitor
<1>2. CASE old # m /\ w \in Special /\ d.special[old] = w
  <2>1. e = SetSpecialWorkspace(d, m, w)
    BY <1>0, <1>2 DEF MoveWorkspaceToMonitor
  <2> QED
    BY <1>2, <2>1, MovedSpecial
<1>3. CASE old # m /\ ~(w \in Special /\ d.special[old] = w)
  <2>1. CASE d.active[old] = w
    <3>1. e = Collect(Relocate(PlugGap(d, w, old), w, old, m), local \cup {w})
      BY <1>0, <1>3, <2>1 DEF MoveWorkspaceToMonitor
    <3>2. w \in Regular
      BY <1>0, <2>1, DeskFields
    <3>3. Moved(d, Relocate(PlugGap(d, w, old), w, old, m), w, m, N, Live(d))
      BY <1>3, <2>1, <3>2, MovedShown
    <3> QED
      BY <1>0, <3>1, <3>3, MovedCollected
  <2>2. CASE d.active[old] # w
    <3>1. e = Collect(Relocate([desk |-> d, next |-> w], w, old, m), local \cup {w})
      BY <1>0, <1>3, <2>2 DEF MoveWorkspaceToMonitor
    <3>2. Relocate([desk |-> d, next |-> w], w, old, m) = CarryWindows(d, w, m, w)
      BY DEF Relocate
    <3>3. ~OnShow(d, w)
      <4>1. d.special[old] # w
        BY <1>0, <1>3, DeskFields, NamesApart
      <4> QED
        BY <2>2, <4>1 DEF OnShow
    <3>4. Moved(d, CarryWindows(d, w, m, w), w, m, N, Live(d))
      BY <1>0, <3>3, MovedHidden
    <3> QED
      BY <1>0, <3>1, <3>2, <3>4, MovedCollected
  <2> QED
    BY <2>1, <2>2
<1> QED
  BY <1>1, <1>2, <1>3

On(d) == ToSet(d.mons)

(* The inductive invariant, of a desk between two handlers. *)
Sound(d) ==
  /\ d \in Desks /\ Fine(d, On(d))
  /\ \A o \in Outputs : d.active[o] # None <=> o \in On(d)
  /\ \A o \in Outputs : d.special[o] # None => o \in On(d)
  /\ On(d) # {} => d.focus # None

(* What a sound desk says of its parts. *)
LEMMA SoundFields ==
  ASSUME NEW d, Sound(d)
  PROVE  /\ d \in Desks /\ On(d) \in SUBSET Outputs /\ Fine(d, On(d))
         /\ d.focus # None => d.focus \in On(d)
         /\ \A w \in Live(d) : w \in All /\ w # None /\ d.home[w] \in On(d) /\ d.home[w] # None
         /\ \A o \in On(d) : /\ o \in Outputs /\ o # None
                             /\ d.active[o] \in Regular /\ d.active[o] \in Live(d)
                             /\ d.home[d.active[o]] = o
         /\ \A o \in Outputs : d.special[o] # None =>
              /\ d.special[o] \in Special /\ d.special[o] \in Live(d) /\ d.home[d.special[o]] = o
              /\ o \in On(d)
<1>1. d \in Desks /\ Fine(d, On(d))
  BY DEF Sound
<1>2. On(d) \in SUBSET Outputs
  BY <1>1, DeskFields DEF On
<1>3. \A w \in Live(d) : w \in All /\ w # None /\ d.home[w] \in On(d) /\ d.home[w] # None
  BY <1>1, <1>2, DeskFields, NamesApart DEF Fine, Housed
<1>4. \A o \in On(d) : /\ o \in Outputs /\ o # None
                       /\ d.active[o] \in Regular /\ d.active[o] \in Live(d)
                       /\ d.home[d.active[o]] = o
  <2> TAKE o \in On(d)
  <2>1. o \in Outputs /\ d.active[o] # None
    BY <1>2 DEF Sound
  <2> QED
    BY <1>1, <2>1, DeskFields, NamesApart DEF Fine, ShowsItsOwn
<1>5. \A o \in Outputs : d.special[o] # None =>
              /\ d.special[o] \in Special /\ d.special[o] \in Live(d) /\ d.home[d.special[o]] = o
              /\ o \in On(d)
  BY <1>1, DeskFields DEF Fine, ShowsItsOwn, Sound
<1>6. d.focus # None => d.focus \in On(d)
  BY <1>1 DEF Fine
<1> QED
  BY <1>1, <1>2, <1>3, <1>4, <1>5, <1>6

(* A step that leaves the list alone and shows nothing elsewhere stays sound. *)
LEMMA SoundStep ==
  ASSUME NEW d, Sound(d), NEW e \in Desks, Fine(e, On(d)), e.mons = d.mons,
         \A o \in On(d) : e.active[o] # None,
         \A o \in Outputs \ On(d) : e.active[o] = d.active[o] /\ e.special[o] \in {d.special[o], None},
         d.focus # None => e.focus # None
  PROVE  Sound(e) /\ On(e) = On(d)
  BY DEF Sound, On

(* Focusing a monitor on the list keeps the desk sound. *)
LEMMA SoundFocus ==
  ASSUME NEW d, Sound(d), NEW f \in On(d) \cup {d.focus}
  PROVE  /\ Sound([d EXCEPT !.focus = f])
         /\ On([d EXCEPT !.focus = f]) = On(d)
         /\ Live([d EXCEPT !.focus = f]) = Live(d)
<1> DEFINE e == [d EXCEPT !.focus = f]
<1>1. d \in Desks /\ On(d) \in SUBSET Outputs /\ Fine(d, On(d)) /\ f \in On(d) \cup {None, d.focus}
      /\ (d.focus # None => f # None)
  BY SoundFields, NamesApart
<1>2. e \in Desks /\ Fine(e, On(d))
  BY <1>1, FocusFine
<1>3. e.mons = d.mons /\ e.active = d.active /\ e.special = d.special /\ e.focus = f /\ e.ws = d.ws
  BY <1>1 DEF Desks
<1> HIDE DEF e
<1>4. Sound(e) /\ On(e) = On(d)
  BY <1>1, <1>2, <1>3, SoundFields, SoundStep, NamesApart
<1> QED
  BY <1>3, <1>4 DEF e, Live

(* So does opening or closing a special workspace, *)
LEMMA SoundSpecial ==
  ASSUME NEW d, Sound(d), NEW m \in On(d), NEW w, w = None \/ (w \in Special /\ w \in Live(d))
  PROVE  LET e == SetSpecialWorkspace(d, m, w) IN
         /\ Sound(e) /\ On(e) = On(d) /\ Live(e) = Live(d)
         /\ SameLists(d, e) /\ e.active = d.active
         /\ e.home = [v \in All |-> IF v = w THEN m ELSE d.home[v]]
         /\ e.focus \in {d.focus, m}
<1> DEFINE e == SetSpecialWorkspace(d, m, w)
<1>1. d \in Desks /\ On(d) \in SUBSET Outputs /\ Fine(d, On(d)) /\ m # None
  BY SoundFields
<1>2. /\ e \in Desks /\ Fine(e, On(d)) /\ SameLists(d, e)
      /\ e.active = d.active /\ e.focus \in {d.focus, m}
      /\ e.home = [v \in All |-> IF v = w THEN m ELSE d.home[v]]
      /\ e.special[m] = w
      /\ \A o \in Outputs \ {m} : e.special[o] \in {d.special[o], None}
  BY <1>1, SetSpecialFine
<1> HIDE DEF e
<1>3. Live(e) = Live(d) /\ e.mons = d.mons
  BY <1>2 DEF Live, SameLists
<1>4. \A o \in On(d) : e.active[o] # None
  BY <1>2, SoundFields, NamesApart
<1>5. Sound(e) /\ On(e) = On(d)
  BY <1>1, <1>2, <1>3, <1>4, SoundStep
<1> QED
  BY <1>2, <1>3, <1>5 DEF e

(* showing a workspace, *)
LEMMA SoundOpened ==
  ASSUME NEW d, Sound(d), NEW m \in On(d), NEW w \in Regular, w \in Live(d), d.home[w] = m
  PROVE  LET e == ChangeWorkspace(d, m, w, FALSE) IN
         /\ Sound(e) /\ On(e) = On(d) /\ Live(e) = Live(d)
         /\ SameButWindows(d, e)
         /\ \A x \in Windows : e.winWs[x] \in {d.winWs[x], w}
<1> DEFINE e == Opened(d, m, w)
<1>1. d \in Desks /\ On(d) \in SUBSET Outputs /\ Fine(d, On(d)) /\ m # None /\ w # None
  BY SoundFields, NamesApart
<1>2. /\ e \in Desks /\ Fine(e, On(d)) /\ SameButWindows(d, e)
      /\ e.active = [d.active EXCEPT ![m] = w]
      /\ \A x \in Windows : e.winWs[x] \in {d.winWs[x], w}
  BY <1>1, OpenedFine
<1>3. ChangeWorkspace(d, m, w, FALSE) = e
  BY OpenedIs
<1> HIDE DEF e
<1>4. Live(e) = Live(d) /\ e.mons = d.mons /\ e.special = d.special /\ e.focus = d.focus
  BY <1>2 DEF Live, SameButWindows
<1>5. \A o \in On(d) : e.active[o] # None
  BY <1>1, <1>2, SoundFields, NamesApart, DeskFields
<1>6. \A o \in Outputs \ On(d) : e.active[o] = d.active[o]
  BY <1>1, <1>2, DeskFields
<1>7. Sound(e) /\ On(e) = On(d)
  BY <1>1, <1>2, <1>4, <1>5, <1>6, SoundStep
<1> QED
  BY <1>2, <1>3, <1>4, <1>7

(* dropping workspaces, *)
LEMMA SoundCollect ==
  ASSUME NEW d, Sound(d), NEW local
  PROVE  LET e == Collect(d, local) IN Sound(e) /\ On(e) = On(d)
<1> DEFINE e == Collect(d, local)
<1>1. d \in Desks /\ On(d) \in SUBSET Outputs /\ Fine(d, On(d))
  BY SoundFields
<1>2. e \in Desks /\ Fine(e, On(d)) /\ SameButLives(d, e)
  BY <1>1, CollectFine
<1> HIDE DEF e
<1>3. \A o \in On(d) : e.active[o] # None
  BY <1>2, SoundFields, NamesApart DEF SameButLives
<1>4. Sound(e) /\ On(e) = On(d)
  BY <1>1, <1>2, <1>3, SoundStep DEF SameButLives
<1> QED
  BY <1>4 DEF e

(* creating one, *)
LEMMA SoundCreate ==
  ASSUME setup \in Setups, NEW d, Sound(d), NEW m \in On(d), NEW w \in All, w \notin Live(d)
  PROVE  LET e == Create(d, w, m) IN
         /\ Sound(e) /\ On(e) = On(d) /\ w \in Live(e) /\ SameButLists(d, e)
         /\ Live(e) = Live(d) \cup {w} /\ d.persistent \subseteq e.persistent
<1> DEFINE e == Create(d, w, m)
<1>1. d \in Desks /\ On(d) \in SUBSET Outputs /\ Fine(d, On(d))
  BY SoundFields
<1>2. /\ e \in Desks /\ Fine(e, On(d)) /\ SameButLists(d, e)
      /\ Live(e) = Live(d) \cup {w}
      /\ e.persistent = d.persistent \cup ({w} \cap ToSet(setup.persistent))
  <2>1. ToSet(d.mons) \subseteq On(d)
    BY DEF On
  <2>2. LET t == Create(d, w, m) IN
         /\ t \in Desks /\ Fine(t, On(d)) /\ SameButLists(d, t)
         /\ Live(t) = Live(d) \cup {w}
         /\ t.home = [d.home EXCEPT ![w] = IF BoundMonitor(d, w) # None THEN BoundMonitor(d, w) ELSE m]
         /\ t.persistent = d.persistent \cup ({w} \cap ToSet(setup.persistent))
    <3> HIDE DEF e
    <3> QED
      BY <1>1, <2>1, CreateFine
  <2> QED
    BY <2>2
<1> HIDE DEF e
<1>3. \A o \in On(d) : e.active[o] # None
  BY <1>2, SoundFields, NamesApart DEF SameButLists
<1>4. Sound(e) /\ On(e) = On(d)
  BY <1>1, <1>2, <1>3, SoundStep DEF SameButLists
<1> QED
  BY <1>2, <1>4 DEF e

(* and moving one to a monitor on the list. *)
LEMMA SoundMove ==
  ASSUME IdsNeverRunOut, setup \in Setups,
         NEW d, Sound(d), NEW m \in On(d), NEW w \in Live(d), NEW local
  PROVE  LET e == MoveWorkspaceToMonitor(d, w, m, local) IN
         /\ Sound(e) /\ On(e) = On(d) /\ w \in Live(e) /\ e.home[w] = m
         /\ Live(d) \cap local \subseteq Live(e) /\ d.persistent \subseteq e.persistent
         /\ e.focus \in {d.focus, m}
<1> DEFINE e == MoveWorkspaceToMonitor(d, w, m, local)
<1>1. d \in Desks /\ On(d) \in SUBSET Outputs /\ Fine(d, On(d)) /\ m # None /\ m \in Outputs
  BY SoundFields
<1>2. Moved(d, e, w, m, On(d), local)
  BY <1>1, MoveFine DEF On
<1> HIDE DEF e
<1>3. /\ e \in Desks /\ Fine(e, On(d)) /\ e.mons = d.mons /\ w \in Live(e) /\ e.home[w] = m
      /\ Live(d) \cap local \subseteq Live(e) /\ d.persistent \subseteq e.persistent
      /\ e.focus \in {d.focus, m}
  BY <1>2 DEF Moved
<1>4. \A o \in On(d) : d.active[o] # None /\ e.active[o] # None
  <2> SUFFICES ASSUME NEW o \in On(d) PROVE d.active[o] # None /\ e.active[o] # None
    OBVIOUS
  <2>1. d.active[o] # None /\ o \in Outputs
    BY SoundFields, NamesApart
  <2> QED
    BY <2>1, <1>2 DEF Moved
<1>5. \A o \in Outputs \ On(d) : e.active[o] = d.active[o] /\ e.special[o] \in {d.special[o], None}
  <2> SUFFICES ASSUME NEW o \in Outputs \ On(d)
               PROVE  e.active[o] = d.active[o] /\ e.special[o] \in {d.special[o], None}
    OBVIOUS
  <2>1. o # m /\ d.active[o] = None
    BY DEF Sound
  <2> QED
    BY <2>1, <1>2 DEF Moved
<1>6. Sound(e) /\ On(e) = On(d)
  BY <1>1, <1>3, <1>4, <1>5, SoundStep
<1> QED
  BY <1>3, <1>6 DEF e

(* The two loops of swapActiveWorkspaces. *)
LEMMA SoundExchange ==
  ASSUME NEW d, Sound(d), NEW a \in On(d), NEW b \in On(d), a # b
  PROVE  LET e == Exchange(d, a, b, d.active[a], d.active[b]) IN Sound(e) /\ On(e) = On(d)
<1> DEFINE wa == d.active[a]
<1> DEFINE wb == d.active[b]
<1> DEFINE k == CarryWindows(d, wa, b, wb)
<1> DEFINE q == CarryWindows(k, wb, a, wa)
<1> DEFINE e == Exchange(d, a, b, wa, wb)
<1>0. /\ d \in Desks /\ On(d) \in SUBSET Outputs /\ Fine(d, On(d))
      /\ a \in Outputs /\ b \in Outputs /\ a # None /\ b # None
      /\ wa \in Regular /\ wb \in Regular /\ wa \in Live(d) /\ wb \in Live(d)
      /\ d.home[wa] = a /\ d.home[wb] = b
  BY SoundFields
<1>1. wa # wb /\ wa \in All /\ wb \in All /\ wa # None /\ wb # None /\ wa \notin Special /\ wb \notin Special
  BY <1>0, NamesApart
<1> HIDE DEF wa, wb
<1>2. /\ d.winWs \in [Windows -> All \cup {None}] /\ d.winMon \in [Windows -> Outputs \cup {None}]
      /\ d.home \in [All -> Outputs \cup {None}]
      /\ d.special \in [Outputs -> Special \cup {None}] /\ d.active \in [Outputs -> Regular \cup {None}]
      /\ d.pinned \subseteq Windows
  BY <1>0, DeskFields
<1>3. /\ k.mons = d.mons /\ k.seen = d.seen /\ k.pinned = d.pinned /\ k.persistent = d.persistent
      /\ k.ws = d.ws /\ k.last = d.last /\ k.special = d.special /\ k.active = d.active
      /\ k.focus = d.focus /\ k.visible = d.visible
      /\ k.home = [d.home EXCEPT ![wa] = b]
      /\ k.winWs = [x \in Windows |-> IF d.winWs[x] = wa /\ x \in d.pinned THEN wb ELSE d.winWs[x]]
      /\ k.winMon = [x \in Windows |-> IF d.winWs[x] = wa /\ x \notin d.pinned THEN b ELSE d.winMon[x]]
      /\ k \in Desks
  BY <1>0, <1>1, <1>2 DEF CarryWindows, Desks, MonitorOrNone
<1> HIDE DEF k
<1>4. /\ q.mons = k.mons /\ q.seen = k.seen /\ q.pinned = k.pinned /\ q.persistent = k.persistent
      /\ q.ws = k.ws /\ q.last = k.last /\ q.special = k.special /\ q.active = k.active
      /\ q.focus = k.focus /\ q.visible = k.visible
      /\ q.home = [k.home EXCEPT ![wb] = a]
      /\ q.winWs = [x \in Windows |-> IF k.winWs[x] = wb /\ x \in k.pinned THEN wa ELSE k.winWs[x]]
      /\ q.winMon = [x \in Windows |-> IF k.winWs[x] = wb /\ x \notin k.pinned THEN a ELSE k.winMon[x]]
      /\ q \in Desks
  <2>1. /\ k.winWs \in [Windows -> All \cup {None}] /\ k.winMon \in [Windows -> Outputs \cup {None}]
        /\ k.home \in [All -> Outputs \cup {None}]
    BY <1>3, DeskFields
  <2> QED
    BY <1>0, <1>1, <1>3, <2>1 DEF CarryWindows, Desks, MonitorOrNone
<1> HIDE DEF q
<1>5. e = [q EXCEPT !.active[a] = wb, !.active[b] = wa]
  BY DEF Exchange, q, k
<1>6. /\ e.mons = q.mons /\ e.seen = q.seen /\ e.pinned = q.pinned /\ e.persistent = q.persistent
      /\ e.ws = q.ws /\ e.last = q.last /\ e.special = q.special /\ e.home = q.home
      /\ e.focus = q.focus /\ e.visible = q.visible /\ e.winWs = q.winWs /\ e.winMon = q.winMon
      /\ e.active = [q.active EXCEPT ![a] = wb, ![b] = wa]
      /\ e \in Desks
  <2> DEFINE act == [q.active EXCEPT ![a] = wb, ![b] = wa]
  <2>1. e = [q EXCEPT !.active = act]
    BY <1>4, <1>5 DEF Desks
  <2>2. act \in [Outputs -> Regular \cup {None}]
    <3>1. q.active \in [Outputs -> Regular \cup {None}]
      BY <1>4, DeskFields
    <3> QED
      BY <3>1, <1>0
  <2> HIDE DEF act
  <2>3. /\ e.mons = q.mons /\ e.seen = q.seen /\ e.pinned = q.pinned /\ e.persistent = q.persistent
        /\ e.ws = q.ws /\ e.last = q.last /\ e.special = q.special /\ e.home = q.home
        /\ e.focus = q.focus /\ e.visible = q.visible /\ e.winWs = q.winWs /\ e.winMon = q.winMon
        /\ e.active = act /\ e \in Desks
    BY <1>4, <2>1, <2>2 DEF Desks
  <2> QED
    BY <2>3 DEF act
<1> HIDE DEF e
<1>7. /\ \A v \in All : e.home[v] = IF v = wa THEN b ELSE IF v = wb THEN a ELSE d.home[v]
      /\ \A o \in Outputs : e.active[o] = IF o = a THEN wb ELSE IF o = b THEN wa ELSE d.active[o]
      /\ \A x \in Windows : e.winWs[x] = IF x \in d.pinned /\ d.winWs[x] \in {wa, wb} THEN wa ELSE d.winWs[x]
      /\ \A x \in Windows \ d.pinned :
           e.winMon[x] = IF d.winWs[x] = wb THEN a ELSE IF d.winWs[x] = wa THEN b ELSE d.winMon[x]
      /\ e.special = d.special /\ e.visible = d.visible /\ e.pinned = d.pinned /\ e.mons = d.mons
      /\ e.persistent = d.persistent /\ e.focus = d.focus /\ Live(e) = Live(d)
  <2>1. \A v \in All : e.home[v] = IF v = wa THEN b ELSE IF v = wb THEN a ELSE d.home[v]
    BY <1>1, <1>2, <1>3, <1>4, <1>6
  <2>2. \A o \in Outputs : e.active[o] = IF o = a THEN wb ELSE IF o = b THEN wa ELSE d.active[o]
    BY <1>0, <1>1, <1>2, <1>3, <1>4, <1>6
  <2>3. \A x \in Windows : e.winWs[x] = IF x \in d.pinned /\ d.winWs[x] \in {wa, wb} THEN wa ELSE d.winWs[x]
    BY <1>1, <1>2, <1>3, <1>4, <1>6
  <2>4. \A x \in Windows \ d.pinned :
           e.winMon[x] = IF d.winWs[x] = wb THEN a ELSE IF d.winWs[x] = wa THEN b ELSE d.winMon[x]
    BY <1>1, <1>2, <1>3, <1>4, <1>6
  <2> QED
    BY <2>1, <2>2, <2>3, <2>4, <1>3, <1>4, <1>6 DEF Live
<1>8. ShowsItsOwn(e)
  <2> SUFFICES ASSUME NEW o \in Outputs
               PROVE  /\ e.active[o] # None => e.active[o] \in Live(e) /\ e.home[e.active[o]] = o
                      /\ e.special[o] # None => e.special[o] \in Live(e) /\ e.home[e.special[o]] = o
    BY DEF ShowsItsOwn
  <2>1. /\ d.active[o] # None => d.active[o] \in Live(d) /\ d.home[d.active[o]] = o
        /\ d.special[o] # None => d.special[o] \in Live(d) /\ d.home[d.special[o]] = o
    BY <1>0 DEF Fine, ShowsItsOwn
  <2>2. d.special[o] \in Special \cup {None} /\ d.active[o] \in Regular \cup {None}
    BY <1>2
  <2>3. e.special[o] # None => e.special[o] \in Live(e) /\ e.home[e.special[o]] = o
    BY <2>1, <2>2, <1>1, <1>7, NamesApart
  <2>4. e.active[o] # None => e.active[o] \in Live(e) /\ e.home[e.active[o]] = o
    BY <2>1, <2>2, <1>0, <1>1, <1>7, NamesApart
  <2> QED
    BY <2>3, <2>4
<1>9. FlagAgrees(e)
  <2> SUFFICES ASSUME NEW v \in All PROVE v \in e.visible <=> OnShow(e, v)
    BY DEF FlagAgrees
  <2>1. v \in d.visible <=> OnShow(d, v)
    BY <1>0 DEF Fine, FlagAgrees
  <2>2. CASE v \in {wa, wb}
    BY <2>1, <2>2, <1>0, <1>1, <1>7 DEF OnShow, wa, wb
  <2>3. CASE v \notin {wa, wb}
    <3>1. e.home[v] = d.home[v]
      BY <2>3, <1>7
    <3>2. d.home[v] # None => d.home[v] \in Outputs
      BY <1>2
    <3>3. d.active[a] = wa /\ d.active[b] = wb
      BY DEF wa, wb
    <3>4. d.home[v] # None => (v = e.active[d.home[v]] <=> v = d.active[d.home[v]])
      BY <2>3, <3>2, <3>3, <1>7
    <3> QED
      BY <3>1, <3>4, <2>1, <1>7 DEF OnShow
  <2> QED
    BY <2>2, <2>3
<1>10. Housed(e, On(d)) /\ Peopled(e) /\ PinsMapped(e) /\ e.persistent \subseteq Live(e)
       /\ e.focus \in On(d) \cup {None}
  <2>1. Housed(e, On(d))
    BY <1>0, <1>7 DEF Fine, Housed
  <2>2. Peopled(e) /\ PinsMapped(e)
    BY <1>0, <1>1, <1>2, <1>7 DEF Fine, Peopled, PinsMapped
  <2> QED
    BY <2>1, <2>2, <1>0, <1>7 DEF Fine
<1>11. Beside(e)
  <2> SUFFICES ASSUME NEW x \in Windows \ d.pinned, e.winWs[x] # None
               PROVE  e.winMon[x] = e.home[e.winWs[x]]
    BY <1>7 DEF Beside
  <2>1. e.winWs[x] = d.winWs[x] /\ d.winWs[x] \in All
    BY <1>2, <1>7
  <2>2. d.winMon[x] = d.home[d.winWs[x]]
    BY <2>1, <1>0 DEF Fine, Beside
  <2> QED
    BY <2>1, <2>2, <1>0, <1>1, <1>7
<1>12. Fine(e, On(d))
  BY <1>8, <1>9, <1>10, <1>11 DEF Fine
<1>13. \A o \in On(d) : e.active[o] # None
  BY <1>0, <1>1, <1>7, SoundFields, NamesApart
<1>14. \A o \in Outputs \ On(d) : e.active[o] = d.active[o] /\ e.special[o] \in {d.special[o], None}
  BY <1>7
<1>15. Sound(e) /\ On(e) = On(d)
  <2>1. e \in Desks /\ e.mons = d.mons /\ (d.focus # None => e.focus # None)
    BY <1>6, <1>7
  <2> QED
    BY <2>1, <1>12, <1>13, <1>14, SoundStep
<1> QED
  BY <1>15 DEF e, wa, wb

(* Focusing a window that is visible, and closing what is above it. *)
LEMMA SoundFocusVisible ==
  ASSUME NEW d, Sound(d), NEW w, NEW m \in On(d)
  PROVE  Sound(FocusVisible(d, w, m)) /\ On(FocusVisible(d, w, m)) = On(d)
<1> DEFINE f == [d EXCEPT !.focus = m]
<1>1. Sound(f) /\ On(f) = On(d)
  BY SoundFocus
<1>2. FocusVisible(d, w, m) = f \/ FocusVisible(d, w, m) = SetSpecialWorkspace(f, m, None)
  BY DEF FocusVisible
<1> HIDE DEF f
<1>3. LET e == SetSpecialWorkspace(f, m, None) IN
         /\ Sound(e) /\ On(e) = On(f) /\ Live(e) = Live(f)
         /\ SameLists(f, e) /\ e.active = f.active
         /\ e.home = [v \in All |-> IF v = None THEN m ELSE f.home[v]]
         /\ e.focus \in {f.focus, m}
  BY <1>1, SoundSpecial
<1> QED
  BY <1>1, <1>2, <1>3

(* CFocusState::rawWindowFocus, on a window that is mapped *)
LEMMA SoundRaw ==
  ASSUME NEW d, Sound(d), d.focus # None,
         NEW x \in Windows, d.winWs[x] # None, x \notin d.pinned \/ d.winWs[x] \in d.visible
  PROVE  Sound(RawWindowFocus(d, x)) /\ On(RawWindowFocus(d, x)) = On(d)
<1> DEFINE w == d.winWs[x]
<1> DEFINE m == d.winMon[x]
<1> DEFINE e == RawWindowFocus(d, x)
<1>0. /\ d \in Desks /\ d.focus \in On(d) /\ w \in Live(d) /\ w \in All
      /\ (x \notin d.pinned => m = d.home[w] /\ m \in On(d) /\ m # None)
  <2>1. d \in Desks /\ Fine(d, On(d)) /\ d.focus \in On(d)
    BY SoundFields
  <2>2. w \in Live(d)
    BY <2>1 DEF Fine, Peopled
  <2>3. x \notin d.pinned => m = d.home[w]
    BY <2>1 DEF Fine, Beside
  <2> QED
    BY <2>1, <2>2, <2>3, SoundFields
<1> HIDE DEF w, m
<1>1. CASE w \in d.visible
  <2>1. e = d \/ (x \notin d.pinned /\ e = FocusVisible(d, w, m))
    BY <1>1 DEF RawWindowFocus, w, m
  <2> HIDE DEF e
  <2>2. e = d \/ (m \in On(d) /\ e = FocusVisible(d, w, m))
    BY <2>1, <1>0
  <2>3. Sound(e) /\ On(e) = On(d)
    BY <2>2, SoundFocusVisible
  <2> QED
    BY <2>3 DEF e
<1>2. CASE w \notin d.visible
  <2>0. m = d.home[w] /\ m \in On(d) /\ m # None
    BY <1>0, <1>2 DEF w
  <2>1. e = ShowHidden(d, w, m)
    BY <1>2 DEF RawWindowFocus, w, m
  <2>2. CASE w \in Special
    <3>1. e = SetSpecialWorkspace(d, d.focus, w)
      BY <2>1, <2>2 DEF ShowHidden, ChangeWorkspace
    <3> HIDE DEF e
    <3>2. LET t == SetSpecialWorkspace(d, d.focus, w) IN
         /\ Sound(t) /\ On(t) = On(d) /\ Live(t) = Live(d)
         /\ SameLists(d, t) /\ t.active = d.active
         /\ t.home = [v \in All |-> IF v = w THEN d.focus ELSE d.home[v]]
         /\ t.focus \in {d.focus, d.focus}
      BY <2>2, <1>0, SoundSpecial
    <3> QED
      BY <3>1, <3>2 DEF e
  <2>3. CASE w \notin Special
    <3> DEFINE c == ChangeWorkspace(d, m, w, FALSE)
    <3>1. e = c \/ e = FocusVisible(c, w, m)
      BY <2>0, <2>1, <2>3 DEF ShowHidden, FocusShown
    <3>2. w \in Regular
      BY <2>3, <1>0, NamesApart
    <3>3. Sound(c) /\ On(c) = On(d)
      <4>1. LET t == ChangeWorkspace(d, m, w, FALSE) IN
         /\ Sound(t) /\ On(t) = On(d) /\ Live(t) = Live(d)
         /\ SameButWindows(d, t)
         /\ \A y \in Windows : t.winWs[y] \in {d.winWs[y], w}
        BY <3>2, <2>0, <1>0, SoundOpened
      <4> QED
        BY <4>1
    <3> HIDE DEF c, e
    <3>4. Sound(FocusVisible(c, w, m)) /\ On(FocusVisible(c, w, m)) = On(c)
      BY <3>3, <2>0, SoundFocusVisible
    <3> QED
      BY <3>1, <3>3, <3>4 DEF e
  <2> QED
    BY <2>2, <2>3
<1> QED
  BY <1>1, <1>2

(* A pinned window is taken to the workspace in view. *)
LEMMA SoundFocusWindow ==
  ASSUME NEW d, Sound(d), d.focus # None, NEW x \in Windows
  PROVE  Sound(FocusWindow(d, x)) /\ On(FocusWindow(d, x)) = On(d)
<1>0. d \in Desks /\ Fine(d, On(d)) /\ On(d) \in SUBSET Outputs /\ d.focus \in On(d)
  BY SoundFields
<1>3. CASE d.winWs[x] = None
  BY <1>3 DEF FocusWindow
<1>1. CASE x \notin d.pinned /\ d.winWs[x] # None
  <2>1. FocusWindow(d, x) = RawWindowFocus(d, x)
    BY <1>1 DEF FocusWindow
  <2> QED
    BY <2>1, <1>1, SoundRaw
<1>2. CASE x \in d.pinned /\ d.winWs[x] # None
  <2> DEFINE w == d.active[d.focus]
  <2> DEFINE e == [d EXCEPT !.winWs[x] = w]
  <2>1. w \in Regular /\ w \in Live(d) /\ d.home[w] = d.focus /\ w # None /\ w \in All
    BY <1>0, SoundFields, NamesApart
  <2>2. OnShow(d, w)
    BY <2>1 DEF OnShow
  <2>3. w \in d.visible
    BY <2>1, <2>2, <1>0 DEF Fine, FlagAgrees
  <2>4. FocusWindow(d, x) = RawWindowFocus(e, x)
    BY <1>2 DEF FocusWindow
  <2> HIDE DEF w
  <2>5. /\ e \in Desks /\ e.mons = d.mons /\ e.ws = d.ws /\ e.active = d.active /\ e.special = d.special
        /\ e.home = d.home /\ e.visible = d.visible /\ e.persistent = d.persistent
        /\ e.focus = d.focus /\ e.winMon = d.winMon /\ e.pinned = d.pinned
        /\ e.winWs = [d.winWs EXCEPT ![x] = w]
    BY <1>0, <2>1 DEF Desks
  <2> HIDE DEF e
  <2>6. e.winWs[x] = w /\ \A y \in Windows : e.winWs[y] = IF y = x THEN w ELSE d.winWs[y]
    BY <2>5, <1>0, DeskFields
  <2>7. Fine(e, On(d))
    BY <1>0, <1>2, <2>1, <2>5, <2>6
       DEF Fine, ShowsItsOwn, FlagAgrees, OnShow, Housed, Peopled, Beside, PinsMapped, Live
  <2>8. Sound(e) /\ On(e) = On(d)
    <3>1. \A o \in On(d) : e.active[o] # None
      BY <2>5, SoundFields, NamesApart
    <3> QED
      BY <3>1, <2>5, <2>7, SoundStep
  <2>9. RawWindowFocus(e, x) = e
    BY <1>2, <2>3, <2>5, <2>6 DEF RawWindowFocus
  <2> QED
    BY <2>4, <2>8, <2>9
<1> QED
  BY <1>1, <1>2, <1>3

(* Focusing a window of a workspace, if there is one. *)
LEMMA SoundCandidate ==
  ASSUME NEW d, Sound(d), d.focus # None, NEW w, w # None
  PROVE  Sound(FocusCandidate(d, w)) /\ On(FocusCandidate(d, w)) = On(d)
<1>1. CASE WindowsOn(d, w) = {}
  BY <1>1 DEF FocusCandidate
<1>2. CASE WindowsOn(d, w) # {}
  <2> DEFINE x == CHOOSE y \in WindowsOn(d, w) : TRUE
  <2>1. x \in WindowsOn(d, w)
    BY <1>2
  <2>2. FocusCandidate(d, w) = FocusWindow(d, x)
    BY <1>2 DEF FocusCandidate
  <2> HIDE DEF x
  <2>3. x \in Windows
    BY <2>1 DEF WindowsOn
  <2> QED
    BY <2>2, <2>3, SoundFocusWindow
<1> QED
  BY <1>1, <1>2

(* swapActiveWorkspaces *)
LEMMA SoundSwap ==
  ASSUME NEW d, Sound(d), NEW a \in On(d), NEW b \in On(d), a # b
  PROVE  Sound(SwapActiveWorkspaces(d, a, b)) /\ On(SwapActiveWorkspaces(d, a, b)) = On(d)
<1> DEFINE e == Exchange(d, a, b, d.active[a], d.active[b])
<1> DEFINE r == SwapActiveWorkspaces(d, a, b)
<1>1. Sound(e) /\ On(e) = On(d)
  BY SoundExchange
<1>2. r = e \/ (e.focus \in {a, b} /\ r = FocusCandidate(e, e.active[e.focus]))
  BY DEF SwapActiveWorkspaces
<1> HIDE DEF e, r
<1>3. e.focus \in {a, b} => e.focus # None /\ e.active[e.focus] # None
  BY <1>1, SoundFields, NamesApart
<1>4. Sound(r) /\ On(r) = On(d)
  BY <1>1, <1>2, <1>3, SoundCandidate
<1> QED
  BY <1>4 DEF r

(* Actions::changeWorkspace *)
LEMMA SoundShow ==
  ASSUME setup \in Setups, NEW d, Sound(d), d.focus # None, NEW w \in Live(d)
  PROVE  Sound(ShowWorkspace(d, w)) /\ On(ShowWorkspace(d, w)) = On(d)
<1>0. d \in Desks /\ d.focus \in On(d) /\ w \in All /\ w # None /\ d.home[w] \in On(d) /\ d.home[w] # None
  BY SoundFields
<1>1. CASE w \in Special
  <2>1. ShowWorkspace(d, w) = SetSpecialWorkspace(d, d.focus, w)
    BY <1>1 DEF ShowWorkspace
  <2>2. LET t == SetSpecialWorkspace(d, d.focus, w) IN
         /\ Sound(t) /\ On(t) = On(d) /\ Live(t) = Live(d)
         /\ SameLists(d, t) /\ t.active = d.active
         /\ t.home = [v \in All |-> IF v = w THEN d.focus ELSE d.home[v]]
         /\ t.focus \in {d.focus, d.focus}
    BY <1>0, <1>1, SoundSpecial
  <2> QED
    BY <2>1, <2>2
<1>2. CASE w \notin Special
  <2> DEFINE m == d.home[w]
  <2> DEFINE f == [d EXCEPT !.focus = m]
  <2> DEFINE r == Replaced(f, m)
  <2> DEFINE s == ShowOn(d, w, m)
  <2>1. ShowWorkspace(d, w) = s \/ ShowWorkspace(d, w) = FocusCandidate(s, w)
    BY <1>0, <1>2 DEF ShowWorkspace
  <2>2. Sound(f) /\ On(f) = On(d) /\ Live(f) = Live(d)
    <3> HIDE DEF m
    <3>1. m \in On(d)
      BY <1>0 DEF m
    <3> QED
      BY <3>1, SoundFocus
  <2>3. f.home = d.home /\ f.focus = m
    BY <1>0 DEF Desks
  <2>4. Sound(r) /\ On(r) = On(d) /\ Live(r) = Live(d) /\ r.focus = m
        /\ r.home[w] = m
    <3> HIDE DEF f, m
    <3>0. m \in On(d) /\ d.home[w] = m
      BY <1>0 DEF m
    <3>1. CASE setup.hide
      <4>1. LET t == SetSpecialWorkspace(f, m, None) IN
         /\ Sound(t) /\ On(t) = On(f) /\ Live(t) = Live(f)
         /\ SameLists(f, t) /\ t.active = f.active
         /\ t.home = [v \in All |-> IF v = None THEN m ELSE f.home[v]]
         /\ t.focus \in {f.focus, m}
        BY <3>0, <2>2, SoundSpecial
      <4>2. r = SetSpecialWorkspace(f, m, None)
        BY <3>1 DEF Replaced
      <4> QED
        BY <4>1, <4>2, <3>0, <2>2, <2>3, <1>0
    <3>2. CASE ~setup.hide
      BY <3>0, <3>2, <2>2, <2>3 DEF Replaced
    <3> QED
      BY <3>1, <3>2
  <2>5. s = ChangeWorkspace(r, m, w, FALSE)
    BY DEF ShowOn
  <2>6. Sound(s) /\ On(s) = On(d) /\ s.focus = m
    <3> HIDE DEF r, s
    <3>0. m \in On(r) /\ w \in Live(r) /\ w \in Regular
      BY <2>4, <1>0, <1>2, NamesApart
    <3> HIDE DEF m
    <3>1. LET t == ChangeWorkspace(r, m, w, FALSE) IN
         /\ Sound(t) /\ On(t) = On(r) /\ Live(t) = Live(r)
         /\ SameButWindows(r, t)
         /\ \A y \in Windows : t.winWs[y] \in {r.winWs[y], w}
      BY <3>0, <2>4, SoundOpened
    <3> QED
      BY <3>1, <2>4, <2>5 DEF SameButWindows
  <2>7. Sound(FocusCandidate(s, w)) /\ On(FocusCandidate(s, w)) = On(s)
    <3> HIDE DEF s
    <3> QED
      BY <2>6, <1>0, SoundCandidate
  <2> HIDE DEF s
  <2> QED
    BY <2>1, <2>6, <2>7
<1> QED
  BY <1>1, <1>2

(* A window that is mapped, unmapped, moved or pinned. *)
LEMMA SoundWindow ==
  ASSUME NEW d, Sound(d), NEW x \in Windows, NEW w \in Live(d) \cup {None}, NEW m \in MonitorOrNone,
         NEW pins \in SUBSET Windows, pins \ {x} = d.pinned \ {x},
         w = None => x \notin pins, w # None /\ x \notin pins => m = d.home[w]
  PROVE  LET e == [d EXCEPT !.winWs[x] = w, !.winMon[x] = m, !.pinned = pins] IN
         /\ Sound(e) /\ On(e) = On(d) /\ Live(e) = Live(d)
         /\ e.home = d.home /\ e.focus = d.focus /\ e.active = d.active /\ e.special = d.special
         /\ e.winWs[x] = w
<1> DEFINE e == [d EXCEPT !.winWs[x] = w, !.winMon[x] = m, !.pinned = pins]
<1>0. d \in Desks /\ Fine(d, On(d)) /\ On(d) \in SUBSET Outputs /\ w \in All \cup {None}
  BY SoundFields
<1>1. /\ e \in Desks /\ e.mons = d.mons /\ e.ws = d.ws /\ e.active = d.active /\ e.special = d.special
      /\ e.home = d.home /\ e.visible = d.visible /\ e.persistent = d.persistent
      /\ e.focus = d.focus /\ e.winMon = [d.winMon EXCEPT ![x] = m] /\ e.pinned = pins
      /\ e.winWs = [d.winWs EXCEPT ![x] = w]
  BY <1>0 DEF Desks
<1> HIDE DEF e
<1>2. /\ \A y \in Windows : e.winWs[y] = IF y = x THEN w ELSE d.winWs[y]
      /\ \A y \in Windows : e.winMon[y] = IF y = x THEN m ELSE d.winMon[y]
  BY <1>0, <1>1, DeskFields
<1>3. Fine(e, On(d))
  <2>1. ShowsItsOwn(e) /\ FlagAgrees(e) /\ Housed(e, On(d)) /\ e.persistent \subseteq Live(e)
        /\ e.focus \in On(d) \cup {None}
    BY <1>0, <1>1 DEF Fine, ShowsItsOwn, FlagAgrees, OnShow, Housed, Live
  <2>2. Peopled(e) /\ PinsMapped(e)
    BY <1>0, <1>1, <1>2 DEF Fine, Peopled, PinsMapped, Live
  <2>3. Beside(e)
    BY <1>0, <1>1, <1>2 DEF Fine, Beside
  <2> QED
    BY <2>1, <2>2, <2>3 DEF Fine
<1>4. Sound(e) /\ On(e) = On(d)
  <2>1. \A o \in On(d) : e.active[o] # None
    BY <1>1, SoundFields, NamesApart
  <2> QED
    BY <2>1, <1>1, <1>3, SoundStep
<1> QED
  BY <1>1, <1>2, <1>4 DEF e, Live

IInv == setup \in Setups /\ ensure \in 0..Jobs /\ Sound(desk)

(* A handler that leaves a sound desk ends with one. *)
LEMMA DoneSound ==
  ASSUME NEW d, Sound(d), Done(d), setup \in Setups
  PROVE  Sound(desk') /\ setup' \in Setups
<1>1. LET e == Collect(d, {}) IN Sound(e) /\ On(e) = On(d)
  BY SoundCollect
<1> QED
  BY <1>1 DEF Done

(* The same for what leaves the functions left to doLater alone. *)
LEMMA ServedSound ==
  ASSUME IInv, NEW d, Sound(d), Served(d)
  PROVE  IInv'
<1>1. Sound(desk') /\ setup' \in Setups
  BY DoneSound DEF IInv, Served
<1>2. ensure' = ensure
  BY DEF Served
<1> QED
  BY <1>1, <1>2 DEF IInv

(* A workspace looked up by its id is there. *)
LEMMA ResolvedSound ==
  ASSUME IInv, desk.focus # None, NEW w \in All
  PROVE  LET d == Resolved(w) IN
         /\ Sound(d) /\ On(d) = On(desk) /\ w \in Live(d) /\ Live(desk) \subseteq Live(d)
         /\ d.focus = desk.focus /\ d.winWs = desk.winWs /\ d.pinned = desk.pinned
         /\ d.special = desk.special
<1> DEFINE d == Resolved(w)
<1>0. Sound(desk) /\ setup \in Setups /\ desk.focus \in On(desk)
  BY SoundFields DEF IInv
<1>1. CASE w \in Live(desk)
  BY <1>0, <1>1 DEF Resolved, IsLive, Live
<1>2. CASE w \notin Live(desk)
  <2>1. d = Create(desk, w, desk.focus)
    BY <1>2 DEF Resolved, IsLive, Live
  <2>2. LET e == Create(desk, w, desk.focus) IN
         /\ Sound(e) /\ On(e) = On(desk) /\ w \in Live(e) /\ SameButLists(desk, e)
         /\ Live(e) = Live(desk) \cup {w} /\ desk.persistent \subseteq e.persistent
    BY <1>0, <1>2, SoundCreate
  <2> HIDE DEF d
  <2>3. /\ Sound(d) /\ On(d) = On(desk) /\ w \in Live(d) /\ Live(desk) \subseteq Live(d)
        /\ d.focus = desk.focus /\ d.winWs = desk.winWs /\ d.pinned = desk.pinned
        /\ d.special = desk.special
    BY <2>1, <2>2 DEF SameButLists
  <2> QED
    BY <2>3 DEF d
<1> QED
  BY <1>1, <1>2

(* What the user asks for are workspaces and windows. *)
LEMMA AskedIn ==
  ASSUME IInv
  PROVE  setup.asked \subseteq All /\ setup.windows \subseteq Windows
  BY SetupAssumption DEF IInv

(* Each event keeps the invariant: the dispatcher changeWorkspace, *)
LEMMA ChangeToKeeps ==
  ASSUME IInv, NEW w \in All, ChangeTo(w)
  PROVE  IInv'
<1> DEFINE d == Resolved(w)
<1>1. desk.focus # None /\ Served(ShowWorkspace(d, w))
  BY DEF ChangeTo
<1>2. Sound(d) /\ w \in Live(d) /\ d.focus = desk.focus
  BY <1>1, ResolvedSound
<1> HIDE DEF d
<1>3. Sound(ShowWorkspace(d, w))
  BY <1>1, <1>2, SoundShow DEF IInv
<1> QED
  BY <1>1, <1>3, ServedSound

(* changeWorkspaceOnCurrentMonitor, *)
LEMMA BringHereKeeps ==
  ASSUME IInv, IdsNeverRunOut, NEW w \in All, BringHere(w)
  PROVE  IInv'
<1> DEFINE d == Resolved(w)
<1> DEFINE s == SwapActiveWorkspaces(d, d.home[w], d.focus)
<1> DEFINE v == MoveWorkspaceToMonitor(d, w, d.focus, {})
<1>1. desk.focus # None /\ d.home[w] # None
      /\ \/ d.home[w] # d.focus /\ Served(s)
         \/ Served(ShowWorkspace(v, w))
  BY DEF BringHere
<1>2. Sound(d) /\ w \in Live(d) /\ d.focus = desk.focus
  BY <1>1, ResolvedSound
<1> HIDE DEF d
<1>3. d.focus \in On(d) /\ d.home[w] \in On(d) /\ d.focus # None
  BY <1>1, <1>2, SoundFields
<1>4. CASE d.home[w] # d.focus /\ Served(s)
  <2>1. Sound(s)
    BY <1>2, <1>3, <1>4, SoundSwap
  <2> HIDE DEF s
  <2> QED
    BY <2>1, <1>4, ServedSound
<1>5. CASE Served(ShowWorkspace(v, w))
  <2>1. LET e == MoveWorkspaceToMonitor(d, w, d.focus, {}) IN
         /\ Sound(e) /\ On(e) = On(d) /\ w \in Live(e) /\ e.home[w] = d.focus
         /\ Live(d) \cap {} \subseteq Live(e) /\ d.persistent \subseteq e.persistent
         /\ e.focus \in {d.focus, d.focus}
    BY <1>2, <1>3, SoundMove DEF IInv
  <2>2. Sound(v) /\ w \in Live(v) /\ v.focus # None
    BY <2>1, <1>3
  <2> HIDE DEF v
  <2>3. Sound(ShowWorkspace(v, w))
    BY <2>2, SoundShow DEF IInv
  <2> QED
    BY <2>3, <1>5, ServedSound
<1> QED
  BY <1>1, <1>4, <1>5

(* moveWorkspaceToMonitor, *)
LEMMA MoveToMonitorKeeps ==
  ASSUME IInv, IdsNeverRunOut, NEW w \in All, NEW m, MoveToMonitor(w, m)
  PROVE  IInv'
<1> DEFINE v == MoveWorkspaceToMonitor(desk, w, m, {})
<1>1. w \in Live(desk) /\ m \in On(desk) /\ Served(v)
  BY DEF MoveToMonitor, IsLive, Live, Monitors, On
<1>2. LET e == MoveWorkspaceToMonitor(desk, w, m, {}) IN
         /\ Sound(e) /\ On(e) = On(desk) /\ w \in Live(e) /\ e.home[w] = m
         /\ Live(desk) \cap {} \subseteq Live(e) /\ desk.persistent \subseteq e.persistent
         /\ e.focus \in {desk.focus, m}
  BY <1>1, SoundMove DEF IInv
<1> QED
  BY <1>1, <1>2, ServedSound

(* toggleSpecial, *)
LEMMA ToggleSpecialKeeps ==
  ASSUME IInv, NEW w \in All, ToggleSpecial(w)
  PROVE  IInv'
<1> DEFINE d == Resolved(w)
<1> DEFINE v == IF desk.special[desk.focus] = w THEN None ELSE w
<1>1. w \in Special /\ desk.focus # None /\ Served(SetSpecialWorkspace(d, desk.focus, v))
  BY DEF ToggleSpecial
<1>2. Sound(d) /\ w \in Live(d) /\ d.focus = desk.focus
  BY <1>1, ResolvedSound
<1> HIDE DEF d
<1>3. d.focus \in On(d)
  BY <1>1, <1>2, SoundFields
<1>4. v = None \/ (v \in Special /\ v \in Live(d))
  BY <1>1, <1>2
<1> HIDE DEF v
<1>5. LET e == SetSpecialWorkspace(d, d.focus, v) IN
         /\ Sound(e) /\ On(e) = On(d) /\ Live(e) = Live(d)
         /\ SameLists(d, e) /\ e.active = d.active
         /\ e.home = [u \in All |-> IF u = v THEN d.focus ELSE d.home[u]]
         /\ e.focus \in {d.focus, d.focus}
  BY <1>2, <1>3, <1>4, SoundSpecial
<1> QED
  BY <1>1, <1>2, <1>5, ServedSound

(* swapActiveWorkspaces, *)
LEMMA SwapKeeps ==
  ASSUME IInv, NEW a, NEW b, Swap(a, b)
  PROVE  IInv'
<1>1. a \in On(desk) /\ b \in On(desk) /\ a # b /\ Served(SwapActiveWorkspaces(desk, a, b))
  BY DEF Swap, Monitors, On
<1>2. Sound(SwapActiveWorkspaces(desk, a, b))
  BY <1>1, SoundSwap DEF IInv
<1> QED
  BY <1>1, <1>2, ServedSound

(* tryMoveFocusToMonitor, *)
LEMMA FocusMonitorKeeps ==
  ASSUME IInv, NEW m, FocusMonitor(m)
  PROVE  IInv'
<1> DEFINE w == IF desk.special[m] # None THEN desk.special[m] ELSE desk.active[m]
<1> DEFINE c == FocusCandidate(desk, w)
<1>1. m \in On(desk) /\ desk.focus # None /\ Served([c EXCEPT !.focus = m])
  BY DEF FocusMonitor, Monitors, On
<1>2. w # None
  BY <1>1, SoundFields, NamesApart DEF IInv
<1> HIDE DEF w
<1>3. Sound(c) /\ On(c) = On(desk)
  BY <1>1, <1>2, SoundCandidate DEF IInv
<1> HIDE DEF c
<1>4. Sound([c EXCEPT !.focus = m])
  BY <1>1, <1>3, SoundFocus
<1> QED
  BY <1>1, <1>4, ServedSound

(* a window that is mapped, *)
LEMMA MapWindowKeeps ==
  ASSUME IInv, NEW x \in Windows, MapWindow(x)
  PROVE  IInv'
<1> DEFINE m == desk.focus
<1> DEFINE w == IF desk.special[m] # None THEN desk.special[m] ELSE desk.active[m]
<1> DEFINE e == [desk EXCEPT !.winWs[x] = w, !.winMon[x] = m]
<1>1. desk.winWs[x] = None /\ m # None /\ w # None /\ Served(e)
  BY DEF MapWindow
<1>2. Sound(desk) /\ desk \in Desks /\ Fine(desk, On(desk)) /\ m \in On(desk)
  BY <1>1, SoundFields DEF IInv
<1>3. m \in Outputs /\ w \in Live(desk) /\ desk.home[w] = m
  BY <1>2, SoundFields
<1>4. x \notin desk.pinned /\ desk.pinned \subseteq Windows
  BY <1>1, <1>2, DeskFields DEF Fine, PinsMapped
<1> HIDE DEF w, m
<1>5. e = [desk EXCEPT !.winWs[x] = w, !.winMon[x] = m, !.pinned = desk.pinned]
  BY <1>2 DEF Desks
<1> DEFINE f == [desk EXCEPT !.winWs[x] = w, !.winMon[x] = m, !.pinned = desk.pinned]
<1>6. Sound(f)
  <2>1. m \in MonitorOrNone /\ w \in Live(desk) \cup {None} /\ desk.pinned \in SUBSET Windows
    BY <1>3, <1>4 DEF MonitorOrNone
  <2> QED
    BY <1>1, <1>2, <1>3, <1>4, <2>1, SoundWindow
<1> QED
  BY <1>1, <1>5, <1>6, ServedSound

(* unmapped, *)
LEMMA UnmapWindowKeeps ==
  ASSUME IInv, NEW x \in Windows, UnmapWindow(x)
  PROVE  IInv'
<1> DEFINE w == desk.winWs[x]
<1> DEFINE m == desk.winMon[x]
<1> DEFINE g == [desk EXCEPT !.winWs[x] = None, !.winMon[x] = None, !.pinned = @ \ {x}]
<1> DEFINE pins == desk.pinned \ {x}
<1> DEFINE g1 == [desk EXCEPT !.winWs[x] = None, !.winMon[x] = None, !.pinned = pins]
<1>0. Sound(desk) /\ desk \in Desks
  BY SoundFields DEF IInv
<1>1. \/ Served(g)
      \/ m # None /\ desk.special[m] = w /\ w # None /\ Served(SetSpecialWorkspace(g, m, None))
  BY DEF UnmapWindow
<1>2. g = g1
  OBVIOUS
<1>3. Sound(g1) /\ On(g1) = On(desk)
  <2> DEFINE no == None
  <2>1. /\ no \in Live(desk) \cup {None} /\ no \in MonitorOrNone /\ no = None
        /\ pins \in SUBSET Windows
        /\ pins \ {x} = desk.pinned \ {x} /\ x \notin pins
    BY <1>0, DeskFields DEF MonitorOrNone
  <2>2. g1 = [desk EXCEPT !.winWs[x] = no, !.winMon[x] = no, !.pinned = pins]
    OBVIOUS
  <2> HIDE DEF pins, no, g, g1
  <2>3. Sound([desk EXCEPT !.winWs[x] = no, !.winMon[x] = no, !.pinned = pins])
    BY <1>0, <2>1, SoundWindow
  <2>4. On([desk EXCEPT !.winWs[x] = no, !.winMon[x] = no, !.pinned = pins]) = On(desk)
    BY <1>0 DEF Desks, On
  <2> QED
    BY <2>2, <2>3, <2>4
<1>4. Sound(g) /\ On(g) = On(desk)
  BY <1>2, <1>3
<1>5. m # None /\ desk.special[m] = w /\ w # None => m \in On(desk)
  BY <1>0, SoundFields, DeskFields
<1> HIDE DEF g, g1, m, w, pins
<1>6. CASE Served(g)
  BY <1>4, <1>6, ServedSound
<1>7. CASE m # None /\ desk.special[m] = w /\ w # None /\ Served(SetSpecialWorkspace(g, m, None))
  <2>1. LET e == SetSpecialWorkspace(g, m, None) IN
         /\ Sound(e) /\ On(e) = On(g) /\ Live(e) = Live(g)
         /\ SameLists(g, e) /\ e.active = g.active
         /\ e.home = [v \in All |-> IF v = None THEN m ELSE g.home[v]]
         /\ e.focus \in {g.focus, m}
    BY <1>4, <1>5, <1>7, SoundSpecial
  <2> QED
    BY <2>1, <1>7, ServedSound
<1> QED
  BY <1>1, <1>6, <1>7

(* pinned or let go, *)
LEMMA PinWindowKeeps ==
  ASSUME IInv, NEW x \in Windows, PinWindow(x)
  PROVE  IInv'
<1> DEFINE m == desk.winMon[x]
<1> DEFINE w == desk.active[m]
<1> DEFINE pins == IF x \in desk.pinned THEN desk.pinned \ {x} ELSE desk.pinned \cup {x}
<1> DEFINE e == [desk EXCEPT !.pinned = IF x \in @ THEN @ \ {x} ELSE @ \cup {x},
                       !.winWs[x] = w, !.winMon[x] = desk.home[w]]
<1> DEFINE f == [desk EXCEPT !.winWs[x] = w, !.winMon[x] = desk.home[w], !.pinned = pins]
<1>1. m # None /\ w # None /\ Served(e)
  BY DEF PinWindow
<1>2. Sound(desk) /\ desk \in Desks /\ Fine(desk, On(desk))
  BY SoundFields DEF IInv
<1>3. m \in Outputs /\ w \in Live(desk)
  BY <1>1, <1>2, DeskFields DEF Fine, ShowsItsOwn
<1>4. desk.home[w] \in MonitorOrNone
  BY <1>2, <1>3, DeskFields DEF MonitorOrNone
<1>5. pins \in SUBSET Windows /\ pins \ {x} = desk.pinned \ {x}
  BY <1>2, DeskFields
<1> HIDE DEF w, m
<1>6. e = f
  BY <1>2 DEF Desks
<1> HIDE DEF pins
<1>7. Sound(f)
  <2>1. w \in Live(desk) \cup {None}
    BY <1>3
  <2> QED
    BY <2>1, <1>1, <1>2, <1>3, <1>4, <1>5, SoundWindow
<1> QED
  BY <1>1, <1>6, <1>7, ServedSound

(* and focused. *)
LEMMA ClickWindowKeeps ==
  ASSUME IInv, NEW x \in Windows, ClickWindow(x)
  PROVE  IInv'
<1>1. desk.winWs[x] # None /\ desk.focus # None /\ Served(FocusWindow(desk, x))
  BY DEF ClickWindow
<1>2. Sound(FocusWindow(desk, x))
  BY <1>1, SoundFocusWindow DEF IInv
<1> QED
  BY <1>1, <1>2, ServedSound

(* or by the dispatcher, on whatever workspace it is. *)
LEMMA GoToWindowKeeps ==
  ASSUME IInv, NEW x \in Windows, GoToWindow(x)
  PROVE  IInv'
<1> DEFINE w == desk.winWs[x]
<1>1. PICK d \in {desk, ShowWorkspace(desk, w)} :
        w # None /\ desk.focus # None /\ Served(FocusWindow(d, x))
  BY DEF GoToWindow
<1>2. w \in Live(desk) /\ Sound(desk) /\ setup \in Setups
  BY <1>1, SoundFields DEF IInv, Fine, Housed, Peopled
<1> HIDE DEF w
<1>3. Sound(d) /\ On(d) = On(desk)
  BY <1>1, <1>2, SoundShow
<1>4. d.focus # None
  <2>1. On(desk) # {}
    BY <1>1, <1>2, SoundFields
  <2> QED
    BY <2>1, <1>3 DEF Sound
<1>5. Sound(FocusWindow(d, x))
  BY <1>3, <1>4, SoundFocusWindow
<1> QED
  BY <1>1, <1>5, ServedSound

(* What a window is moved to is opened, and w stays where it is. *)
LEMMA SoundFollowed ==
  ASSUME NEW d, Sound(d), d.focus # None, NEW w \in Live(d), NEW m, m = d.home[w],
         NEW old, old \in Special => old \in Live(d)
  PROVE  LET e == Followed(d, w, m, old) IN
         /\ Sound(e) /\ On(e) = On(d) /\ Live(e) = Live(d)
         /\ e.winWs = d.winWs /\ e.home[w] = m /\ e.focus # None
<1> DEFINE e == Followed(d, w, m, old)
<1>0. m \in On(d) /\ w \in All /\ w # None /\ m # None
  BY SoundFields
<1>1. CASE w \in Special
  <2>1. e = SetSpecialWorkspace(d, m, w)
    BY <1>1 DEF Followed
  <2>2. LET t == SetSpecialWorkspace(d, m, w) IN
         /\ Sound(t) /\ On(t) = On(d) /\ Live(t) = Live(d)
         /\ SameLists(d, t) /\ t.active = d.active
         /\ t.home = [v \in All |-> IF v = w THEN m ELSE d.home[v]]
         /\ t.focus \in {d.focus, m}
    BY <1>0, <1>1, SoundSpecial
  <2> HIDE DEF e
  <2>3. e.home[w] = m /\ e.winWs = d.winWs /\ e.focus # None
    BY <2>1, <2>2, <1>0 DEF SameLists
  <2> QED
    BY <2>1, <2>2, <2>3 DEF e
<1>2. CASE w \notin Special /\ old \in Special
  <2> DEFINE o == d.home[old]
  <2>1. e = SetSpecialWorkspace(d, o, None)
    BY <1>2 DEF Followed
  <2>2. o \in On(d) /\ o # None
    BY <1>2, SoundFields
  <2> HIDE DEF o, e
  <2>3. LET t == SetSpecialWorkspace(d, o, None) IN
         /\ Sound(t) /\ On(t) = On(d) /\ Live(t) = Live(d)
         /\ SameLists(d, t) /\ t.active = d.active
         /\ t.home = [v \in All |-> IF v = None THEN o ELSE d.home[v]]
         /\ t.focus \in {d.focus, o}
    BY <2>2, SoundSpecial
  <2>4. e.home[w] = m /\ e.winWs = d.winWs /\ e.focus # None
    BY <2>1, <2>2, <2>3, <1>0 DEF SameLists
  <2> QED
    BY <2>1, <2>3, <2>4 DEF e
<1>3. CASE w \notin Special /\ old \notin Special
  BY <1>3 DEF Followed
<1> QED
  BY <1>1, <1>2, <1>3

(* CMonitor::changeWorkspace to any workspace that is on the monitor. *)
LEMMA SoundChange ==
  ASSUME NEW d, Sound(d), d.focus # None, NEW w \in Live(d), NEW m, m = d.home[w]
  PROVE  LET e == ChangeWorkspace(d, m, w, FALSE) IN
         /\ Sound(e) /\ On(e) = On(d)
         /\ \A x \in Windows : e.winWs[x] \in {d.winWs[x], w}
         /\ e.focus # None
<1> DEFINE e == ChangeWorkspace(d, m, w, FALSE)
<1>0. m \in On(d) /\ w \in All /\ w # None /\ m # None
  BY SoundFields
<1>1. CASE w \in Special
  <2>1. e = SetSpecialWorkspace(d, m, w)
    BY <1>1 DEF ChangeWorkspace
  <2>2. LET t == SetSpecialWorkspace(d, m, w) IN
         /\ Sound(t) /\ On(t) = On(d) /\ Live(t) = Live(d)
         /\ SameLists(d, t) /\ t.active = d.active
         /\ t.home = [v \in All |-> IF v = w THEN m ELSE d.home[v]]
         /\ t.focus \in {d.focus, m}
    BY <1>0, <1>1, SoundSpecial
  <2> HIDE DEF e
  <2>3. e.winWs = d.winWs /\ e.focus # None
    BY <2>1, <2>2, <1>0 DEF SameLists
  <2> QED
    BY <2>1, <2>2, <2>3 DEF e
<1>2. CASE w \notin Special
  <2>1. w \in Regular
    BY <1>0, <1>2, NamesApart
  <2>2. LET t == ChangeWorkspace(d, m, w, FALSE) IN
         /\ Sound(t) /\ On(t) = On(d) /\ Live(t) = Live(d)
         /\ SameButWindows(d, t)
         /\ \A x \in Windows : t.winWs[x] \in {d.winWs[x], w}
    BY <2>1, <1>0, SoundOpened
  <2>3. e.focus = d.focus
    BY <2>2 DEF SameButWindows
  <2> HIDE DEF e
  <2> QED
    BY <2>2, <2>3 DEF e
<1> QED
  BY <1>1, <1>2

(* movetoworkspace and movetoworkspacesilent keep the invariant. *)
LEMMA MoveWindowKeeps ==
  ASSUME IInv, NEW x \in Windows, NEW w \in All, NEW silent, MoveWindow(x, w, silent)
  PROVE  IInv'
<1> DEFINE d == Resolved(w)
<1> DEFINE m == d.home[w]
<1> DEFINE old == d.winWs[x]
<1> DEFINE moved == [d EXCEPT !.winWs[x] = w, !.winMon[x] = m]
<1> DEFINE f == [moved EXCEPT !.focus = m]
<1> DEFINE r == Followed(f, w, m, old)
<1> DEFINE c == ChangeWorkspace(r, m, w, FALSE)
<1>1. desk.winWs[x] # None /\ desk.focus # None /\ m # None
      /\ (Served(moved) \/ Served(FocusWindow(c, x)))
  BY DEF MoveWindow
<1>2. Sound(d) /\ w \in Live(d) /\ d.focus = desk.focus /\ d.winWs = desk.winWs
  BY <1>1, ResolvedSound
<1>3. d \in Desks /\ Fine(d, On(d))
  <2> HIDE DEF d
  <2> QED
    BY <1>2, SoundFields
<1> HIDE DEF d
<1>4. m \in On(d) /\ m \in Outputs /\ w # None
  BY <1>2, SoundFields
<1>5. moved = [d EXCEPT !.winWs[x] = w, !.winMon[x] = m, !.pinned = d.pinned]
  BY <1>3 DEF Desks
<1>6. /\ moved.mons = d.mons /\ moved.ws = d.ws /\ moved.home = d.home
      /\ moved.winWs = [d.winWs EXCEPT ![x] = w]
  BY <1>3 DEF Desks
<1>7. Sound(moved)
  <2> HIDE DEF moved
  <2>1. m = d.home[w]
    OBVIOUS
  <2> HIDE DEF m
  <2>2. m \in MonitorOrNone /\ w \in Live(d) \cup {None} /\ d.pinned \in SUBSET Windows
    BY <1>2, <1>3, <1>4, DeskFields DEF MonitorOrNone
  <2>3. Sound([d EXCEPT !.winWs[x] = w, !.winMon[x] = m, !.pinned = d.pinned])
    BY <1>2, <1>4, <2>1, <2>2, SoundWindow
  <2> QED
    BY <1>5, <2>3
<1> HIDE DEF moved
<1>8. On(moved) = On(d) /\ Live(moved) = Live(d) /\ moved.home[w] = m /\ moved.winWs[x] = w
  BY <1>3, <1>6, DeskFields DEF On, Live
<1> HIDE DEF m
<1>9. Sound(f) /\ On(f) = On(d) /\ Live(f) = Live(d) /\ f.home[w] = m /\ f.winWs[x] = w /\ f.focus = m
  <2>1. /\ Sound(f) /\ On(f) = On(moved) /\ Live(f) = Live(moved)
    BY <1>4, <1>7, <1>8, SoundFocus
  <2>2. f.home = moved.home /\ f.winWs = moved.winWs /\ f.focus = m
    BY <1>7, SoundFields DEF Desks
  <2> HIDE DEF f
  <2> QED
    BY <2>1, <2>2, <1>8
<1> HIDE DEF f
<1>10. old # None /\ old \in Live(d)
  BY <1>1, <1>2, <1>3 DEF Fine, Peopled
<1> HIDE DEF old
<1>11. Sound(r) /\ On(r) = On(f) /\ w \in Live(r) /\ r.home[w] = m /\ r.winWs = f.winWs /\ r.focus # None
  <2>1. LET e == Followed(f, w, m, old) IN
         /\ Sound(e) /\ On(e) = On(f) /\ Live(e) = Live(f)
         /\ e.winWs = f.winWs /\ e.home[w] = m /\ e.focus # None
    BY <1>1, <1>2, <1>9, <1>10, SoundFollowed
  <2> QED
    BY <2>1, <1>2, <1>9
<1> HIDE DEF r
<1>12. Sound(c) /\ c.winWs[x] = w /\ c.focus # None
  <2>1. LET e == ChangeWorkspace(r, m, w, FALSE) IN
         /\ Sound(e) /\ On(e) = On(r)
         /\ \A y \in Windows : e.winWs[y] \in {r.winWs[y], w}
         /\ e.focus # None
    BY <1>11, SoundChange
  <2> QED
    BY <2>1, <1>9, <1>11
<1> HIDE DEF c
<1>13. Sound(FocusWindow(c, x))
  BY <1>4, <1>12, SoundFocusWindow
<1>14. CASE Served(moved)
  BY <1>7, <1>14, ServedSound
<1>15. CASE Served(FocusWindow(c, x))
  BY <1>13, <1>15, ServedSound
<1> QED
  BY <1>1, <1>14, <1>15

(* A flag set on workspaces that live. *)
LEMMA SoundPersistent ==
  ASSUME NEW d, Sound(d), NEW P, P \subseteq Live(d), P \subseteq Regular
  PROVE  LET e == [d EXCEPT !.persistent = P] IN
         /\ Sound(e) /\ On(e) = On(d) /\ Live(e) = Live(d) /\ e.persistent = P /\ e.focus = d.focus
<1> DEFINE e == [d EXCEPT !.persistent = P]
<1>0. d \in Desks /\ Fine(d, On(d)) /\ On(d) \in SUBSET Outputs
  BY SoundFields
<1>1. /\ e \in Desks /\ e.mons = d.mons /\ e.ws = d.ws /\ e.active = d.active /\ e.special = d.special
      /\ e.home = d.home /\ e.visible = d.visible /\ e.persistent = P
      /\ e.focus = d.focus /\ e.winMon = d.winMon /\ e.pinned = d.pinned /\ e.winWs = d.winWs
  BY <1>0 DEF Desks
<1> HIDE DEF e
<1>2. Fine(e, On(d))
  BY <1>0, <1>1 DEF Fine, ShowsItsOwn, FlagAgrees, OnShow, Housed, Peopled, Beside, PinsMapped, Live
<1>3. \A o \in On(d) : e.active[o] # None
  BY <1>1, SoundFields, NamesApart
<1>4. Sound(e) /\ On(e) = On(d)
  BY <1>1, <1>2, <1>3, SoundStep
<1> QED
  BY <1>1, <1>4 DEF e, Live

(* One rule of a persistent workspace. *)
LEMMA SoundEnsured ==
  ASSUME IdsNeverRunOut, setup \in Setups,
         NEW d, Sound(d), NEW w \in Regular, NEW m \in On(d)
  PROVE  LET e == Ensured(d, w, m) IN
         /\ Sound(e) /\ On(e) = On(d) /\ d.persistent \cup {w} \subseteq e.persistent
         /\ e.focus \in {d.focus, m}
<1> DEFINE b == IF IsLive(d, w) THEN d ELSE Create(d, w, m)
<1> DEFINE p == b.persistent \cup {w}
<1> DEFINE c == [b EXCEPT !.persistent = p]
<1> DEFINE e == Ensured(d, w, m)
<1>1. Sound(b) /\ On(b) = On(d) /\ w \in Live(b) /\ d.persistent \subseteq b.persistent /\ b.focus = d.focus
  <2>1. CASE w \in Live(d)
    BY <2>1 DEF IsLive, Live
  <2>2. CASE w \notin Live(d)
    <3>1. b = Create(d, w, m) /\ w \in All
      BY <2>2, NamesApart DEF IsLive, Live
    <3>2. LET t == Create(d, w, m) IN
         /\ Sound(t) /\ On(t) = On(d) /\ w \in Live(t) /\ SameButLists(d, t)
         /\ Live(t) = Live(d) \cup {w} /\ d.persistent \subseteq t.persistent
      BY <2>2, <3>1, SoundCreate
    <3> HIDE DEF b
    <3> QED
      BY <3>1, <3>2 DEF SameButLists
  <2> QED
    BY <2>1, <2>2
<1> HIDE DEF b
<1>2. e = MoveWorkspaceToMonitor(c, w, m, {})
  BY DEF Ensured, b
<1>3. p \subseteq Live(b) /\ p \subseteq Regular
  <2>1. b \in Desks /\ Fine(b, On(b))
    BY <1>1, SoundFields
  <2> QED
    BY <2>1, <1>1, DeskFields DEF Fine
<1>4. Sound(c) /\ On(c) = On(d) /\ w \in Live(c) /\ c.persistent = p /\ c.focus = d.focus
  <2> HIDE DEF p
  <2>1. LET t == [b EXCEPT !.persistent = p] IN
         /\ Sound(t) /\ On(t) = On(b) /\ Live(t) = Live(b) /\ t.persistent = p /\ t.focus = b.focus
    BY <1>1, <1>3, SoundPersistent
  <2> QED
    BY <2>1, <1>1
<1> HIDE DEF c, e
<1>5. LET t == MoveWorkspaceToMonitor(c, w, m, {}) IN
         /\ Sound(t) /\ On(t) = On(c) /\ w \in Live(t) /\ t.home[w] = m
         /\ Live(c) \cap {} \subseteq Live(t) /\ c.persistent \subseteq t.persistent
         /\ t.focus \in {c.focus, m}
  BY <1>4, SoundMove
<1>6. Sound(e) /\ On(e) = On(d) /\ d.persistent \cup {w} \subseteq e.persistent /\ e.focus \in {d.focus, m}
  BY <1>1, <1>2, <1>4, <1>5
<1> QED
  BY <1>6 DEF e

(* ensurePersistentWorkspacesPresent *)
LEMMA SoundEnsurePersistent ==
  ASSUME IdsNeverRunOut, setup \in Setups, NEW d, Sound(d)
  PROVE  Sound(EnsurePersistent(d)) /\ On(EnsurePersistent(d)) = On(d)
<1>1. CASE d.focus = None
  BY <1>1 DEF EnsurePersistent
<1>2. CASE d.focus # None
  <2> DEFINE T == {w \in DOMAIN setup.bound : setup.bound[w] = None \/ OnList(d, setup.bound[w])}
  <2> DEFINE s == Only(setup.persistent, T)
  <2> DEFINE W == ToSet(s)
  <2> DEFINE D == {e \in Desks : Sound(e) /\ On(e) = On(d) /\ e.focus # None}
  <2> DEFINE g == [p \in D \X W |-> EnsureRule(p[1], p[2])]
  <2> DEFINE Body(f) == [t \in SUBSET (DOMAIN s) |-> IF t = {} THEN d ELSE EnsureRule(f[t \ {Max(t)}], s[Max(t)])]
  <2> DEFINE r == CHOOSE f : f = Body(f)
  <2>1. s \in Seq(W) /\ W \subseteq T /\ W \subseteq Regular
    <3>1. setup.persistent \in Seq(DOMAIN setup.bound) /\ DOMAIN setup.bound \subseteq Regular
      BY SetupAssumption
    <3> HIDE DEF T
    <3>2. s \in Seq(DOMAIN setup.bound) /\ W = ToSet(setup.persistent) \cap T
      BY <3>1, OnlySet
    <3>3. W \subseteq T /\ W \subseteq Regular
      BY <3>1, <3>2, HeadIn DEF T
    <3>4. s \in Seq(W)
      <4> HIDE DEF s
      <4> QED
        BY <3>2 DEF ToSet
    <3> QED
      BY <3>3, <3>4
  <2>2. \A w \in W : setup.bound[w] = None \/ setup.bound[w] \in On(d)
    BY <2>1 DEF OnList, On
  <2> HIDE DEF T, s, W
  <2>0. Len(s) \in Nat /\ DOMAIN s = 1..Len(s) /\ d \in D
    BY <2>1, <1>2, SoundFields
  <2>3. ASSUME NEW e \in D, NEW w \in W
        PROVE  EnsureRule(e, w) \in D /\ e.persistent \cup {w} \subseteq EnsureRule(e, w).persistent
    <3> DEFINE m == IF setup.bound[w] = None THEN e.focus ELSE setup.bound[w]
    <3>1. Sound(e) /\ On(e) = On(d) /\ e.focus \in On(e) /\ w \in Regular
      BY <2>1, SoundFields
    <3>2. m \in On(e) /\ m # None
      BY <2>2, <3>1, SoundFields
    <3>3. EnsureRule(e, w) = Ensured(e, w, m)
      BY DEF EnsureRule
    <3> HIDE DEF m
    <3>4. LET t == Ensured(e, w, m) IN
         /\ Sound(t) /\ On(t) = On(e) /\ e.persistent \cup {w} \subseteq t.persistent
         /\ t.focus \in {e.focus, m}
      BY <3>1, <3>2, SoundEnsured
    <3> QED
      BY <3>1, <3>2, <3>3, <3>4, SoundFields
  <2>4. g \in [D \X W -> D] /\ \A e \in D, w \in W : g[<<e, w>>] = EnsureRule(e, w)
    <3> HIDE DEF D
    <3> QED
      BY <2>3
  <2>5. PICK f \in [SUBSET (1..Len(s)) -> D] : LoopBody(d, g, s, f)
    <3> HIDE DEF D, g
    <3> QED
      BY <2>0, <2>1, <2>4, LoopExists
  <2>6. f = Body(f)
    <3> SUFFICES ASSUME NEW t \in SUBSET (1..Len(s))
                 PROVE  f[t] = IF t = {} THEN d ELSE EnsureRule(f[t \ {Max(t)}], s[Max(t)])
      BY <2>0
    <3>1. f[t] = IF t = {} THEN d ELSE g[<<f[t \ {Max(t)}], s[Max(t)]>>]
      BY <2>5 DEF LoopBody
    <3>2. t # {} => Max(t) \in 1..Len(s) /\ f[t \ {Max(t)}] \in D
      BY <2>0, MaxIn
    <3>3. t # {} => s[Max(t)] \in W
      BY <3>2, <2>0, <2>1
    <3> HIDE DEF g, D
    <3> QED
      BY <3>1, <3>2, <3>3, <2>4
  <2>7. r = Body(r)
    <3> HIDE DEF Body
    <3> QED
      BY <2>6
  <2> DEFINE q == FoldLeft(EnsureRule, d, s)
  <2>8. q = r[1..Len(s)]
    BY <2>0 DEF FoldLeft, MapThenFoldSet
  <2> DEFINE P == [k \in 0..Len(s) |-> {e \in D : \A i \in 1..k : s[i] \in e.persistent}]
  <2>9. d \in P[0]
    BY <2>0
  <2>10. ASSUME NEW k \in 1..Len(s), NEW e \in P[k-1] PROVE g[<<e, s[k]>>] \in P[k]
    <3>1. k - 1 \in 0..Len(s) /\ k \in 0..Len(s) /\ s[k] \in W
      BY <2>0, <2>1
    <3>2. e \in D /\ \A i \in 1..(k-1) : s[i] \in e.persistent
      BY <3>1
    <3>3. g[<<e, s[k]>>] = EnsureRule(e, s[k])
      BY <3>1, <3>2, <2>4
    <3>4. \A i \in 1..k : s[i] \in e.persistent \cup {s[k]}
      <4>1. \A i \in 1..k : i = k \/ i \in 1..(k-1)
        OBVIOUS
      <4> QED
        BY <3>2, <4>1
    <3> HIDE DEF D
    <3> QED
      BY <3>1, <3>2, <3>3, <3>4, <2>3
  <2>11. r[1..Len(s)] \in P[Len(s)]
    <3>1. P \in [0..Len(s) -> SUBSET D]
      OBVIOUS
    <3>2. r[{}] = d
      BY <2>7
    <3>3. \A t \in SUBSET (1..Len(s)) :
              t # {} /\ r[t \ {Max(t)}] \in D => r[t] = g[<<r[t \ {Max(t)}], s[Max(t)]>>]
      <4> SUFFICES ASSUME NEW t \in SUBSET (1..Len(s)), t # {}, r[t \ {Max(t)}] \in D
                   PROVE  r[t] = g[<<r[t \ {Max(t)}], s[Max(t)]>>]
        OBVIOUS
      <4>0. Max(t) \in 1..Len(s)
        BY <2>0, MaxIn
      <4>1. s[Max(t)] \in W
        BY <4>0, <2>0, <2>1
      <4>2. r[t] = EnsureRule(r[t \ {Max(t)}], s[Max(t)])
        <5> HIDE DEF r
        <5> QED
          BY <2>7, <2>0
      <4> HIDE DEF r, g, D
      <4> QED
        BY <4>1, <4>2, <2>4
    <3> HIDE DEF D, g, P, r
    <3> QED
      BY <3>1, <3>2, <3>3, <2>0, <2>1, <2>4, <2>9, <2>10, LoopKeeps
  <2> HIDE DEF r
  <2>12. q \in D /\ W \subseteq q.persistent
    <3>1. Len(s) \in 0..Len(s)
      BY <2>0
    <3>2. r[1..Len(s)] \in D /\ \A i \in 1..Len(s) : s[i] \in r[1..Len(s)].persistent
      BY <2>11, <3>1
    <3>3. W = {s[i] : i \in 1..Len(s)}
      BY <2>0 DEF ToSet, W
    <3> HIDE DEF D, q
    <3> QED
      BY <2>8, <3>2, <3>3
  <2> HIDE DEF q, P, g
  <2>13. Sound(q) /\ On(q) = On(d) /\ W \subseteq Live(q)
    BY <2>12, SoundFields DEF Fine
  <2> DEFINE e == [q EXCEPT !.persistent = W]
  <2>14. Sound(e) /\ On(e) = On(d)
    <3>1. LET t == [q EXCEPT !.persistent = W] IN
         /\ Sound(t) /\ On(t) = On(q) /\ Live(t) = Live(q) /\ t.persistent = W /\ t.focus = q.focus
      BY <2>1, <2>13, SoundPersistent
    <3> QED
      BY <3>1, <2>13
  <2>15. EnsurePersistent(d) = Collect(e, {})
    BY <1>2 DEF EnsurePersistent, InForce, q, s, T, W
  <2> HIDE DEF e
  <2>16. LET t == Collect(e, {}) IN Sound(t) /\ On(t) = On(e)
    BY <2>14, SoundCollect
  <2> QED
    BY <2>14, <2>15, <2>16
<1> QED
  BY <1>1, <1>2

(* ensureWorkspacesOnAssignedMonitors *)
LEMMA SoundEnsureAssigned ==
  ASSUME IdsNeverRunOut, setup \in Setups, NEW d, Sound(d)
  PROVE  Sound(EnsureAssigned(d)) /\ On(EnsureAssigned(d)) = On(d)
<1> DEFINE s == d.ws
<1> DEFINE W == ToSet(s)
<1> DEFINE Assign(e, w) == MoveWorkspaceToMonitor(e, w, BoundMonitor(e, w), ToSet(d.ws))
<1> DEFINE D == {e \in Desks : Sound(e) /\ On(e) = On(d) /\ Live(d) \subseteq Live(e)}
<1> DEFINE g == [p \in D \X W |-> Assign(p[1], p[2])]
<1> DEFINE Body(f) == [t \in SUBSET (DOMAIN s) |-> IF t = {} THEN d ELSE Assign(f[t \ {Max(t)}], s[Max(t)])]
<1> DEFINE r == CHOOSE f : f = Body(f)
<1>1. s \in Seq(W) /\ W = Live(d)
  <2>1. s \in Seq(All)
    BY SoundFields, DeskFields
  <2> HIDE DEF s
  <2>2. s \in Seq(W)
    BY <2>1 DEF ToSet
  <2> QED
    BY <2>2 DEF s, Live
<1>2. ASSUME NEW e \in D, NEW w \in W PROVE Assign(e, w) \in D
  <2> DEFINE m == BoundMonitor(e, w)
  <2>1. Sound(e) /\ On(e) = On(d) /\ w \in Live(e) /\ Live(d) \subseteq Live(e)
    BY <1>1
  <2>2. m \in On(e) \cup {None}
    BY BoundIn DEF On
  <2> HIDE DEF m
  <2>3. CASE m = None
    <3>1. Assign(e, w) = e
      BY <2>3 DEF MoveWorkspaceToMonitor, m
    <3> QED
      BY <3>1
  <2>4. CASE m \in On(e)
    <3>1. LET t == MoveWorkspaceToMonitor(e, w, m, Live(d)) IN
         /\ Sound(t) /\ On(t) = On(e) /\ w \in Live(t) /\ t.home[w] = m
         /\ Live(e) \cap Live(d) \subseteq Live(t) /\ e.persistent \subseteq t.persistent
         /\ t.focus \in {e.focus, m}
      BY <2>1, <2>4, SoundMove
    <3>2. Assign(e, w) = MoveWorkspaceToMonitor(e, w, m, Live(d))
      BY DEF m, Live
    <3> QED
      BY <3>1, <3>2, <2>1, SoundFields
  <2> QED
    BY <2>2, <2>3, <2>4
<1> HIDE DEF Assign, W
<1>3. Len(s) \in Nat /\ DOMAIN s = 1..Len(s) /\ d \in D
  <2>1. d \in D
    BY SoundFields
  <2> HIDE DEF s
  <2> QED
    BY <2>1, <1>1
<1> HIDE DEF s
<1>4. g \in [D \X W -> D] /\ \A e \in D, w \in W : g[<<e, w>>] = Assign(e, w)
  <2> HIDE DEF D
  <2> QED
    BY <1>2
<1>5. PICK f \in [SUBSET (1..Len(s)) -> D] : LoopBody(d, g, s, f)
  <2> HIDE DEF D, g
  <2> QED
    BY <1>1, <1>3, <1>4, LoopExists
<1>6. f = Body(f)
  <2> SUFFICES ASSUME NEW t \in SUBSET (1..Len(s))
               PROVE  f[t] = IF t = {} THEN d ELSE Assign(f[t \ {Max(t)}], s[Max(t)])
    BY <1>3
  <2>1. f[t] = IF t = {} THEN d ELSE g[<<f[t \ {Max(t)}], s[Max(t)]>>]
    BY <1>5 DEF LoopBody
  <2>2. t # {} => Max(t) \in 1..Len(s) /\ f[t \ {Max(t)}] \in D
    BY <1>3, MaxIn
  <2>3. t # {} => s[Max(t)] \in W
    BY <2>2, <1>1, <1>3
  <2> HIDE DEF g, D
  <2> QED
    BY <2>1, <2>2, <2>3, <1>4
<1>7. r = Body(r)
  <2> HIDE DEF Body
  <2> QED
    BY <1>6
<1>8. EnsureAssigned(d) = r[1..Len(s)]
  BY <1>3 DEF EnsureAssigned, FoldLeft, MapThenFoldSet, Assign, s
<1> DEFINE P == [k \in 0..Len(s) |-> D]
<1>9. r[1..Len(s)] \in P[Len(s)]
  <2>1. P \in [0..Len(s) -> SUBSET D] /\ d \in P[0]
    BY <1>3
  <2>2. r[{}] = d
    BY <1>7
  <2>3. \A t \in SUBSET (1..Len(s)) :
            t # {} /\ r[t \ {Max(t)}] \in D => r[t] = g[<<r[t \ {Max(t)}], s[Max(t)]>>]
    <3> SUFFICES ASSUME NEW t \in SUBSET (1..Len(s)), t # {}, r[t \ {Max(t)}] \in D
                 PROVE  r[t] = g[<<r[t \ {Max(t)}], s[Max(t)]>>]
      OBVIOUS
    <3>1. Max(t) \in 1..Len(s)
      BY <1>3, MaxIn
    <3>2. s[Max(t)] \in W
      BY <3>1, <1>1, <1>3
    <3>3. r[t] = Assign(r[t \ {Max(t)}], s[Max(t)])
      <4> HIDE DEF r
      <4> QED
        BY <1>7, <1>3
    <3> HIDE DEF r, g, D
    <3> QED
      BY <3>2, <3>3, <1>4
  <2>4. \A k \in 1..Len(s) : \A e \in P[k-1] : g[<<e, s[k]>>] \in P[k]
    <3> SUFFICES ASSUME NEW k \in 1..Len(s), NEW e \in P[k-1] PROVE g[<<e, s[k]>>] \in P[k]
      OBVIOUS
    <3>1. k - 1 \in 0..Len(s) /\ k \in 0..Len(s) /\ s[k] \in W
      BY <1>1, <1>3
    <3>2. P[k-1] = D /\ P[k] = D
      BY <3>1
    <3> HIDE DEF D, P, g
    <3> QED
      BY <3>1, <3>2, <1>4
  <2> HIDE DEF D, g, P, r
  <2> QED
    BY <2>1, <2>2, <2>3, <2>4, <1>1, <1>3, <1>4, LoopKeeps
<1> HIDE DEF r
<1>10. Len(s) \in 0..Len(s)
  BY <1>3
<1> QED
  BY <1>8, <1>9, <1>10

(* The function onConnect left to doLater. *)
LEMMA EnsurePlacementKeeps ==
  ASSUME IInv, IdsNeverRunOut, EnsurePlacement
  PROVE  IInv'
<1> DEFINE p == EnsurePersistent(desk)
<1> DEFINE a == EnsureAssigned(p)
<1>1. ensure > 0 /\ Done(a) /\ ensure' = ensure - 1
  BY DEF EnsurePlacement
<1>2. Sound(p)
  BY SoundEnsurePersistent DEF IInv
<1> HIDE DEF p
<1>3. Sound(a)
  BY <1>2, SoundEnsureAssigned DEF IInv
<1> HIDE DEF a
<1>4. Sound(desk') /\ setup' \in Setups
  BY <1>1, <1>3, DoneSound DEF IInv
<1>5. ensure' \in 0..Jobs
  BY <1>1, SetupAssumption DEF IInv
<1> QED
  BY <1>4, <1>5 DEF IInv

(* A desk while a monitor comes that is not on the list yet: N has it. *)
Coming(e, N, mons) ==
  /\ e \in Desks /\ Fine(e, N) /\ e.mons = mons
  /\ \A o \in N : e.active[o] # None
  /\ \A o \in Outputs \ N : e.active[o] = None /\ e.special[o] = None

(* A workspace moves while a monitor comes. *)
LEMMA ComingMove ==
  ASSUME IdsNeverRunOut, setup \in Setups,
         NEW d, NEW N \in SUBSET Outputs, NEW mons, Coming(d, N, mons), ToSet(mons) \subseteq N,
         NEW m \in N, NEW w \in Live(d), NEW local
  PROVE  LET e == MoveWorkspaceToMonitor(d, w, m, local) IN
         /\ Coming(e, N, mons) /\ w \in Live(e) /\ e.home[w] = m
         /\ Live(d) \cap local \subseteq Live(e)
         /\ e.focus \in {d.focus, m}
<1> DEFINE e == MoveWorkspaceToMonitor(d, w, m, local)
<1>1. Moved(d, e, w, m, N, local)
  BY MoveFine DEF Coming
<1> HIDE DEF e
<1>2. \A o \in N : e.active[o] # None
  BY <1>1 DEF Coming, Moved
<1>3. \A o \in Outputs \ N : e.active[o] = None /\ e.special[o] = None
  BY <1>1 DEF Coming, Moved
<1>4. /\ Coming(e, N, mons) /\ w \in Live(e) /\ e.home[w] = m
      /\ Live(d) \cap local \subseteq Live(e)
      /\ e.focus \in {d.focus, m}
  BY <1>1, <1>2, <1>3 DEF Coming, Moved
<1> QED
  BY <1>4 DEF e

(* Workspaces are dropped while a monitor comes. *)
LEMMA ComingCollect ==
  ASSUME NEW d, NEW N \in SUBSET Outputs, NEW mons, Coming(d, N, mons), NEW local
  PROVE  LET e == Collect(d, local) IN
         /\ Coming(e, N, mons) /\ e.focus = d.focus
         /\ \A v \in All : v \in Live(d) /\ v \in local => v \in Live(e)
<1> DEFINE e == Collect(d, local)
<1>1. e \in Desks /\ Fine(e, N) /\ SameButLives(d, e) /\ Live(e) = Live(d) \cap (Held(d) \cup local)
  BY CollectFine DEF Coming
<1> HIDE DEF e
<1>2. /\ Coming(e, N, mons) /\ e.focus = d.focus
      /\ \A v \in All : v \in Live(d) /\ v \in local => v \in Live(e)
  BY <1>1 DEF Coming, SameButLives
<1> QED
  BY <1>2 DEF e

(* m_lastMonitor is not a part of what is to hold. *)
LEMMA LastFine ==
  ASSUME NEW d \in Desks, NEW N, Fine(d, N), NEW w, NEW l \in MonitorOrNone
  PROVE  LET e == [d EXCEPT !.last[w] = l] IN
         /\ e \in Desks /\ Fine(e, N) /\ e.mons = d.mons /\ e.active = d.active
         /\ e.special = d.special /\ e.focus = d.focus /\ Live(e) = Live(d)
<1> DEFINE e == [d EXCEPT !.last[w] = l]
<1>1. /\ e \in Desks /\ e.mons = d.mons /\ e.ws = d.ws /\ e.active = d.active /\ e.special = d.special
      /\ e.home = d.home /\ e.visible = d.visible /\ e.persistent = d.persistent
      /\ e.focus = d.focus /\ e.winMon = d.winMon /\ e.pinned = d.pinned /\ e.winWs = d.winWs
  BY DEF Desks
<1> HIDE DEF e
<1>2. Fine(e, N)
  BY <1>1 DEF Fine, ShowsItsOwn, FlagAgrees, OnShow, Housed, Peopled, Beside, PinsMapped, Live
<1> QED
  BY <1>1, <1>2 DEF e, Live

(* Everything stays in order when there is one monitor more to be on. *)
LEMMA FineMore ==
  ASSUME NEW d, NEW M, NEW N, Fine(d, M), M \subseteq N
  PROVE  Fine(d, N)
  BY DEF Fine, Housed

(* The default workspace of an output is a regular one. *)
LEMMA DefaultIn ==
  ASSUME IdsNeverRunOut, setup \in Setups, NEW d \in Desks, NEW m \in Outputs
  PROVE  DefaultWorkspace(d, m) \in Regular
<1>1. CASE m = FALLBACK \/ setup.default[m] = None
  BY <1>1, DefaultIdFree DEF DefaultWorkspace
<1>2. CASE m # FALLBACK /\ setup.default[m] # None
  <2>1. m \in Real /\ setup.default \in [Real -> Regular \cup {None}]
    BY <1>2, SetupAssumption DEF Outputs
  <2> QED
    BY <1>2, <2>1 DEF DefaultWorkspace
<1> QED
  BY <1>1, <1>2

(* What is new on m is shown there. *)
Started(b, w, m) == [b EXCEPT !.active[m] = w, !.visible = @ \cup {w}, !.last[w] = None]

(* Showing w on m, which shows nothing yet, keeps the desk fine. *)
LEMMA StartFine ==
  ASSUME NEW b \in Desks, NEW N \in SUBSET Outputs, Fine(b, N), NEW m \in N,
         NEW w \in Regular, w \in Live(b), b.home[w] = m, b.active[m] \in {None, w}
  PROVE  LET e == Started(b, w, m) IN
         /\ e \in Desks /\ Fine(e, N) /\ e.mons = b.mons /\ e.special = b.special /\ e.focus = b.focus
         /\ e.active = [b.active EXCEPT ![m] = w]
<1> DEFINE e == Started(b, w, m)
<1>0. m \in Outputs /\ m # None /\ w \in All /\ w # None
  BY NamesApart
<1>1. /\ e \in Desks /\ e.mons = b.mons /\ e.ws = b.ws /\ e.special = b.special
      /\ e.active = [b.active EXCEPT ![m] = w]
      /\ e.home = b.home /\ e.visible = b.visible \cup {w} /\ e.persistent = b.persistent
      /\ e.focus = b.focus /\ e.winMon = b.winMon /\ e.pinned = b.pinned /\ e.winWs = b.winWs
  BY <1>0 DEF Desks, MonitorOrNone, Started
<1> HIDE DEF e
<1>2. \A o \in Outputs : e.active[o] = IF o = m THEN w ELSE b.active[o]
  BY <1>0, <1>1, DeskFields
<1>3. ShowsItsOwn(e)
  BY <1>0, <1>1, <1>2 DEF Fine, ShowsItsOwn, Live
<1>4. FlagAgrees(e)
  <2> SUFFICES ASSUME NEW v \in All PROVE v \in e.visible <=> OnShow(e, v)
    BY DEF FlagAgrees
  <2>1. v \in b.visible <=> OnShow(b, v)
    BY DEF Fine, FlagAgrees
  <2>2. b.home[v] # None => b.home[v] \in Outputs
    BY DeskFields
  <2>3. CASE v = w
    BY <2>3, <1>0, <1>1, <1>2 DEF OnShow
  <2>4. CASE v # w
    <3>1. b.home[v] # None => (v = e.active[b.home[v]] <=> v = b.active[b.home[v]])
      BY <2>2, <2>4, <1>0, <1>2, NamesApart
    <3> QED
      BY <3>1, <2>1, <2>4, <1>1 DEF OnShow
  <2> QED
    BY <2>3, <2>4
<1>5. Housed(e, N) /\ Peopled(e) /\ PinsMapped(e) /\ Beside(e) /\ e.persistent \subseteq Live(e)
      /\ e.focus \in N \cup {None}
  BY <1>1 DEF Fine, Housed, Peopled, PinsMapped, Beside, Live
<1>6. Fine(e, N)
  BY <1>3, <1>4, <1>5 DEF Fine
<1> QED
  BY <1>1, <1>6 DEF e

(* CMonitor::setupDefaultWS *)
LEMMA ComingStart ==
  ASSUME IdsNeverRunOut, setup \in Setups, NEW d, Sound(d), NEW m \in Outputs, m \notin On(d)
  PROVE  Coming(SetupDefaultWS(d, m), On(d) \cup {m}, d.mons)
<1> DEFINE N == On(d) \cup {m}
<1> DEFINE w == DefaultWorkspace(d, m)
<1> DEFINE b == IF IsLive(d, w) THEN MoveWorkspaceToMonitor(d, w, m, {}) ELSE NewWorkspace(d, w, m)
<1> DEFINE e == Started(b, w, m)
<1>0. /\ d \in Desks /\ N \in SUBSET Outputs /\ Fine(d, N) /\ m \in N /\ ToSet(d.mons) \subseteq N
      /\ d.active[m] = None
  <2>1. d \in Desks /\ On(d) \in SUBSET Outputs /\ Fine(d, On(d)) /\ On(d) \subseteq N
    BY SoundFields
  <2>2. d.active[m] = None
    BY DEF Sound
  <2>3. Fine(d, N)
    <3> HIDE DEF N
    <3> QED
      BY <2>1, FineMore
  <2> QED
    BY <2>1, <2>2, <2>3 DEF On
<1>1. w \in Regular /\ w \in All /\ w # None
  BY <1>0, DefaultIn, NamesApart
<1>2. SetupDefaultWS(d, m) = e
  BY DEF SetupDefaultWS, StartOn, Started
<1> HIDE DEF w, e
<1>3. /\ \A o \in On(d) : d.active[o] # None
      /\ \A o \in Outputs \ N : d.active[o] = None /\ d.special[o] = None
  <2>1. \A o \in On(d) : d.active[o] # None
    BY SoundFields, NamesApart
  <2>2. \A o \in Outputs \ N : d.active[o] = None /\ d.special[o] = None
    BY DEF Sound
  <2> QED
    BY <2>1, <2>2
<1> HIDE DEF N
<1>4. /\ b \in Desks /\ Fine(b, N) /\ b.mons = d.mons /\ w \in Live(b) /\ b.home[w] = m
      /\ b.active[m] \in {None, w}
      /\ \A o \in On(d) : b.active[o] # None
      /\ \A o \in Outputs \ N : b.active[o] = None /\ b.special[o] = None
  <2>1. CASE w \in Live(d)
    <3>1. b = MoveWorkspaceToMonitor(d, w, m, {})
      BY <2>1 DEF IsLive, Live
    <3>2. Moved(d, MoveWorkspaceToMonitor(d, w, m, {}), w, m, N, {})
      BY <1>0, <2>1, MoveFine
    <3> HIDE DEF b
    <3>3. Moved(d, b, w, m, N, {})
      BY <3>1, <3>2
    <3>4. On(d) \subseteq Outputs /\ m \in N
      BY <1>0, SoundFields
    <3> QED
      BY <3>3, <3>4, <1>0, <1>3 DEF Moved
  <2>2. CASE w \notin Live(d)
    <3>1. b = NewWorkspace(d, w, m)
      BY <2>2 DEF IsLive, Live
    <3>2. LET t == NewWorkspace(d, w, m) IN
         /\ t \in Desks /\ Fine(t, N) /\ SameButLists(d, t)
         /\ Live(t) = Live(d) \cup {w} /\ t.home = [d.home EXCEPT ![w] = m]
         /\ t.persistent = d.persistent \cup ({w} \cap ToSet(setup.persistent))
      BY <1>0, <1>1, <2>2, NewFine
    <3> HIDE DEF b
    <3>3. b.home[w] = m
      BY <3>1, <3>2, <1>0, <1>1, DeskFields
    <3> QED
      BY <3>1, <3>2, <3>3, <1>0, <1>3 DEF SameButLists
  <2> QED
    BY <2>1, <2>2
<1> HIDE DEF b
<1>5. /\ e \in Desks /\ Fine(e, N) /\ e.mons = b.mons /\ e.special = b.special /\ e.focus = b.focus
      /\ e.active = [b.active EXCEPT ![m] = w]
  <2>1. LET t == Started(b, w, m) IN
         /\ t \in Desks /\ Fine(t, N) /\ t.mons = b.mons /\ t.special = b.special /\ t.focus = b.focus
         /\ t.active = [b.active EXCEPT ![m] = w]
    BY <1>0, <1>1, <1>4, StartFine
  <2> QED
    BY <2>1 DEF e
<1>6. \A o \in Outputs : e.active[o] = IF o = m THEN w ELSE b.active[o]
  BY <1>4, <1>5, DeskFields
<1>7. Coming(e, N, d.mons)
  <2>1. \A o \in N : e.active[o] # None
    BY <1>0, <1>1, <1>4, <1>6 DEF N
  <2>2. \A o \in Outputs \ N : e.active[o] = None /\ e.special[o] = None
    BY <1>0, <1>4, <1>5, <1>6
  <2> QED
    BY <2>1, <2>2, <1>4, <1>5 DEF Coming
<1> QED
  BY <1>2, <1>7 DEF N

(* The loop of onConnect over all workspaces. *)
LEMMA ComingReturn ==
  ASSUME IdsNeverRunOut, setup \in Setups,
         NEW d, NEW N \in SUBSET Outputs, NEW mons, Coming(d, N, mons), ToSet(mons) \subseteq N,
         NEW m \in N
  PROVE  Coming(ReturnWorkspaces(d, m), N, mons)
<1> DEFINE s == d.ws
<1> DEFINE W == ToSet(s)
<1> DEFINE Here(e, w) == e.last[w] = m \/ Recovery(e, w)
<1> DEFINE Back(e, w) == [e EXCEPT !.last[w] = IF @ = m THEN None ELSE @]
<1> DEFINE Take(e, w) ==
             Back(IF Here(e, w) THEN MoveWorkspaceToMonitor(e, w, m, ToSet(d.ws)) ELSE e, w)
<1> DEFINE D == {e \in Desks : Coming(e, N, mons) /\ Live(d) \subseteq Live(e)}
<1> DEFINE g == [p \in D \X W |-> Take(p[1], p[2])]
<1> DEFINE Body(f) == [t \in SUBSET (DOMAIN s) |-> IF t = {} THEN d ELSE Take(f[t \ {Max(t)}], s[Max(t)])]
<1> DEFINE r == CHOOSE f : f = Body(f)
<1>0. d \in Desks
  BY DEF Coming
<1>1. s \in Seq(W) /\ W = Live(d)
  <2>1. s \in Seq(All)
    BY <1>0, DeskFields
  <2> HIDE DEF s
  <2>2. s \in Seq(W)
    BY <2>1 DEF ToSet
  <2> QED
    BY <2>2 DEF s, Live
<1>2. ASSUME NEW e \in D, NEW w \in W PROVE Take(e, w) \in D
  <2> DEFINE v == IF Here(e, w) THEN MoveWorkspaceToMonitor(e, w, m, ToSet(d.ws)) ELSE e
  <2>1. Coming(e, N, mons) /\ w \in Live(e) /\ Live(d) \subseteq Live(e)
    BY <1>1
  <2>2. v \in Desks /\ Coming(v, N, mons) /\ Live(d) \subseteq Live(v)
    <3>1. LET t == MoveWorkspaceToMonitor(e, w, m, Live(d)) IN
         /\ Coming(t, N, mons) /\ w \in Live(t) /\ t.home[w] = m
         /\ Live(e) \cap Live(d) \subseteq Live(t)
         /\ t.focus \in {e.focus, m}
      BY <2>1, ComingMove
    <3>2. v = e \/ v = MoveWorkspaceToMonitor(e, w, m, Live(d))
      BY DEF Live
    <3> HIDE DEF v
    <3> QED
      BY <2>1, <3>1, <3>2 DEF Coming
  <2> DEFINE l == IF v.last[w] = m THEN None ELSE v.last[w]
  <2>3. Take(e, w) = [v EXCEPT !.last[w] = l]
    OBVIOUS
  <2> HIDE DEF v, Take
  <2>4. l \in MonitorOrNone
    <3>1. w \in All
      BY <1>0, <1>1, DeskFields
    <3> QED
      BY <2>2, <3>1, DeskFields DEF MonitorOrNone
  <2> HIDE DEF l
  <2>5. LET t == [v EXCEPT !.last[w] = l] IN
         /\ t \in Desks /\ Fine(t, N) /\ t.mons = v.mons /\ t.active = v.active
         /\ t.special = v.special /\ t.focus = v.focus /\ Live(t) = Live(v)
    <3>1. Fine(v, N)
      BY <2>2 DEF Coming
    <3> QED
      BY <2>2, <2>4, <3>1, LastFine
  <2>6. Coming([v EXCEPT !.last[w] = l], N, mons)
    BY <2>2, <2>5 DEF Coming
  <2> QED
    BY <2>2, <2>3, <2>5, <2>6
<1>11. ReturnWorkspaces(d, m) = Collect(FoldLeft(Take, d, d.ws), {})
  BY DEF ReturnWorkspaces
<1> HIDE DEF Take, W
<1>3. Len(s) \in Nat /\ DOMAIN s = 1..Len(s) /\ d \in D
  <2>1. d \in D
    BY <1>0
  <2> HIDE DEF s
  <2> QED
    BY <2>1, <1>1
<1> HIDE DEF s
<1>4. g \in [D \X W -> D] /\ \A e \in D, w \in W : g[<<e, w>>] = Take(e, w)
  <2> HIDE DEF D
  <2> QED
    BY <1>2
<1>5. PICK f \in [SUBSET (1..Len(s)) -> D] : LoopBody(d, g, s, f)
  <2> HIDE DEF D, g
  <2> QED
    BY <1>1, <1>3, <1>4, LoopExists
<1>6. f = Body(f)
  <2> SUFFICES ASSUME NEW t \in SUBSET (1..Len(s))
               PROVE  f[t] = IF t = {} THEN d ELSE Take(f[t \ {Max(t)}], s[Max(t)])
    BY <1>3
  <2>1. f[t] = IF t = {} THEN d ELSE g[<<f[t \ {Max(t)}], s[Max(t)]>>]
    BY <1>5 DEF LoopBody
  <2>2. t # {} => Max(t) \in 1..Len(s) /\ f[t \ {Max(t)}] \in D
    BY <1>3, MaxIn
  <2>3. t # {} => s[Max(t)] \in W
    BY <2>2, <1>1, <1>3
  <2> HIDE DEF g, D
  <2> QED
    BY <2>1, <2>2, <2>3, <1>4
<1>7. r = Body(r)
  <2> HIDE DEF Body
  <2> QED
    BY <1>6
<1>8. FoldLeft(Take, d, s) = r[1..Len(s)]
  BY <1>3 DEF FoldLeft, MapThenFoldSet
<1> DEFINE P == [k \in 0..Len(s) |-> D]
<1>9. r[1..Len(s)] \in P[Len(s)]
  <2>1. P \in [0..Len(s) -> SUBSET D] /\ d \in P[0]
    BY <1>3
  <2>2. r[{}] = d
    BY <1>7
  <2>3. \A t \in SUBSET (1..Len(s)) :
            t # {} /\ r[t \ {Max(t)}] \in D => r[t] = g[<<r[t \ {Max(t)}], s[Max(t)]>>]
    <3> SUFFICES ASSUME NEW t \in SUBSET (1..Len(s)), t # {}, r[t \ {Max(t)}] \in D
                 PROVE  r[t] = g[<<r[t \ {Max(t)}], s[Max(t)]>>]
      OBVIOUS
    <3>1. Max(t) \in 1..Len(s)
      BY <1>3, MaxIn
    <3>2. s[Max(t)] \in W
      BY <3>1, <1>1, <1>3
    <3>3. r[t] = Take(r[t \ {Max(t)}], s[Max(t)])
      <4> HIDE DEF r
      <4> QED
        BY <1>7, <1>3
    <3> HIDE DEF r, g, D
    <3> QED
      BY <3>2, <3>3, <1>4
  <2>4. \A k \in 1..Len(s) : \A e \in P[k-1] : g[<<e, s[k]>>] \in P[k]
    <3> SUFFICES ASSUME NEW k \in 1..Len(s), NEW e \in P[k-1] PROVE g[<<e, s[k]>>] \in P[k]
      OBVIOUS
    <3>1. k - 1 \in 0..Len(s) /\ k \in 0..Len(s) /\ s[k] \in W
      BY <1>1, <1>3
    <3>2. P[k-1] = D /\ P[k] = D
      BY <3>1
    <3> HIDE DEF D, P, g
    <3> QED
      BY <3>1, <3>2, <1>4
  <2> HIDE DEF D, g, P, r
  <2> QED
    BY <2>1, <2>2, <2>3, <2>4, <1>1, <1>3, <1>4, LoopKeeps
<1> HIDE DEF r
<1>10. Len(s) \in 0..Len(s)
  BY <1>3
<1> DEFINE q == FoldLeft(Take, d, s)
<1>12. Coming(q, N, mons)
  BY <1>8, <1>9, <1>10
<1>13. ReturnWorkspaces(d, m) = Collect(q, {})
  BY <1>11 DEF s
<1> HIDE DEF q
<1>14. LET t == Collect(q, {}) IN
         /\ Coming(t, N, mons) /\ t.focus = q.focus
         /\ \A v \in All : v \in Live(q) /\ v \in {} => v \in Live(t)
  BY <1>12, ComingCollect
<1> QED
  BY <1>13, <1>14

(* The first monitor gets the focus. *)
LEMMA ComingFocus ==
  ASSUME NEW d, NEW N \in SUBSET Outputs, NEW mons, Coming(d, N, mons), NEW m \in N
  PROVE  Coming(WithFocus(d, m), N, mons) /\ WithFocus(d, m).focus # None
<1> DEFINE f == IF d.focus = None THEN m ELSE d.focus
<1>0. d \in Desks /\ Fine(d, N) /\ m # None
  BY NamesApart DEF Coming
<1>1. WithFocus(d, m) = [d EXCEPT !.focus = f]
  BY DEF WithFocus
<1>2. f \in N \cup {None, d.focus} /\ f # None
  BY <1>0
<1> HIDE DEF f
<1> DEFINE e == [d EXCEPT !.focus = f]
<1>3. e \in Desks /\ Fine(e, N)
  BY <1>0, <1>2, FocusFine
<1>4. e.mons = d.mons /\ e.active = d.active /\ e.special = d.special /\ e.focus = f
  BY <1>0 DEF Desks
<1> HIDE DEF e
<1>5. Coming(e, N, mons) /\ e.focus # None
  BY <1>2, <1>3, <1>4 DEF Coming
<1> QED
  BY <1>1, <1>5 DEF e

(* "if we saw this monitor before, set it to the workspace it was on" *)
LEMMA ComingRemembered ==
  ASSUME IdsNeverRunOut, setup \in Setups,
         NEW d, NEW N \in SUBSET Outputs, NEW mons, Coming(d, N, mons), ToSet(mons) \subseteq N,
         NEW m \in N, d.focus # None
  PROVE  Coming(ShowRemembered(d, m), N, mons) /\ ShowRemembered(d, m).focus # None
<1> DEFINE v == d.seen[m]
<1>0. d \in Desks /\ m \in Outputs /\ m # None
  BY NamesApart DEF Coming
<1>1. CASE v = None \/ v \notin Live(d)
  BY <1>1 DEF ShowRemembered, IsLive, Live
<1>2. CASE v # None /\ v \in Live(d)
  <2> DEFINE c == MoveWorkspaceToMonitor(d, v, m, {})
  <2> DEFINE e == Changed(c, c, m, v)
  <2>1. v \in Regular
    BY <1>0, <1>2, DeskFields
  <2>2. ShowRemembered(d, m) = ChangeWorkspace(c, m, v, TRUE)
    BY <1>2 DEF ShowRemembered, IsLive, Live
  <2> HIDE DEF v
  <2>3. ShowRemembered(d, m) = e
    BY <2>1, <2>2, OpenedIs
  <2>4. Coming(c, N, mons) /\ v \in Live(c) /\ c.home[v] = m /\ c.focus # None
    <3>1. LET t == MoveWorkspaceToMonitor(d, v, m, {}) IN
         /\ Coming(t, N, mons) /\ v \in Live(t) /\ t.home[v] = m
         /\ Live(d) \cap {} \subseteq Live(t)
         /\ t.focus \in {d.focus, m}
      BY <1>2, ComingMove
    <3> QED
      BY <3>1, <1>0
  <2> HIDE DEF c
  <2>5. /\ e \in Desks /\ Fine(e, N) /\ SameButWindows(c, e)
        /\ e.active = [c.active EXCEPT ![m] = v]
    <3>1. c \in Desks /\ Fine(c, N) /\ c \in {c, CarryPinned(c, c.active[m], v)}
      BY <2>4 DEF Coming
    <3>2. LET t == Changed(c, c, m, v) IN
         /\ t \in Desks /\ Fine(t, N) /\ SameButWindows(c, t)
         /\ t.active = [c.active EXCEPT ![m] = v]
         /\ \A x \in Windows : /\ t.winWs[x] \in {c.winWs[x], v}
                               /\ x \notin c.pinned => t.winWs[x] = c.winWs[x]
                               /\ c.winWs[x] # c.active[m] => t.winWs[x] = c.winWs[x]
      BY <2>1, <2>4, <3>1, ChangeFine
    <3> QED
      BY <3>2
  <2> HIDE DEF e
  <2>6. \A o \in Outputs : e.active[o] = IF o = m THEN v ELSE c.active[o]
    BY <2>4, <2>5, DeskFields DEF Coming
  <2>7. Coming(e, N, mons) /\ e.focus # None
    BY <2>1, <2>4, <2>5, <2>6, NamesApart DEF Coming, SameButWindows
  <2> QED
    BY <2>3, <2>7
<1> QED
  BY <1>1, <1>2

(* The monitor gets on the list. *)
LEMMA AddedSound ==
  ASSUME NEW d, NEW M \in SUBSET Outputs, NEW m \in Outputs, NEW mons \in Seq(Outputs), M = ToSet(mons),
         Coming(d, M \cup {m}, mons), d.focus # None, NEW found
  PROVE  Sound(Added(d, m, found))
<1> DEFINE f == IF found THEN d.focus ELSE m
<1> DEFINE ms == Append(mons, m)
<1> DEFINE N == M \cup {m}
<1> DEFINE e == [d EXCEPT !.focus = f, !.mons = ms]
<1>0. d \in Desks /\ Fine(d, N) /\ d.mons = mons /\ m # None /\ N \in SUBSET Outputs
  BY NamesApart DEF Coming
<1>1. f \in N /\ f # None /\ f \in MonitorOrNone
  BY <1>0 DEF Fine, MonitorOrNone
<1>2. ms \in Seq(Outputs) /\ ToSet(ms) = N
  BY AppendSet
<1>3. Added(d, m, found) = Collect(e, {})
  BY <1>0 DEF Added
<1> HIDE DEF f, ms
<1>4. /\ e \in Desks /\ e.mons = ms /\ e.ws = d.ws /\ e.active = d.active /\ e.special = d.special
      /\ e.home = d.home /\ e.visible = d.visible /\ e.persistent = d.persistent
      /\ e.focus = f /\ e.winMon = d.winMon /\ e.pinned = d.pinned /\ e.winWs = d.winWs
  BY <1>0, <1>1, <1>2 DEF Desks
<1> HIDE DEF e, N
<1>5. Fine(e, N)
  BY <1>0, <1>1, <1>4 DEF Fine, ShowsItsOwn, FlagAgrees, OnShow, Housed, Peopled, Beside, PinsMapped, Live
<1>6. On(e) = N
  BY <1>2, <1>4 DEF On
<1>7. Sound(e)
  BY <1>0, <1>1, <1>4, <1>5, <1>6 DEF Sound, Coming, N
<1>8. LET t == Collect(e, {}) IN Sound(t) /\ On(t) = On(e)
  BY <1>7, SoundCollect
<1> QED
  BY <1>3, <1>8

(* CMonitor::onConnect *)
LEMMA ConnectSound ==
  ASSUME IdsNeverRunOut, setup \in Setups, NEW d, Sound(d), NEW m \in Outputs, m \notin On(d)
  PROVE  Sound(OnConnect(d, m))
<1> DEFINE N == On(d) \cup {m}
<1> DEFINE mons == d.mons
<1> DEFINE a == SetupDefaultWS(d, m)
<1> DEFINE b == ReturnWorkspaces(a, m)
<1> DEFINE c == WithFocus(b, m)
<1> DEFINE e == ShowRemembered(c, m)
<1>0. N \in SUBSET Outputs /\ m \in N /\ ToSet(mons) \subseteq N /\ mons \in Seq(Outputs) /\ On(d) \in SUBSET Outputs
      /\ On(d) = ToSet(mons)
  BY SoundFields, DeskFields DEF On
<1>1. Coming(a, N, mons)
  BY ComingStart
<1>2. OnConnect(d, m) = Added(e, m, OnList(d, d.focus))
  BY DEF OnConnect
<1> DEFINE found == OnList(d, d.focus)
<1> HIDE DEF a, mons, N
<1>3. Coming(b, N, mons)
  BY <1>0, <1>1, ComingReturn
<1> HIDE DEF b
<1>4. Coming(c, N, mons) /\ c.focus # None
  BY <1>0, <1>3, ComingFocus
<1> HIDE DEF c
<1>5. Coming(e, N, mons) /\ e.focus # None
  BY <1>0, <1>4, ComingRemembered
<1> HIDE DEF e, found
<1>6. Coming(e, On(d) \cup {m}, mons)
  BY <1>5 DEF N
<1>7. Sound(Added(e, m, found))
  BY <1>0, <1>5, <1>6, AddedSound
<1> QED
  BY <1>2, <1>7 DEF found

(* Before the first output comes there is nothing. *)
LEMMA EmptySound == Sound(Empty) /\ On(Empty) = {}
<1> DEFINE e == Empty
<1>1. /\ e.mons = <<>> /\ e.ws = <<>> /\ e.active = [m \in Outputs |-> None]
      /\ e.special = [m \in Outputs |-> None] /\ e.home = [w \in All |-> None]
      /\ e.visible = {} /\ e.persistent = {} /\ e.focus = None
      /\ e.winWs = [x \in Windows |-> None] /\ e.winMon = [x \in Windows |-> None] /\ e.pinned = {}
      /\ e \in Desks
  <2>1. <<>> \in Seq(Outputs) /\ <<>> \in Seq(All)
    OBVIOUS
  <2> QED
    BY <2>1 DEF Empty, Desks, MonitorOrNone
<1> HIDE DEF e
<1>2. On(e) = {} /\ Live(e) = {}
  <2>1. <<>> \in Seq(Outputs) /\ <<>> \in Seq(All) /\ ToSet(<<>>) = {}
    BY DEF ToSet
  <2> QED
    BY <1>1, <2>1 DEF On, Live
<1>3. Fine(e, On(e))
  BY <1>1, <1>2 DEF Fine, ShowsItsOwn, FlagAgrees, OnShow, Housed, Peopled, Beside, PinsMapped
<1>4. Sound(e)
  BY <1>1, <1>2, <1>3 DEF Sound
<1> QED
  BY <1>2, <1>4 DEF e

(* onConnect leaves at most one function to doLater. *)
LEMMA WorkIn == Work \in {0, 1}
  BY DEF Work

(* The first output finds a sound desk. *)
LEMMA InitSound ==
  ASSUME IdsNeverRunOut, Init
  PROVE  IInv
<1>1. PICK m \in Real : setup \in Setups /\ desk = OnConnect(Empty, m) /\ ensure = Work
  BY DEF Init
<1>2. m \in Outputs
  BY NamesApart
<1>3. Sound(desk)
  BY <1>1, <1>2, EmptySound, ConnectSound
<1>4. ensure \in 0..Jobs
  BY <1>1, WorkIn, SetupAssumption
<1> QED
  BY <1>1, <1>3, <1>4 DEF IInv

(* An output that comes keeps the invariant. *)
LEMMA ConnectKeeps ==
  ASSUME IInv, IdsNeverRunOut, NEW m \in Outputs, m \notin On(desk),
         ensure < Jobs, Done(OnConnect(desk, m)), ensure' = ensure + Work
  PROVE  IInv'
<1>1. Sound(OnConnect(desk, m))
  BY ConnectSound DEF IInv
<1>2. Sound(desk') /\ setup' \in Setups
  BY <1>1, DoneSound DEF IInv
<1>3. ensure' \in 0..Jobs
  BY WorkIn, SetupAssumption DEF IInv
<1> QED
  BY <1>2, <1>3 DEF IInv

(* Noting where workspaces are to return changes nothing that shows. *)
LEMMA OwnedSound ==
  ASSUME NEW d, Sound(d), NEW m \in On(d)
  PROVE  LET e == Owned(d, m) IN
         /\ Sound(e) /\ e.mons = d.mons /\ e.ws = d.ws /\ e.home = d.home /\ e.pinned = d.pinned
         /\ e.persistent = d.persistent /\ e.winWs = d.winWs
         /\ e.active = d.active /\ e.special = d.special
<1> DEFINE sn == IF d.active[m] = None THEN d.seen[m] ELSE d.active[m]
<1> DEFINE la == [w \in All |-> IF w \in ToSet(Leaving(d, m)) /\ d.last[w] = None THEN m ELSE d.last[w]]
<1> DEFINE e == Owned(d, m)
<1>0. d \in Desks /\ Fine(d, On(d)) /\ On(d) \in SUBSET Outputs /\ m \in Outputs
  BY SoundFields
<1>1. e = [d EXCEPT !.seen[m] = sn, !.last = la]
  BY <1>0 DEF Owned, Desks
<1>2. sn \in Regular \cup {None} /\ la \in [All -> MonitorOrNone]
  BY <1>0, DeskFields DEF MonitorOrNone
<1> HIDE DEF sn, la, e
<1>3. /\ e \in Desks /\ e.mons = d.mons /\ e.ws = d.ws /\ e.active = d.active /\ e.special = d.special
      /\ e.home = d.home /\ e.visible = d.visible /\ e.persistent = d.persistent
      /\ e.focus = d.focus /\ e.winMon = d.winMon /\ e.pinned = d.pinned /\ e.winWs = d.winWs
  BY <1>0, <1>1, <1>2 DEF Desks
<1>4. Fine(e, On(d))
  BY <1>0, <1>3 DEF Fine, ShowsItsOwn, FlagAgrees, OnShow, Housed, Peopled, Beside, PinsMapped, Live
<1>5. \A o \in On(d) : e.active[o] # None
  BY <1>3, SoundFields, NamesApart
<1>6. Sound(e)
  BY <1>3, <1>4, <1>5, SoundStep
<1> QED
  BY <1>3, <1>6 DEF e

(* The workspaces that leave are those of m: all have a monitor. *)
LEMMA LeavingSet ==
  ASSUME NEW d, Sound(d), NEW m \in On(d)
  PROVE  /\ Leaving(d, m) \in Seq(ToSet(Leaving(d, m)))
         /\ ToSet(Leaving(d, m)) = {w \in Live(d) : d.home[w] = m}
<1> DEFINE T == {w \in All : d.home[w] \in {m, None}}
<1>0. d.ws \in Seq(All) /\ d \in Desks
  BY SoundFields, DeskFields
<1> HIDE DEF T
<1>1. Only(d.ws, T) \in Seq(All) /\ ToSet(Only(d.ws, T)) = Live(d) \cap T
  BY <1>0, OnlySet DEF Live
<1>2. Leaving(d, m) = Only(d.ws, T)
  BY DEF Leaving, T
<1>3. ToSet(Leaving(d, m)) = {w \in Live(d) : d.home[w] = m}
  BY <1>1, <1>2, SoundFields DEF T
<1>4. Leaving(d, m) \in Seq(ToSet(Leaving(d, m)))
  <2> DEFINE s == Only(d.ws, T)
  <2> HIDE DEF s
  <2>1. s \in Seq(All) => s \in Seq(ToSet(s))
    BY DEF ToSet
  <2> QED
    BY <2>1, <1>1, <1>2 DEF s
<1> QED
  BY <1>3, <1>4

(* A workspace that only plugs the gap on a monitor that goes. *)
Plug(e, v) == v \in Regular /\ v \notin e.persistent /\ \A x \in Windows : e.winWs[x] # v

(* A desk while the workspaces of ss leave m for backup. *)
Going(d, e, m, backup, ss) ==
  /\ e \in Desks /\ Sound(e) /\ e.mons = d.mons /\ e.pinned = d.pinned
  /\ ss \subseteq Live(e) /\ \A v \in ss : e.home[v] \in {m, backup}
  /\ \A x \in e.pinned : e.home[e.winWs[x]] # m
  /\ d.persistent \subseteq e.persistent
  /\ \A v \in Live(e) : e.home[v] = m => v \in ss \/ Plug(e, v)

(* Each of them goes, and leaves at most a plug behind. *)
LEMMA GoingMove ==
  ASSUME IdsNeverRunOut, setup \in Setups,
         NEW d, Sound(d), NEW m \in On(d), NEW backup \in On(d), backup # m,
         \A w \in ToSet(setup.persistent) : BoundMonitor(d, w) \in {None, m} => w \in d.persistent,
         NEW ss, NEW e, Going(d, e, m, backup, ss), NEW w \in ss
  PROVE  LET f == MoveWorkspaceToMonitor(e, w, backup, ss) IN
         /\ Going(d, f, m, backup, ss) /\ f.home[w] = backup
         /\ \A v \in ss : e.home[v] = backup => f.home[v] = backup
<1> DEFINE f == MoveWorkspaceToMonitor(e, w, backup, ss)
<1>0. /\ Sound(e) /\ On(e) = On(d) /\ e \in Desks /\ Fine(e, On(e)) /\ On(d) \in SUBSET Outputs
      /\ w \in Live(e) /\ backup # None /\ e.home[w] \in {m, backup}
  BY SoundFields DEF Going, On
<1>1. CASE e.home[w] = backup
  <2>1. f = e
    BY <1>1 DEF MoveWorkspaceToMonitor
  <2> QED
    BY <2>1, <1>1
<1>2. CASE e.home[w] = m
  <2>1. Moved(e, f, w, backup, On(e), ss)
    <3>1. ToSet(e.mons) \subseteq On(e)
      BY DEF On
    <3> QED
      BY <3>1, <1>0, MoveFine
  <2>2. LET t == MoveWorkspaceToMonitor(e, w, backup, ss) IN
         /\ Sound(t) /\ On(t) = On(e) /\ w \in Live(t) /\ t.home[w] = backup
         /\ Live(e) \cap ss \subseteq Live(t) /\ e.persistent \subseteq t.persistent
         /\ t.focus \in {e.focus, backup}
    BY <1>0, SoundMove
  <2> HIDE DEF f
  <2>3. /\ Sound(f) /\ f \in Desks /\ f.mons = d.mons /\ f.pinned = d.pinned /\ e.pinned = d.pinned
        /\ ss \subseteq Live(f) /\ d.persistent \subseteq f.persistent
        /\ f.home[w] = backup
    <3>1. Sound(f) /\ Live(e) \cap ss \subseteq Live(f) /\ e.persistent \subseteq f.persistent /\ f.home[w] = backup
      BY <2>2 DEF f
    <3>2. f \in Desks /\ f.mons = e.mons /\ f.pinned = e.pinned
      BY <2>1 DEF Moved
    <3> QED
      BY <3>1, <3>2 DEF Going
  <2>4. \A v \in ss : e.home[v] = backup => f.home[v] = backup
    BY <2>1, <2>3, <1>0, <1>2 DEF Moved, Traced, Going
  <2>5. \A v \in ss : f.home[v] \in {m, backup}
    BY <2>1, <2>3, <1>0, <1>2 DEF Moved, Traced, Going
  <2>6. \A x \in Windows : f.winWs[x] = e.winWs[x]
    <3> SUFFICES ASSUME NEW x \in Windows PROVE f.winWs[x] = e.winWs[x]
      OBVIOUS
    <3>1. x \in e.pinned => e.winWs[x] # w
      BY <1>2 DEF Going
    <3> QED
      BY <3>1, <2>1 DEF Moved
  <2>7. \A x \in Windows : e.winWs[x] # None => e.winWs[x] \in Live(e)
    BY <1>0 DEF Fine, Peopled
  <2>8. \A x \in f.pinned : f.home[f.winWs[x]] # m
    <3> SUFFICES ASSUME NEW x \in f.pinned PROVE f.home[f.winWs[x]] # m
      OBVIOUS
    <3>1. x \in e.pinned /\ x \in Windows
      BY <2>3, <1>0, DeskFields
    <3>2. e.winWs[x] # None
      BY <3>1, <1>0 DEF Fine, PinsMapped
    <3>3. f.winWs[x] = e.winWs[x] /\ e.winWs[x] \in Live(e)
      BY <3>1, <3>2, <2>6, <2>7
    <3>4. f.winWs[x] \in Live(f)
      <4>1. Fine(f, On(e))
        BY <2>1 DEF Moved
      <4> QED
        BY <4>1, <3>1, <3>2, <3>3 DEF Fine, Peopled
    <3>5. Traced(e, f, w, f.winWs[x])
      BY <3>4, <2>1 DEF Moved
    <3>6. e.home[e.winWs[x]] # m
      BY <3>1 DEF Going
    <3> QED
      BY <3>3, <3>5, <3>6, <2>3 DEF Traced
  <2>9. ASSUME NEW v \in Live(f), f.home[v] = m PROVE v \in ss \/ Plug(f, v)
    <3>1. Traced(e, f, w, v)
      BY <2>1 DEF Moved
    <3>2. CASE v = w
      BY <3>2
    <3>3. CASE v \in Live(e) /\ f.home[v] = e.home[v]
      <4>1. v \in ss \/ Plug(e, v)
        BY <3>3, <2>9 DEF Going
      <4>2. v \in f.persistent => v \in e.persistent
        BY <3>3, <2>1 DEF Moved
      <4> QED
        BY <4>1, <4>2, <2>6 DEF Plug
    <3>4. CASE v \in Regular \ Live(e) /\ BoundMonitor(e, v) \in {None, e.home[w]}
      <4>1. BoundMonitor(e, v) = BoundMonitor(d, v)
        BY DEF BoundMonitor, OnList, Going
      <4>2. v \notin d.persistent /\ v \notin e.persistent
        BY <3>4, <1>0 DEF Fine, Going
      <4>3. v \notin ToSet(setup.persistent)
        BY <3>4, <4>1, <4>2, <1>2
      <4>4. v \notin f.persistent
        BY <4>2, <4>3, <2>1 DEF Moved
      <4>5. \A x \in Windows : f.winWs[x] # v
        BY <3>4, <2>6, <2>7, NamesApart
      <4> QED
        BY <3>4, <4>4, <4>5 DEF Plug
    <3> QED
      BY <3>1, <3>2, <3>3, <3>4 DEF Traced
  <2>10. Going(d, f, m, backup, ss)
    BY <2>3, <2>5, <2>8, <2>9 DEF Going
  <2> QED
    BY <2>3, <2>4, <2>10 DEF f
<1> QED
  BY <1>0, <1>1, <1>2

(* onDisconnect before the monitor is taken off the list. *)
Departed(d, m, backup) ==
  LET Away(e, w) == MoveWorkspaceToMonitor(e, w, backup, ToSet(Leaving(d, m)))
  IN FoldLeft(Away, Owned(d, m), Leaving(d, m))

(* The loop of onDisconnect: what is left on m only plugs the gap. *)
LEMMA LeftBehind ==
  ASSUME IdsNeverRunOut, setup \in Setups,
         NEW d, Sound(d), NEW m \in On(d), NEW backup \in On(d), backup # m,
         \A w \in ToSet(setup.persistent) : BoundMonitor(d, w) \in {None, m} => w \in d.persistent,
         \A x \in d.pinned : d.home[d.winWs[x]] # m
  PROVE  LET q == Departed(d, m, backup) IN
         /\ Sound(q) /\ q.mons = d.mons
         /\ \A v \in Live(q) : q.home[v] = m => Plug(q, v)
<1> DEFINE q == Departed(d, m, backup)
<1> DEFINE s == Leaving(d, m)
<1> DEFINE W == ToSet(s)
<1> DEFINE b == Owned(d, m)
<1> DEFINE Away(e, w) == MoveWorkspaceToMonitor(e, w, backup, ToSet(Leaving(d, m)))
<1> DEFINE D == {e \in Desks : Going(d, e, m, backup, W)}
<1> DEFINE g == [p \in D \X W |-> Away(p[1], p[2])]
<1> DEFINE Body(f) == [t \in SUBSET (DOMAIN s) |-> IF t = {} THEN b ELSE Away(f[t \ {Max(t)}], s[Max(t)])]
<1> DEFINE r == CHOOSE f : f = Body(f)
<1>1. s \in Seq(W) /\ W = {w \in Live(d) : d.home[w] = m}
  BY LeavingSet
<1>2. ASSUME NEW e \in D, NEW w \in W
      PROVE  /\ Away(e, w) \in D /\ Away(e, w).home[w] = backup
             /\ \A v \in W : e.home[v] = backup => Away(e, w).home[v] = backup
  <2> HIDE DEF W
  <2>1. Going(d, e, m, backup, W)
    OBVIOUS
  <2>2. LET f == MoveWorkspaceToMonitor(e, w, backup, W) IN
         /\ Going(d, f, m, backup, W) /\ f.home[w] = backup
         /\ \A v \in W : e.home[v] = backup => f.home[v] = backup
    BY <2>1, GoingMove
  <2>3. Away(e, w) = MoveWorkspaceToMonitor(e, w, backup, W)
    BY DEF W
  <2> HIDE DEF Away
  <2> QED
    BY <2>2, <2>3 DEF Going
<1> HIDE DEF q, Away, W
<1>3. Len(s) \in Nat /\ DOMAIN s = 1..Len(s) /\ b \in D
  <2>1. LET e == Owned(d, m) IN
         /\ Sound(e) /\ e.mons = d.mons /\ e.ws = d.ws /\ e.home = d.home /\ e.pinned = d.pinned
         /\ e.persistent = d.persistent /\ e.winWs = d.winWs
         /\ e.active = d.active /\ e.special = d.special
    BY OwnedSound
  <2> HIDE DEF b
  <2>2. /\ Sound(b) /\ b.mons = d.mons /\ b.ws = d.ws /\ b.home = d.home /\ b.pinned = d.pinned
        /\ b.persistent = d.persistent /\ b.winWs = d.winWs
    BY <2>1 DEF b
  <2>3. b \in Desks /\ Live(b) = Live(d)
    BY <2>2, SoundFields DEF Live
  <2>4. Going(d, b, m, backup, W)
    BY <1>1, <2>2, <2>3 DEF Going
  <2> HIDE DEF s
  <2> QED
    BY <1>1, <2>3, <2>4
<1> HIDE DEF s, b
<1>4. g \in [D \X W -> D] /\ \A e \in D, w \in W : g[<<e, w>>] = Away(e, w)
  <2> HIDE DEF D
  <2> QED
    BY <1>2
<1>5. PICK f \in [SUBSET (1..Len(s)) -> D] : LoopBody(b, g, s, f)
  <2> HIDE DEF D, g
  <2> QED
    BY <1>1, <1>3, <1>4, LoopExists
<1>6. f = Body(f)
  <2> SUFFICES ASSUME NEW t \in SUBSET (1..Len(s))
               PROVE  f[t] = IF t = {} THEN b ELSE Away(f[t \ {Max(t)}], s[Max(t)])
    BY <1>3
  <2>1. f[t] = IF t = {} THEN b ELSE g[<<f[t \ {Max(t)}], s[Max(t)]>>]
    BY <1>5 DEF LoopBody
  <2>2. t # {} => Max(t) \in 1..Len(s) /\ f[t \ {Max(t)}] \in D
    BY <1>3, MaxIn
  <2>3. t # {} => s[Max(t)] \in W
    BY <2>2, <1>1, <1>3
  <2> HIDE DEF g, D
  <2> QED
    BY <2>1, <2>2, <2>3, <1>4
<1>7. r = Body(r)
  <2> HIDE DEF Body
  <2> QED
    BY <1>6
<1>8. q = r[1..Len(s)]
  BY <1>3 DEF Departed, FoldLeft, MapThenFoldSet, Away, q, s, b
<1> DEFINE P == [k \in 0..Len(s) |-> {e \in D : \A i \in 1..k : e.home[s[i]] = backup}]
<1>9. r[1..Len(s)] \in P[Len(s)]
  <2>1. P \in [0..Len(s) -> SUBSET D] /\ b \in P[0]
    BY <1>3
  <2>2. r[{}] = b
    BY <1>7
  <2>3. \A t \in SUBSET (1..Len(s)) :
            t # {} /\ r[t \ {Max(t)}] \in D => r[t] = g[<<r[t \ {Max(t)}], s[Max(t)]>>]
    <3> SUFFICES ASSUME NEW t \in SUBSET (1..Len(s)), t # {}, r[t \ {Max(t)}] \in D
                 PROVE  r[t] = g[<<r[t \ {Max(t)}], s[Max(t)]>>]
      OBVIOUS
    <3>1. Max(t) \in 1..Len(s)
      BY <1>3, MaxIn
    <3>2. s[Max(t)] \in W
      BY <3>1, <1>1, <1>3
    <3>3. r[t] = Away(r[t \ {Max(t)}], s[Max(t)])
      <4> HIDE DEF r
      <4> QED
        BY <1>7, <1>3
    <3> HIDE DEF r, g, D
    <3> QED
      BY <3>2, <3>3, <1>4
  <2>4. \A k \in 1..Len(s) : \A e \in P[k-1] : g[<<e, s[k]>>] \in P[k]
    <3> SUFFICES ASSUME NEW k \in 1..Len(s), NEW e \in P[k-1] PROVE g[<<e, s[k]>>] \in P[k]
      OBVIOUS
    <3>1. k - 1 \in 0..Len(s) /\ k \in 0..Len(s) /\ s[k] \in W
      BY <1>1, <1>3
    <3>2. e \in D /\ \A i \in 1..(k-1) : e.home[s[i]] = backup
      BY <3>1
    <3>3. \A i \in 1..k : s[i] \in W /\ (i = k \/ i \in 1..(k-1))
      BY <1>1, <1>3
    <3>4. g[<<e, s[k]>>] = Away(e, s[k])
      BY <3>1, <3>2, <1>4
    <3> HIDE DEF D, g
    <3>5. Away(e, s[k]) \in D /\ \A i \in 1..k : Away(e, s[k]).home[s[i]] = backup
      BY <3>1, <3>2, <3>3, <1>2
    <3> QED
      BY <3>1, <3>4, <3>5
  <2> HIDE DEF D, g, P, r
  <2> QED
    BY <2>1, <2>2, <2>3, <2>4, <1>1, <1>3, <1>4, LoopKeeps
<1> HIDE DEF r
<1>10. Len(s) \in 0..Len(s)
  BY <1>3
<1>12. q \in D /\ \A i \in 1..Len(s) : q.home[s[i]] = backup
  BY <1>8, <1>9, <1>10
<1>13. \A v \in W : q.home[v] = backup
  BY <1>3, <1>12 DEF W, ToSet
<1> QED
  BY <1>12, <1>13 DEF q, Going

(* With no other monitor the desk is given up as it is. *)
LEMMA LeftAlone ==
  ASSUME setup \in Setups,
         NEW d, Sound(d), NEW m \in On(d), Live(d) = {d.active[m]}, d.persistent = {},
         \A x \in Windows : d.winWs[x] = None
  PROVE  LET q == Departed(d, m, None) IN
         /\ Sound(q) /\ q.mons = d.mons
         /\ \A v \in Live(q) : q.home[v] = m => Plug(q, v)
<1> DEFINE q == Departed(d, m, None)
<1> DEFINE s == Leaving(d, m)
<1> DEFINE W == ToSet(s)
<1> DEFINE b == Owned(d, m)
<1> DEFINE Away(e, w) == MoveWorkspaceToMonitor(e, w, None, ToSet(Leaving(d, m)))
<1> DEFINE D == {b}
<1> DEFINE g == [p \in D \X W |-> b]
<1> DEFINE Body(f) == [t \in SUBSET (DOMAIN s) |-> IF t = {} THEN b ELSE Away(f[t \ {Max(t)}], s[Max(t)])]
<1> DEFINE r == CHOOSE f : f = Body(f)
<1>1. s \in Seq(W)
  BY LeavingSet
<1>2. \A e, w : Away(e, w) = e
  BY DEF MoveWorkspaceToMonitor
<1> HIDE DEF q, Away, W, s, b
<1>3. Len(s) \in Nat /\ DOMAIN s = 1..Len(s)
  BY <1>1
<1> DEFINE f == [t \in SUBSET (1..Len(s)) |-> b]
<1>6. f = Body(f)
  <2> SUFFICES ASSUME NEW t \in SUBSET (1..Len(s))
               PROVE  f[t] = IF t = {} THEN b ELSE Away(f[t \ {Max(t)}], s[Max(t)])
    BY <1>3
  <2>1. t \ {Max(t)} \in SUBSET (1..Len(s))
    OBVIOUS
  <2> QED
    BY <2>1, <1>2
<1>7. r = Body(r)
  <2> HIDE DEF Body
  <2> QED
    BY <1>6
<1>8. q = r[1..Len(s)]
  BY <1>3 DEF Departed, FoldLeft, MapThenFoldSet, Away, q, s, b
<1> DEFINE P == [k \in 0..Len(s) |-> D]
<1>9. r[1..Len(s)] \in P[Len(s)]
  <2>1. P \in [0..Len(s) -> SUBSET D] /\ b \in P[0] /\ b \in D
    BY <1>3
  <2>2. r[{}] = b
    BY <1>7
  <2>3. \A t \in SUBSET (1..Len(s)) :
            t # {} /\ r[t \ {Max(t)}] \in D => r[t] = g[<<r[t \ {Max(t)}], s[Max(t)]>>]
    <3> SUFFICES ASSUME NEW t \in SUBSET (1..Len(s)), t # {}, r[t \ {Max(t)}] \in D
                 PROVE  r[t] = g[<<r[t \ {Max(t)}], s[Max(t)]>>]
      OBVIOUS
    <3>1. Max(t) \in 1..Len(s)
      BY <1>3, MaxIn
    <3>2. s[Max(t)] \in W
      BY <3>1, <1>1, <1>3
    <3>3. r[t] = Away(r[t \ {Max(t)}], s[Max(t)])
      <4> HIDE DEF r
      <4> QED
        BY <1>7, <1>3
    <3>4. r[t] = b
      BY <3>3, <1>2
    <3> HIDE DEF r
    <3> QED
      BY <3>2, <3>4
  <2>4. g \in [D \X W -> D] /\ \A k \in 1..Len(s) : \A e \in P[k-1] : g[<<e, s[k]>>] \in P[k]
    <3> SUFFICES ASSUME NEW k \in 1..Len(s), NEW e \in P[k-1] PROVE g[<<e, s[k]>>] \in P[k]
      OBVIOUS
    <3>1. k - 1 \in 0..Len(s) /\ k \in 0..Len(s) /\ s[k] \in W
      BY <1>1, <1>3
    <3>2. P[k-1] = D /\ P[k] = D
      BY <3>1
    <3> QED
      BY <3>1, <3>2
  <2> HIDE DEF D, g, P, r
  <2> QED
    BY <2>1, <2>2, <2>3, <2>4, <1>1, <1>3, LoopKeeps
<1> HIDE DEF r
<1>10. Len(s) \in 0..Len(s)
  BY <1>3
<1>12. q = Owned(d, m)
  BY <1>8, <1>9, <1>10 DEF b
<1>13. LET e == Owned(d, m) IN
         /\ Sound(e) /\ e.mons = d.mons /\ e.ws = d.ws /\ e.home = d.home /\ e.pinned = d.pinned
         /\ e.persistent = d.persistent /\ e.winWs = d.winWs
         /\ e.active = d.active /\ e.special = d.special
  BY OwnedSound
<1>14. d.active[m] \in Regular /\ d.active[m] # None
  BY SoundFields, NamesApart
<1> QED
  BY <1>12, <1>13, <1>14 DEF q, Plug, Live

(* The monitor leaves the list with the plugs it still has. *)
LEMMA RemovedSound ==
  ASSUME NEW q, Sound(q), NEW m \in On(q), \A v \in Live(q) : q.home[v] = m => Plug(q, v),
         NEW others \in Seq(Outputs), ToSet(others) = On(q) \ {m},
         NEW backup, IF others = <<>> THEN backup = None ELSE backup \in ToSet(others)
  PROVE  LET e == Removed(q, m, others, backup) IN Sound(e) /\ On(e) = On(q) \ {m}
<1> DEFINE N == On(q) \ {m}
<1> DEFINE f == IF backup = None \/ q.focus = m THEN backup ELSE q.focus
<1> DEFINE vis == q.visible \ {q.active[m]}
<1> DEFINE c == [q EXCEPT !.visible = vis, !.active[m] = None, !.focus = f, !.mons = others]
<1> DEFINE e == Collect(c, {})
<1>0. /\ q \in Desks /\ Fine(q, On(q)) /\ On(q) \in SUBSET Outputs /\ m \in Outputs /\ m # None
      /\ q.active[m] \in Regular /\ q.focus # None /\ q.focus \in On(q)
  BY SoundFields DEF Sound
<1>1. q.special[m] = None
  <2> SUFFICES ASSUME q.special[m] # None PROVE FALSE
    OBVIOUS
  <2>1. q.special[m] \in Special /\ q.special[m] \in Live(q) /\ q.home[q.special[m]] = m
    BY <1>0, SoundFields
  <2> QED
    BY <2>1, NamesApart DEF Plug
<1>2. /\ f \in N \cup {None} /\ f \in MonitorOrNone /\ (N # {} => f # None)
      /\ vis \in SUBSET All /\ ToSet(others) = N
  <2>1. others = <<>> <=> N = {}
    BY HeadIn
  <2>2. q.visible \in SUBSET All
    BY <1>0 DEF Desks
  <2>3. None \notin N
    BY <1>0, NamesApart
  <2> QED
    BY <1>0, <2>1, <2>2, <2>3 DEF MonitorOrNone
<1>3. Removed(q, m, others, backup) = e
  BY DEF Removed
<1> HIDE DEF f, vis
<1>4. /\ c \in Desks /\ c.mons = others /\ c.ws = q.ws /\ c.special = q.special
      /\ c.active = [q.active EXCEPT ![m] = None]
      /\ c.home = q.home /\ c.visible = vis /\ c.persistent = q.persistent
      /\ c.focus = f /\ c.winMon = q.winMon /\ c.pinned = q.pinned /\ c.winWs = q.winWs
  BY <1>0, <1>2 DEF Desks
<1> HIDE DEF c
<1>5. c.active[m] = None /\ \A o \in Outputs \ {m} : c.active[o] = q.active[o]
  BY <1>0, <1>4, DeskFields
<1>6. ShowsItsOwn(c)
  BY <1>0, <1>4, <1>5 DEF Fine, ShowsItsOwn, Live
<1>7. FlagAgrees(c)
  <2> SUFFICES ASSUME NEW w \in All PROVE w \in c.visible <=> OnShow(c, w)
    BY DEF FlagAgrees
  <2>1. w \in q.visible <=> OnShow(q, w)
    BY <1>0 DEF Fine, FlagAgrees
  <2>2. w \in c.visible <=> w \in q.visible /\ w # q.active[m]
    BY <1>4 DEF vis
  <2>3. c.home[w] = q.home[w] /\ q.home[w] \in Outputs \cup {None} /\ w # None
    BY <1>0, <1>4, DeskFields, NamesApart
  <2>4. q.home[q.active[m]] = m
    BY SoundFields
  <2>5. CASE q.home[w] = m
    BY <1>1, <1>4, <1>5, <2>1, <2>2, <2>3, <2>5 DEF OnShow
  <2>6. CASE q.home[w] # m
    BY <1>4, <1>5, <2>1, <2>2, <2>3, <2>4, <2>6 DEF OnShow
  <2> QED
    BY <2>5, <2>6
<1>8. Fine(c, On(q))
  <2>1. c.focus \in On(q) \cup {None}
    BY <1>2, <1>4
  <2> QED
    BY <1>0, <1>4, <1>6, <1>7, <2>1 DEF Fine, Housed, Peopled, Beside, PinsMapped, Live
<1>9. /\ e \in Desks /\ Fine(e, On(q)) /\ SameButLives(c, e) /\ Live(e) = Live(c) \cap Held(c)
      /\ \A v \in All : e.home[v] = (IF v \in Held(c) THEN c.home[v] ELSE None)
  <2>1. LET t == Collect(c, {}) IN
         /\ t \in Desks /\ Fine(t, On(q)) /\ SameButLives(c, t)
         /\ Live(t) = Live(c) \cap (Held(c) \cup {})
         /\ \A v \in All : t.home[v] = (IF v \in Held(c) \cup {} THEN c.home[v] ELSE None)
         /\ \A v \in All : t.last[v] = (IF v \in Held(c) \cup {} THEN c.last[v] ELSE None)
    <3> HIDE DEF e
    <3> QED
      BY <1>0, <1>4, <1>8, CollectFine
  <2> QED
    BY <2>1
<1> HIDE DEF e
<1>10. \A v \in Live(e) : e.home[v] # m
  <2> SUFFICES ASSUME NEW v \in Live(e), e.home[v] = m PROVE FALSE
    OBVIOUS
  <2>1. v \in Live(q) /\ v \in Held(c) /\ v \in All
    BY <1>4, <1>9, <1>0, SoundFields DEF Live
  <2>2. q.home[v] = m
    BY <2>1, <1>4, <1>9
  <2>3. v \in Regular /\ v \notin Special /\ v # None /\ v \notin q.persistent /\ \A x \in Windows : q.winWs[x] # v
    BY <2>1, <2>2, NamesApart DEF Plug
  <2>4. \A o \in Outputs : c.special[o] # v
    BY <2>3, <1>0, <1>4, DeskFields
  <2>5. \A o \in Outputs : c.active[o] # v
    <3> SUFFICES ASSUME NEW o \in Outputs, c.active[o] = v PROVE FALSE
      OBVIOUS
    <3>1. o # m /\ q.active[o] = v
      BY <1>5, <2>3
    <3>2. q.home[v] = o
      BY <3>1, <2>3, <1>0 DEF Fine, ShowsItsOwn
    <3> QED
      BY <3>1, <3>2, <2>2
  <2> QED
    BY <1>4, <2>1, <2>3, <2>4, <2>5 DEF Held
<1>11. Fine(e, N)
  <2>1. Housed(e, N)
    BY <1>9, <1>10 DEF Fine, Housed
  <2>2. e.focus \in N \cup {None}
    BY <1>2, <1>4, <1>9 DEF SameButLives
  <2> QED
    BY <1>9, <2>1, <2>2 DEF Fine
<1>12. On(e) = N /\ e.active = c.active /\ e.special = q.special /\ e.focus = f
  BY <1>2, <1>4, <1>9 DEF SameButLives, On
<1>13. Sound(e)
  <2>1. \A o \in Outputs : e.active[o] # None <=> o \in N
    BY <1>5, <1>12 DEF Sound
  <2>2. \A o \in Outputs : e.special[o] # None => o \in N
    BY <1>1, <1>12 DEF Sound
  <2> QED
    BY <1>2, <1>9, <1>11, <1>12, <2>1, <2>2 DEF Sound
<1> QED
  BY <1>3, <1>12, <1>13 DEF N

(* CMonitor::onDisconnect *)
LEMMA DisconnectSound ==
  ASSUME IdsNeverRunOut, setup \in Setups, Sound(desk), NEW m \in On(desk), NothingLeft(m)
  PROVE  LET e == OnDisconnect(desk, m) IN Sound(e) /\ On(e) = On(desk) \ {m}
<1> DEFINE others == Only(desk.mons, Outputs \ {m})
<1> DEFINE backup == IF others = <<>> THEN None ELSE Head(others)
<1> DEFINE q == Departed(desk, m, backup)
<1>1. OnDisconnect(desk, m) = Removed(q, m, others, backup)
  BY DEF OnDisconnect, Departed
<1>2. others \in Seq(Outputs) /\ ToSet(others) = On(desk) \ {m}
  <2>1. desk.mons \in Seq(Outputs) /\ On(desk) \in SUBSET Outputs
    BY SoundFields, DeskFields
  <2>2. others \in Seq(Outputs) /\ ToSet(others) = ToSet(desk.mons) \cap (Outputs \ {m})
    BY <2>1, OnlySet
  <2> QED
    BY <2>1, <2>2 DEF On
<1> HIDE DEF others
<1>3. /\ others = <<>> <=> On(desk) \ {m} = {}
      /\ IF others = <<>> THEN backup = None ELSE backup \in ToSet(others)
  BY <1>2, HeadIn
<1> HIDE DEF backup
<1>4. Sound(q) /\ q.mons = desk.mons /\ \A v \in Live(q) : q.home[v] = m => Plug(q, v)
  <2>1. CASE On(desk) # {m}
    <3>1. backup \in On(desk) /\ backup # m
      BY <1>2, <1>3, <2>1
    <3>2. /\ \A w \in ToSet(setup.persistent) : BoundMonitor(desk, w) \in {None, m} => w \in desk.persistent
          /\ \A x \in desk.pinned : desk.home[desk.winWs[x]] # m
      BY <2>1 DEF NothingLeft, Monitors, On
    <3>3. LET t == Departed(desk, m, backup) IN
         /\ Sound(t) /\ t.mons = desk.mons
         /\ \A v \in Live(t) : t.home[v] = m => Plug(t, v)
      BY <3>1, <3>2, LeftBehind
    <3> QED
      BY <3>3
  <2>2. CASE On(desk) = {m}
    <3>1. backup = None
      BY <1>3, <2>2
    <3>2. Live(desk) = {desk.active[m]} /\ desk.persistent = {} /\ \A x \in Windows : desk.winWs[x] = None
      BY <2>2 DEF NothingLeft, Monitors, On, Live
    <3>3. LET t == Departed(desk, m, None) IN
         /\ Sound(t) /\ t.mons = desk.mons
         /\ \A v \in Live(t) : t.home[v] = m => Plug(t, v)
      BY <3>2, LeftAlone
    <3> QED
      BY <3>1, <3>3
  <2> QED
    BY <2>1, <2>2
<1> HIDE DEF q
<1>5. On(q) = On(desk)
  BY <1>4 DEF On
<1>6. LET e == Removed(q, m, others, backup) IN Sound(e) /\ On(e) = On(q) \ {m}
  BY <1>2, <1>3, <1>4, <1>5, RemovedSound
<1> QED
  BY <1>1, <1>5, <1>6

(* The object of a monitor off the list is destroyed. *)
LEMMA DestroyedSound ==
  ASSUME NEW d, Sound(d), NEW m \in Outputs, m \notin On(d)
  PROVE  Sound(Destroyed(d, m))
<1> DEFINE c == [d EXCEPT !.special[m] = None,
                    !.home = [w \in All |-> IF @[w] = m THEN None ELSE @[w]],
                    !.winMon = [x \in Windows |-> IF @[x] = m THEN None ELSE @[x]]]
<1> DEFINE home == [w \in All |-> IF d.home[w] = m THEN None ELSE d.home[w]]
<1> DEFINE mon == [x \in Windows |-> IF d.winMon[x] = m THEN None ELSE d.winMon[x]]
<1> DEFINE b == [d EXCEPT !.winMon = mon]
<1>0. d \in Desks /\ Fine(d, On(d)) /\ On(d) \in SUBSET Outputs /\ d.special[m] = None
  BY SoundFields DEF Sound
<1>1. d.home \in [All -> Outputs \cup {None}] /\ d.special \in [Outputs -> Special \cup {None}]
      /\ d.winMon \in [Windows -> Outputs \cup {None}]
  BY <1>0, DeskFields
<1>2. home = d.home
  <2>1. \A w \in All : d.home[w] # m
    BY <1>0, NamesApart DEF Fine, Housed
  <2> QED
    BY <1>1, <2>1
<1>3. [d.special EXCEPT ![m] = None] = d.special
  BY <1>0, <1>1
<1>4. c = b
  <2>1. c = [d EXCEPT !.special = [d.special EXCEPT ![m] = None], !.home = home, !.winMon = mon]
    BY <1>0 DEF Desks
  <2>2. [d EXCEPT !.special = d.special, !.home = d.home, !.winMon = mon] = b
    <3> HIDE DEF mon
    <3> QED
      BY <1>0 DEF Desks
  <2> QED
    BY <1>2, <1>3, <2>1, <2>2
<1>5. mon \in [Windows -> MonitorOrNone] /\ \A x \in Windows : d.winMon[x] # m => mon[x] = d.winMon[x]
  BY <1>1 DEF MonitorOrNone
<1>6. Destroyed(d, m) = Collect(c, {})
  BY DEF Destroyed
<1> HIDE DEF mon, c
<1>7. /\ b \in Desks /\ b.mons = d.mons /\ b.ws = d.ws /\ b.active = d.active /\ b.special = d.special
      /\ b.home = d.home /\ b.visible = d.visible /\ b.persistent = d.persistent
      /\ b.focus = d.focus /\ b.winMon = mon /\ b.pinned = d.pinned /\ b.winWs = d.winWs
  BY <1>0, <1>5 DEF Desks
<1> HIDE DEF b
<1>8. Beside(b)
  <2> SUFFICES ASSUME NEW x \in Windows \ d.pinned, d.winWs[x] # None
               PROVE  mon[x] = d.home[d.winWs[x]]
    BY <1>7 DEF Beside
  <2>1. d.winMon[x] = d.home[d.winWs[x]] /\ d.winWs[x] \in Live(d)
    BY <1>0 DEF Fine, Beside, Peopled
  <2>2. d.home[d.winWs[x]] # m
    BY <2>1, SoundFields
  <2> QED
    BY <1>5, <2>1, <2>2
<1>9. Fine(b, On(d))
  BY <1>0, <1>7, <1>8 DEF Fine, ShowsItsOwn, FlagAgrees, OnShow, Housed, Peopled, PinsMapped, Live
<1>10. Sound(b)
  BY <1>0, <1>7, <1>9, SoundStep DEF Sound
<1>11. LET t == Collect(b, {}) IN Sound(t) /\ On(t) = On(b)
  BY <1>10, SoundCollect
<1> QED
  BY <1>4, <1>6, <1>11

(* An output that goes while nothing is left behind on it. *)
LEMMA GoneKeeps ==
  ASSUME IInv, IdsNeverRunOut, NEW m \in On(desk), NothingLeft(m), UNCHANGED ensure,
         \/ Done(OnDisconnect(desk, m))
         \/ Done(Destroyed(OnDisconnect(desk, m), m))
  PROVE  IInv'
<1> DEFINE e == OnDisconnect(desk, m)
<1>1. LET t == OnDisconnect(desk, m) IN Sound(t) /\ On(t) = On(desk) \ {m}
  BY DisconnectSound DEF IInv
<1>2. m \in Outputs /\ m \notin On(e) /\ Sound(e)
  BY <1>1, SoundFields DEF IInv
<1>3. CASE Done(e)
  <2> HIDE DEF e
  <2>1. Sound(desk') /\ setup' \in Setups
    BY <1>2, <1>3, DoneSound DEF IInv
  <2> QED
    BY <2>1 DEF IInv
<1>4. CASE Done(Destroyed(e, m))
  <2> HIDE DEF e
  <2>1. Sound(Destroyed(e, m))
    BY <1>2, DestroyedSound
  <2>2. Sound(desk') /\ setup' \in Setups
    BY <1>4, <2>1, DoneSound DEF IInv
  <2> QED
    BY <2>2 DEF IInv
<1> QED
  BY <1>3, <1>4

(* Every step keeps the inductive invariant: one case for each event. *)
LEMMA NextKeeps ==
  ASSUME Orderly, IdsNeverRunOut, IInv, [Next]_vars
  PROVE  IInv'
<1>1. setup.asked \subseteq All /\ setup.windows \subseteq Windows /\ Real \subseteq Outputs
      /\ FALLBACK \in Outputs
  BY AskedIn, NamesApart
<1>2. ASSUME NEW m \in Real, Connect(m) PROVE IInv'
  <2>1. m \in Outputs /\ m \notin On(desk) /\ ensure < Jobs /\ Done(OnConnect(desk, m))
        /\ ensure' = ensure + Work
    BY <1>1, <1>2 DEF Connect, Monitors, On
  <2> QED
    BY <2>1, ConnectKeeps
<1>3. ASSUME NEW m \in Real, Disable(m) PROVE IInv'
  <2>1. m \in On(desk) /\ NothingLeft(m) /\ UNCHANGED ensure /\ Done(OnDisconnect(desk, m))
    BY <1>3 DEF Disable, MayGo, Monitors, On
  <2> QED
    BY <2>1, GoneKeeps
<1>4. ASSUME NEW m \in Real, Unplug(m) PROVE IInv'
  <2>1. m \in On(desk) /\ NothingLeft(m) /\ UNCHANGED ensure /\ Done(Destroyed(OnDisconnect(desk, m), m))
    BY <1>4 DEF Unplug, MayGo, Monitors, On
  <2> QED
    BY <2>1, GoneKeeps
<1>5. ASSUME ConnectFallback PROVE IInv'
  <2>1. FALLBACK \notin On(desk)
    BY <1>5 DEF ConnectFallback, On, ToSet
  <2>2. ensure < Jobs /\ Done(OnConnect(desk, FALLBACK)) /\ ensure' = ensure + Work
    BY <1>5 DEF ConnectFallback
  <2> QED
    BY <1>1, <2>1, <2>2, ConnectKeeps
<1>6. ASSUME DisconnectFallback PROVE IInv'
  <2>1. FALLBACK \in On(desk) /\ NothingLeft(FALLBACK) /\ UNCHANGED ensure
        /\ Done(Destroyed(OnDisconnect(desk, FALLBACK), FALLBACK))
    BY <1>6 DEF DisconnectFallback, Monitors, On
  <2> QED
    BY <2>1, GoneKeeps
<1>7. ASSUME EnsurePlacement PROVE IInv'
  BY <1>7, EnsurePlacementKeeps
<1>8. ASSUME NEW w \in setup.asked, ChangeTo(w) \/ BringHere(w) \/ ToggleSpecial(w) PROVE IInv'
  BY <1>1, <1>8, ChangeToKeeps, BringHereKeeps, ToggleSpecialKeeps
<1>9. ASSUME NEW w \in setup.asked, NEW m \in Outputs, MoveToMonitor(w, m) PROVE IInv'
  BY <1>1, <1>9, MoveToMonitorKeeps
<1>10. ASSUME NEW a \in Outputs, NEW b \in Outputs, Swap(a, b) PROVE IInv'
  BY <1>10, SwapKeeps
<1>11. ASSUME NEW m \in Outputs, FocusMonitor(m) PROVE IInv'
  BY <1>11, FocusMonitorKeeps
<1>12. ASSUME NEW x \in setup.windows, MapWindow(x) \/ UnmapWindow(x) \/ PinWindow(x)
                                        \/ ClickWindow(x) \/ GoToWindow(x)
       PROVE  IInv'
  BY <1>1, <1>12, MapWindowKeeps, UnmapWindowKeeps, PinWindowKeeps, ClickWindowKeeps,
     GoToWindowKeeps
<1>13. ASSUME NEW x \in setup.windows, NEW w \in setup.asked, NEW silent \in BOOLEAN,
              MoveWindow(x, w, silent)
       PROVE  IInv'
  BY <1>1, <1>13, MoveWindowKeeps
<1>14. CASE UNCHANGED vars
  BY <1>14 DEF vars, IInv
<1> QED
  BY <1>2, <1>3, <1>4, <1>5, <1>6, <1>7, <1>8, <1>9, <1>10, <1>11, <1>12, <1>13, <1>14 DEF Next

(* What the invariant is for: monitors, flag and focus that agree, *)
LEMMA IInvShown == IInv => Shown
<1> SUFFICES ASSUME IInv PROVE Shown
  OBVIOUS
<1> DEFINE shown == {desk.active[m] : m \in Monitors} \cup {desk.special[m] : m \in Monitors}
<1>0. /\ Monitors = On(desk) /\ desk \in Desks /\ On(desk) \in SUBSET Outputs /\ Fine(desk, On(desk))
      /\ desk.visible \subseteq All
  BY SoundFields DEF IInv, Monitors, On, Desks
<1>1. \A m \in Monitors :
        /\ desk.active[m] # None /\ desk.home[desk.active[m]] = m
        /\ desk.special[m] # None => desk.home[desk.special[m]] = m
  BY <1>0, SoundFields, NamesApart DEF IInv
<1>2. ASSUME NEW w \in desk.visible PROVE w \in shown \ {None}
  <2>1. w \in All /\ OnShow(desk, w) /\ w # None
    BY <1>0, NamesApart DEF Fine, FlagAgrees
  <2>2. desk.home[w] \in On(desk)
    BY <1>0, <2>1 DEF Fine, Housed, OnShow
  <2> QED
    BY <1>0, <2>1, <2>2 DEF OnShow
<1>3. ASSUME NEW w \in shown, w # None PROVE w \in desk.visible
  <2>1. PICK m \in Monitors : w = desk.active[m] \/ w = desk.special[m]
    BY <1>3
  <2>2. w \in All /\ desk.home[w] = m /\ m # None
    BY <1>0, <1>1, <1>3, <2>1, DeskFields, NamesApart
  <2>3. OnShow(desk, w)
    BY <2>1, <2>2 DEF OnShow
  <2> QED
    BY <1>0, <2>2, <2>3 DEF Fine, FlagAgrees
<1>4. desk.visible = shown \ {None}
  <2> HIDE DEF shown
  <2> QED
    BY <1>2, <1>3
<1>5. IF desk.mons = <<>> THEN desk.focus = None ELSE desk.focus \in Monitors
  <2>1. desk.mons = <<>> <=> On(desk) = {}
    BY <1>0, DeskFields, HeadIn DEF On
  <2>2. desk.focus \in On(desk) \cup {None} /\ (On(desk) # {} => desk.focus # None)
    BY <1>0 DEF Fine, IInv, Sound
  <2> QED
    BY <1>0, <2>1, <2>2
<1> QED
  BY <1>1, <1>4, <1>5 DEF Shown

(* windows on monitors, *)
LEMMA IInvNoWindowLeft == IInv => NoWindowLeft
<1> SUFFICES ASSUME IInv, NEW x \in Windows, desk.winWs[x] # None
             PROVE  desk.home[desk.winWs[x]] \in Monitors
  BY DEF NoWindowLeft
<1>1. desk.winWs[x] \in Live(desk)
  BY SoundFields DEF IInv, Fine, Peopled
<1> QED
  BY <1>1, SoundFields DEF IInv, Monitors, On

(* beside their workspaces. *)
LEMMA IInvBeside == IInv => WindowBesideWorkspace
  BY SoundFields DEF IInv, Fine, Beside, WindowBesideWorkspace

(* Every reachable desk is sound: however outputs come and go in order, and
   whatever is moved, swapped, pinned and focused meanwhile, the four records
   of where a workspace is agree. *)
THEOREM Invariance == Orderly /\ IdsNeverRunOut => (Spec => []IInv)
<1> SUFFICES ASSUME Orderly, IdsNeverRunOut PROVE Spec => []IInv
  OBVIOUS
<1>1. Init => IInv
  BY InitSound
<1>2. IInv /\ [Next]_vars => IInv'
  BY NextKeeps
<1> QED
  BY <1>1, <1>2, PTL DEF Spec

(* Every monitor on the list shows a workspace that says it is there, m_visible
   agrees with what is shown, and the focus is on a monitor:
   CMonitor::onConnect, onDisconnect and the dispatchers, for any number of
   outputs and workspaces. *)
THEOREM AlwaysShown == Orderly /\ IdsNeverRunOut => (Spec => []Shown)
  BY Invariance, IInvShown, PTL

(* No window is left on a workspace without a monitor when outputs go in order. *)
THEOREM NeverAWindowLeft == Orderly /\ IdsNeverRunOut => (Spec => []NoWindowLeft)
  BY Invariance, IInvNoWindowLeft, PTL

(* A window that is not pinned has the monitor of its workspace, whichever of
   the functions that move windows, workspaces and special workspaces ran. *)
THEOREM AlwaysBeside == Orderly /\ IdsNeverRunOut => (Spec => []WindowBesideWorkspace)
  BY Invariance, IInvBeside, PTL

(***************************************************************************)
(* The first owner of a workspace.  This proof needs no more than that the *)
(* desk is one of Desks, in order or not: each function is followed on any *)
(* desk, and what it does to m_lastMonitor of what is held is all that     *)
(* counts.                                                                 *)
(***************************************************************************)

(* What holds a workspace until a handler is through: the windows that are not
   pinned never leave it, and it stays persistent. *)
Kept(d, w) == w \in d.persistent \/ \E x \in Windows \ d.pinned : d.winWs[x] = w

(* The step from d to e forgets no owner but m, where workspaces return to,
   and that of v, which starts anew. *)
Returns(d, e, m, v) ==
  /\ e \in Desks /\ e.pinned = d.pinned
  /\ d.persistent \subseteq e.persistent
  /\ e.persistent \subseteq d.persistent \cup ToSet(setup.persistent)
  /\ \A x \in Windows \ d.pinned : e.winWs[x] = d.winWs[x]
  /\ \A w \in All : Kept(d, w) =>
       w = v \/ e.last[w] = d.last[w] \/ (d.last[w] = m /\ e.last[w] = None)

(* It forgets none at all. *)
Stays(d, e) == Returns(d, e, None, None)

(* Doing nothing forgets nothing. *)
LEMMA StaysRefl ==
  ASSUME NEW d \in Desks
  PROVE  Stays(d, d)
  BY DEF Stays, Returns

(* What forgets no owner forgets none but m either. *)
LEMMA StaysReturns ==
  ASSUME NEW d, NEW e, NEW m, NEW v, Stays(d, e)
  PROVE  Returns(d, e, m, v)
  BY NamesApart DEF Stays, Returns

(* Neither do two such steps, one after the other. *)
LEMMA ReturnsTrans ==
  ASSUME NEW d, NEW e, NEW f, NEW m \in Outputs \cup {None}, NEW v, Returns(d, e, m, v), Returns(e, f, m, v)
  PROVE  Returns(d, f, m, v)
<1>1. \A w \in All : Kept(d, w) => Kept(e, w)
  BY DEF Returns, Kept
<1>2. \A w \in All : Kept(d, w) =>
        w = v \/ f.last[w] = d.last[w] \/ (d.last[w] = m /\ f.last[w] = None)
  BY <1>1 DEF Returns
<1>3. \A x \in Windows \ d.pinned : f.winWs[x] = d.winWs[x]
  BY DEF Returns
<1>4. /\ f \in Desks /\ f.pinned = d.pinned
      /\ d.persistent \subseteq f.persistent
      /\ f.persistent \subseteq d.persistent \cup ToSet(setup.persistent)
  BY DEF Returns
<1> QED
  BY <1>2, <1>3, <1>4 DEF Returns

(* The same for steps that forget none. *)
LEMMA StaysTrans ==
  ASSUME NEW d, NEW e, NEW f, Stays(d, e), Stays(e, f)
  PROVE  Stays(d, f)
  BY ReturnsTrans DEF Stays

(* What comes out is a desk. *)
LEMMA StaysDesk ==
  ASSUME NEW d, NEW e, Stays(d, e)
  PROVE  e \in Desks
  BY DEF Stays, Returns

(* And it changes none, whether anything holds the workspace or not. *)
SameOwners(d, e) == Stays(d, e) /\ e.last = d.last

(* What changes no owner forgets none. *)
LEMMA OwnersStay ==
  ASSUME NEW d, NEW e, SameOwners(d, e)
  PROVE  Stays(d, e) /\ e \in Desks
  BY StaysDesk DEF SameOwners

(* Doing nothing changes none, either, *)
LEMMA OwnersRefl ==
  ASSUME NEW d \in Desks
  PROVE  SameOwners(d, d)
  BY StaysRefl DEF SameOwners

(* nor do two such steps. *)
LEMMA OwnersTrans ==
  ASSUME NEW d, NEW e, NEW f, SameOwners(d, e), SameOwners(e, f)
  PROVE  SameOwners(d, f)
  BY StaysTrans DEF SameOwners

(* Nothing that holds a workspace is touched. *)
LEMMA OwnersSame ==
  ASSUME NEW d, NEW e \in Desks, e.pinned = d.pinned, e.persistent = d.persistent,
         e.last = d.last, \A x \in Windows \ d.pinned : e.winWs[x] = d.winWs[x]
  PROVE  SameOwners(d, e)
  BY DEF SameOwners, Stays, Returns

(* The functions of CMonitor and CFocusState change no owner, on any desk:
   focusing a monitor, *)
LEMMA OwnersFocus ==
  ASSUME NEW d \in Desks, NEW f \in MonitorOrNone
  PROVE  SameOwners(d, [d EXCEPT !.focus = f]) /\ [d EXCEPT !.focus = f].focus = f
<1> DEFINE e == [d EXCEPT !.focus = f]
<1>1. e \in Desks /\ e.pinned = d.pinned /\ e.persistent = d.persistent
      /\ e.last = d.last /\ e.winWs = d.winWs /\ e.focus = f
  BY DEF Desks
<1> HIDE DEF e
<1>2. SameOwners(d, e)
  BY <1>1, OwnersSame
<1> QED
  BY <1>1, <1>2 DEF e

(* focusing the last window of a workspace, *)
LEMMA OwnersFocusLast ==
  ASSUME NEW d \in Desks, NEW m \in Outputs, NEW w
  PROVE  LET e == FocusLastWindow(d, m, w) IN SameOwners(d, e) /\ e.focus \in {d.focus, m}
<1>1. PICK f \in {d.focus, m} : FocusLastWindow(d, m, w) = [d EXCEPT !.focus = f]
  BY FocusLastWindowFine
<1>2. f \in MonitorOrNone
  BY DeskFields DEF MonitorOrNone
<1> QED
  BY <1>1, <1>2, OwnersFocus

(* closing a special workspace, *)
LEMMA OwnersClose ==
  ASSUME NEW d \in Desks, NEW m
  PROVE  LET e == CloseSpecial(d, m) IN SameOwners(d, e) /\ e.focus = d.focus /\ e.active = d.active
<1> DEFINE e == CloseSpecial(d, m)
<1>1. e \in Desks /\ e.pinned = d.pinned /\ e.persistent = d.persistent
      /\ e.last = d.last /\ e.winWs = d.winWs /\ e.focus = d.focus /\ e.active = d.active
  BY DEF CloseSpecial, Desks
<1> HIDE DEF e
<1>2. SameOwners(d, e)
  BY <1>1, OwnersSame
<1> QED
  BY <1>1, <1>2 DEF e

(* taking it from the monitor it was open on, *)
LEMMA OwnersStolen ==
  ASSUME NEW d \in Desks, NEW from, NEW w
  PROVE  LET e == Stolen(d, from, w) IN SameOwners(d, e) /\ e.focus = d.focus /\ e.active = d.active
<1> DEFINE s == [d EXCEPT !.special[from] = None]
<1>1. s \in Desks /\ s.pinned = d.pinned /\ s.persistent = d.persistent
      /\ s.last = d.last /\ s.winWs = d.winWs /\ s.focus = d.focus /\ s.active = d.active
  BY DEF Desks
<1> HIDE DEF s
<1>2. SameOwners(d, s) /\ SameOwners(d, d)
  BY <1>1, OwnersSame, OwnersRefl
<1>3. Stolen(d, from, w) \in {d, s}
  BY DEF Stolen, s
<1> QED
  BY <1>1, <1>2, <1>3

(* opening it, *)
LEMMA OwnersOpen ==
  ASSUME NEW d \in Desks, NEW m \in Outputs, NEW w \in Special
  PROVE  LET e == OpenSpecial(d, m, w) IN SameOwners(d, e) /\ e.focus = d.focus /\ e.active = d.active
<1> DEFINE e == OpenSpecial(d, m, w)
<1>1. w \in All /\ m \in MonitorOrNone
  BY NamesApart DEF MonitorOrNone
<1>2. e.pinned = d.pinned /\ e.persistent = d.persistent
      /\ e.last = d.last /\ e.winWs = d.winWs /\ e.focus = d.focus /\ e.active = d.active
  BY DEF OpenSpecial, Desks
<1>3. e \in Desks
  BY <1>1 DEF OpenSpecial, Desks
<1> HIDE DEF e
<1>4. SameOwners(d, e)
  BY <1>2, <1>3, OwnersSame
<1> QED
  BY <1>2, <1>4 DEF e

(* setSpecialWorkspace as a whole, *)
LEMMA OwnersSetSpecial ==
  ASSUME NEW d \in Desks, NEW m \in Outputs, NEW w \in Special \cup {None}
  PROVE  LET e == SetSpecialWorkspace(d, m, w) IN
         SameOwners(d, e) /\ e.focus \in {d.focus, m} /\ e.active = d.active
<1> DEFINE c == CloseSpecial(d, m)
<1> DEFINE t == Stolen(c, d.home[w], w)
<1> DEFINE o == OpenSpecial(t, m, w)
<1>1. SameOwners(d, c) /\ c \in Desks /\ c.focus = d.focus /\ c.active = d.active
  BY OwnersClose DEF SameOwners, Stays, Returns
<1>2. CASE w = d.special[m]
  BY <1>2, OwnersRefl DEF SetSpecialWorkspace
<1>3. CASE w # d.special[m] /\ w = None
  <2> DEFINE e == FocusLastWindow(c, m, d.active[m])
  <2>1. SetSpecialWorkspace(d, m, w) = e
    BY <1>3 DEF SetSpecialWorkspace
  <2> HIDE DEF c
  <2>2. SameOwners(c, e) /\ e.focus \in {c.focus, m} /\ e.active = c.active
    BY <1>1, OwnersFocusLast, FocusLastWindowFine DEF FocusLastWindow, Desks
  <2> HIDE DEF e
  <2> QED
    BY <2>1, <2>2, <1>1, OwnersTrans
<1>4. CASE w # d.special[m] /\ w # None
  <2> DEFINE e == FocusLastWindow(o, m, w)
  <2>1. SetSpecialWorkspace(d, m, w) = e
    BY <1>4 DEF SetSpecialWorkspace
  <2> HIDE DEF c
  <2>2. SameOwners(c, t) /\ t \in Desks /\ t.focus = c.focus /\ t.active = c.active
    BY <1>1, OwnersStolen DEF SameOwners, Stays, Returns
  <2> HIDE DEF t
  <2>3. SameOwners(t, o) /\ o \in Desks /\ o.focus = t.focus /\ o.active = t.active
    BY <1>4, <2>2, OwnersOpen DEF SameOwners, Stays, Returns
  <2> HIDE DEF o
  <2>4. SameOwners(o, e) /\ e.focus \in {o.focus, m}
    BY <2>3, OwnersFocusLast
  <2>4a. e.active = o.active
    BY <2>3 DEF FocusLastWindow, Desks
  <2> HIDE DEF e
  <2> QED
    BY <2>1, <2>2, <2>3, <2>4, <2>4a, <1>1, OwnersTrans
<1> QED
  BY <1>2, <1>3, <1>4

(* taking pinned windows along, *)
LEMMA OwnersCarryPinned ==
  ASSUME NEW d \in Desks, NEW old, NEW w \in All
  PROVE  LET e == CarryPinned(d, old, w) IN SameOwners(d, e) /\ e.focus = d.focus
<1> DEFINE e == CarryPinned(d, old, w)
<1>0. /\ d.winWs \in [Windows -> All \cup {None}] /\ d.winMon \in [Windows -> Outputs \cup {None}]
      /\ d.home \in [All -> Outputs \cup {None}]
  BY DeskFields
<1>1. /\ e.winWs = [x \in Windows |-> IF x \in d.pinned /\ d.winWs[x] = old THEN w ELSE d.winWs[x]]
      /\ e.pinned = d.pinned /\ e.persistent = d.persistent /\ e.last = d.last /\ e.focus = d.focus
  BY DEF CarryPinned, Desks
<1>2. e \in Desks
  BY <1>0 DEF CarryPinned, Desks, MonitorOrNone
<1> HIDE DEF e
<1>3. \A x \in Windows \ d.pinned : e.winWs[x] = d.winWs[x]
  BY <1>1
<1>4. SameOwners(d, e)
  BY <1>1, <1>2, <1>3, OwnersSame
<1> QED
  BY <1>1, <1>4 DEF e

(* w is shown on m, and v is not any more. *)
NowShows(d, m, w, v) == [d EXCEPT !.active[m] = w, !.visible = (@ \ {v}) \cup {w}]

(* showing another workspace, *)
LEMMA OwnersActive ==
  ASSUME NEW d \in Desks, NEW m, NEW w \in Regular, NEW v
  PROVE  LET e == NowShows(d, m, w, v) IN SameOwners(d, e) /\ e.focus = d.focus
<1> DEFINE e == NowShows(d, m, w, v)
<1>1. /\ e \in Desks /\ e.pinned = d.pinned /\ e.persistent = d.persistent
      /\ e.last = d.last /\ e.winWs = d.winWs /\ e.focus = d.focus
  BY NamesApart DEF NowShows, Desks
<1> HIDE DEF e
<1>2. SameOwners(d, e)
  BY <1>1, OwnersSame
<1> QED
  BY <1>1, <1>2 DEF e

(* CMonitor::changeWorkspace *)
LEMMA OwnersChange ==
  ASSUME NEW d \in Desks, NEW m \in Outputs, NEW w \in All \cup {None}, NEW internal \in BOOLEAN
  PROVE  LET e == ChangeWorkspace(d, m, w, internal) IN
         SameOwners(d, e) /\ e.focus \in {d.focus, m}
<1>1. CASE w \in Special
  BY <1>1, OwnersSetSpecial DEF ChangeWorkspace
<1>2. CASE w \notin Special /\ w \in {None, d.active[m]}
  BY <1>2, OwnersRefl DEF ChangeWorkspace
<1>3. CASE w \notin Special /\ w \notin {None, d.active[m]}
  <2> DEFINE c == IF internal THEN d ELSE CarryPinned(d, d.active[m], w)
  <2> DEFINE e == NowShows(c, m, w, d.active[m])
  <2>1. ChangeWorkspace(d, m, w, internal) = e
    BY <1>3 DEF ChangeWorkspace, NowShows
  <2>2. w \in Regular /\ w \in All
    BY <1>3, NamesApart
  <2>3. SameOwners(d, c) /\ c \in Desks /\ c.focus = d.focus
    BY <2>2, OwnersRefl, OwnersCarryPinned DEF SameOwners, Stays, Returns
  <2> HIDE DEF c
  <2>4. SameOwners(c, e) /\ e.focus = c.focus
    BY <2>2, <2>3, OwnersActive
  <2> HIDE DEF e
  <2> QED
    BY <2>1, <2>3, <2>4, OwnersTrans
<1> QED
  BY <1>1, <1>2, <1>3

(* A focus that was on a monitor stays on one. *)
Focused(d, e) == d.focus # None => e.focus # None

(* focusing a window that is visible, *)
LEMMA OwnersVisible ==
  ASSUME NEW d \in Desks, NEW w, NEW m \in Outputs
  PROVE  LET e == FocusVisible(d, w, m) IN SameOwners(d, e) /\ e.focus = m
<1> DEFINE f == [d EXCEPT !.focus = m]
<1>0. m \in MonitorOrNone /\ None \in Special \cup {None}
  BY DEF MonitorOrNone
<1>1. SameOwners(d, f) /\ f \in Desks /\ f.focus = m
  BY <1>0, OwnersFocus DEF SameOwners, Stays, Returns
<1> HIDE DEF f
<1>2. LET e == SetSpecialWorkspace(f, m, None) IN
      SameOwners(f, e) /\ e.focus \in {f.focus, m} /\ e.active = f.active
  BY <1>0, <1>1, OwnersSetSpecial
<1>3. FocusVisible(d, w, m) \in {f, SetSpecialWorkspace(f, m, None)}
  BY DEF FocusVisible, f
<1> QED
  BY <1>1, <1>2, <1>3, OwnersTrans

(* or one just shown, *)
LEMMA OwnersShown ==
  ASSUME NEW d \in Desks, NEW w, NEW m \in Outputs
  PROVE  LET e == FocusShown(d, w, m) IN SameOwners(d, e) /\ Focused(d, e)
<1>1. FocusShown(d, w, m) \in {d, FocusVisible(d, w, m)}
  BY DEF FocusShown
<1> QED
  BY <1>1, OwnersRefl, OwnersVisible, NamesApart DEF Focused

(* showing a hidden one first, *)
LEMMA OwnersShowHidden ==
  ASSUME NEW d \in Desks, d.focus # None, NEW w \in All \cup {None}, NEW m \in Outputs \cup {None}
  PROVE  LET e == ShowHidden(d, w, m) IN SameOwners(d, e) /\ Focused(d, e)
<1>0. d.focus \in Outputs
  BY DeskFields
<1>1. CASE w \in Special
  <2>1. LET e == ChangeWorkspace(d, d.focus, w, FALSE) IN SameOwners(d, e) /\ e.focus \in {d.focus, d.focus}
    BY <1>0, OwnersChange
  <2> QED
    BY <1>1, <2>1, NamesApart DEF ShowHidden, Focused
<1>2. CASE w \notin Special /\ m = None
  BY <1>2, OwnersRefl DEF ShowHidden, Focused
<1>3. CASE w \notin Special /\ m # None
  <2> DEFINE c == ChangeWorkspace(d, m, w, FALSE)
  <2>1. SameOwners(d, c) /\ c \in Desks /\ c.focus \in {d.focus, m}
    BY <1>3, OwnersChange DEF SameOwners, Stays, Returns
  <2>2. ShowHidden(d, w, m) = FocusShown(c, w, m)
    BY <1>3 DEF ShowHidden
  <2> HIDE DEF c
  <2>3. LET e == FocusShown(c, w, m) IN SameOwners(c, e) /\ Focused(c, e)
    BY <1>3, <2>1, OwnersShown
  <2> QED
    BY <1>3, <2>1, <2>2, <2>3, OwnersTrans, NamesApart DEF Focused
<1> QED
  BY <1>1, <1>2, <1>3

(* rawWindowFocus as a whole, *)
LEMMA OwnersRaw ==
  ASSUME NEW d \in Desks, d.focus # None, NEW x \in Windows
  PROVE  LET e == RawWindowFocus(d, x) IN SameOwners(d, e) /\ Focused(d, e)
<1>1. d.winWs[x] \in All \cup {None} /\ d.winMon[x] \in Outputs \cup {None}
  BY DeskFields
<1>2. RawWindowFocus(d, x) \in {ShowHidden(d, d.winWs[x], d.winMon[x]), d}
        \/ (d.winMon[x] # None /\ RawWindowFocus(d, x) = FocusVisible(d, d.winWs[x], d.winMon[x]))
  BY DEF RawWindowFocus
<1>3. LET e == ShowHidden(d, d.winWs[x], d.winMon[x]) IN SameOwners(d, e) /\ Focused(d, e)
  BY <1>1, OwnersShowHidden
<1>4. d.winMon[x] # None => LET e == FocusVisible(d, d.winWs[x], d.winMon[x]) IN SameOwners(d, e) /\ Focused(d, e)
  BY <1>1, OwnersVisible, NamesApart DEF Focused
<1> QED
  BY <1>2, <1>3, <1>4, OwnersRefl DEF Focused

(* fullWindowFocus, *)
LEMMA OwnersFocusWindow ==
  ASSUME NEW d \in Desks, d.focus # None, NEW x \in Windows
  PROVE  LET e == FocusWindow(d, x) IN SameOwners(d, e) /\ Focused(d, e)
<1> DEFINE p == [d EXCEPT !.winWs[x] = d.active[d.focus]]
<1>0. d.active[d.focus] \in All \cup {None}
  BY DeskFields, NamesApart
<1>1. p \in Desks /\ p.pinned = d.pinned /\ p.persistent = d.persistent
      /\ p.last = d.last /\ p.winWs = [d.winWs EXCEPT ![x] = d.active[d.focus]] /\ p.focus = d.focus
  BY <1>0 DEF Desks
<1> HIDE DEF p
<1>2. CASE x \in d.pinned /\ d.winWs[x] # None
  <2>1. \A y \in Windows \ d.pinned : p.winWs[y] = d.winWs[y]
    BY <1>1, <1>2, DeskFields
  <2>2. SameOwners(d, p)
    BY <1>1, <2>1, OwnersSame
  <2>3. LET e == RawWindowFocus(p, x) IN SameOwners(p, e) /\ Focused(p, e)
    BY <1>1, OwnersRaw
  <2>4. FocusWindow(d, x) = RawWindowFocus(p, x)
    BY <1>2 DEF FocusWindow, p
  <2> QED
    BY <1>1, <2>2, <2>3, <2>4, OwnersTrans DEF Focused
<1>3. CASE x \notin d.pinned /\ d.winWs[x] # None
  <2>1. FocusWindow(d, x) = RawWindowFocus(d, x)
    BY <1>3 DEF FocusWindow
  <2> QED
    BY <2>1, OwnersRaw
<1>4. CASE d.winWs[x] = None
  BY <1>4, OwnersRefl DEF FocusWindow, Focused
<1> QED
  BY <1>2, <1>3, <1>4

(* and the same for a window of a workspace. *)
LEMMA OwnersCandidate ==
  ASSUME NEW d \in Desks, d.focus # None, NEW w
  PROVE  LET e == FocusCandidate(d, w) IN SameOwners(d, e) /\ Focused(d, e)
<1> DEFINE x == CHOOSE y \in WindowsOn(d, w) : TRUE
<1>1. CASE WindowsOn(d, w) = {}
  BY <1>1, OwnersRefl DEF FocusCandidate, Focused
<1>2. CASE WindowsOn(d, w) # {}
  <2>1. x \in Windows
    BY <1>2 DEF WindowsOn
  <2>2. FocusCandidate(d, w) = FocusWindow(d, x)
    BY <1>2 DEF FocusCandidate
  <2> HIDE DEF x
  <2> QED
    BY <2>1, <2>2, OwnersFocusWindow
<1> QED
  BY <1>1, <1>2

(* Rules are about regular workspaces. *)
LEMMA RulesRegular ==
  ASSUME setup \in Setups
  PROVE  ToSet(setup.persistent) \subseteq Regular
<1>1. setup.persistent \in Seq(DOMAIN setup.bound) /\ DOMAIN setup.bound \subseteq Regular
  BY SetupAssumption
<1> QED
  BY <1>1, HeadIn

(* A new workspace has no owner, and changes none, *)
LEMMA OwnersNew ==
  ASSUME setup \in Setups, NEW d \in Desks, NEW w \in All, NEW m \in MonitorOrNone
  PROVE  LET e == NewWorkspace(d, w, m) IN SameOwners(d, e) /\ e.focus = d.focus /\ e.last = d.last
<1> DEFINE e == NewWorkspace(d, w, m)
<1>1. /\ e.pinned = d.pinned /\ e.last = d.last /\ e.focus = d.focus /\ e.winWs = d.winWs
      /\ e.persistent = d.persistent \cup ({w} \cap ToSet(setup.persistent))
  BY DEF NewWorkspace, Desks
<1>2. Append(d.ws, w) \in Seq(All)
  BY DeskFields
<1>3. e \in Desks
  BY <1>2, RulesRegular DEF NewWorkspace, Desks
<1> HIDE DEF e
<1>4. SameOwners(d, e)
  BY <1>1, <1>3 DEF SameOwners, Stays, Returns
<1> QED
  BY <1>1, <1>4 DEF e

(* whichever monitor it gets. *)
LEMMA OwnersCreate ==
  ASSUME setup \in Setups, NEW d \in Desks, NEW w \in All, NEW m \in MonitorOrNone
  PROVE  LET e == Create(d, w, m) IN SameOwners(d, e) /\ e.focus = d.focus /\ e.last = d.last
<1> DEFINE h == IF BoundMonitor(d, w) # None THEN BoundMonitor(d, w) ELSE m
<1>1. h \in MonitorOrNone
  BY BoundIn, DeskFields DEF MonitorOrNone
<1>2. Create(d, w, m) = NewWorkspace(d, w, h)
  BY DEF Create
<1> HIDE DEF h
<1> QED
  BY <1>1, <1>2, OwnersNew

(* A workspace that is dropped has nothing that holds it. *)
LEMMA StaysCollect ==
  ASSUME NEW d \in Desks, NEW local
  PROVE  LET e == Collect(d, local) IN
         /\ Stays(d, e) /\ e.focus = d.focus
         /\ \A w \in Live(e) : e.last[w] = d.last[w]
<1> DEFINE e == Collect(d, local)
<1> DEFINE K == Held(d) \cup local
<1>0. d.ws \in Seq(All) /\ d.home \in [All -> MonitorOrNone] /\ d.last \in [All -> MonitorOrNone]
  BY DEF Desks
<1>1. /\ e.pinned = d.pinned /\ e.persistent = d.persistent /\ e.focus = d.focus /\ e.winWs = d.winWs
      /\ e.ws = Only(d.ws, K) /\ e.last = [w \in All |-> IF w \in K THEN d.last[w] ELSE None]
  BY DEF Collect, Keep, Desks
<1>2. Only(d.ws, K) \in Seq(All) /\ ToSet(Only(d.ws, K)) = ToSet(d.ws) \cap K
  <2> HIDE DEF K
  <2> QED
    BY <1>0, OnlySet
<1>3. e \in Desks
  <2>1. None \in MonitorOrNone
    BY DEF MonitorOrNone
  <2> QED
    BY <1>0, <1>2, <2>1 DEF Collect, Keep, Desks
<1> HIDE DEF e
<1>4. \A w \in All : Kept(d, w) => w \in K
  BY DEF Kept, Held
<1>5. \A w \in All : w \in K => e.last[w] = d.last[w]
  <2> HIDE DEF K
  <2> QED
    BY <1>1
<1>6. \A w \in Live(e) : w \in K /\ w \in All
  BY <1>1, <1>2, <1>3, DeskFields DEF Live
<1> HIDE DEF K
<1>7. Stays(d, e)
  BY <1>1, <1>3, <1>4, <1>5 DEF Stays, Returns
<1> QED
  BY <1>1, <1>5, <1>6, <1>7 DEF e

(* Windows that go along with their workspace leave pinned ones behind, and
   no others. *)
LEMMA OwnersCarry ==
  ASSUME NEW d \in Desks, NEW w, NEW m \in MonitorOrNone, NEW next \in All \cup {None}
  PROVE  LET e == CarryWindows(d, w, m, next) IN
         SameOwners(d, e) /\ e.focus = d.focus /\ e.active = d.active
<1> DEFINE e == CarryWindows(d, w, m, next)
<1>0. /\ d.winWs \in [Windows -> All \cup {None}] /\ d.winMon \in [Windows -> MonitorOrNone]
  BY DeskFields DEF MonitorOrNone
<1>1. /\ e.winWs = [x \in Windows |-> IF d.winWs[x] = w /\ x \in d.pinned THEN next ELSE d.winWs[x]]
      /\ e.pinned = d.pinned /\ e.persistent = d.persistent /\ e.last = d.last /\ e.focus = d.focus
      /\ e.active = d.active
  BY DEF CarryWindows, Desks
<1>2. e \in Desks
  BY <1>0 DEF CarryWindows, Desks
<1> HIDE DEF e
<1>3. \A x \in Windows \ d.pinned : e.winWs[x] = d.winWs[x]
  BY <1>1
<1>4. SameOwners(d, e)
  BY <1>1, <1>2, <1>3, OwnersSame
<1> QED
  BY <1>1, <1>4 DEF e

(* What was open on a monitor may be closed. *)
LEMMA OwnersReplaced ==
  ASSUME NEW d \in Desks, NEW m \in Outputs
  PROVE  LET e == Replaced(d, m) IN SameOwners(d, e) /\ Focused(d, e)
<1>1. LET e == SetSpecialWorkspace(d, m, None) IN
      SameOwners(d, e) /\ e.focus \in {d.focus, m} /\ e.active = d.active
  BY OwnersSetSpecial
<1>2. Replaced(d, m) \in {d, SetSpecialWorkspace(d, m, None)}
  BY DEF Replaced
<1> QED
  BY <1>1, <1>2, OwnersRefl, NamesApart DEF Focused

(* What was shown on it is hidden for another. *)
LEMMA OwnersTakeOver ==
  ASSUME NEW d \in Desks, NEW m \in Outputs, NEW w \in Regular
  PROVE  LET e == TakeOver(d, w, m) IN SameOwners(d, e) /\ e.focus = m
<1> DEFINE h == Hidden(d, d.active[m])
<1> DEFINE r == Replaced(h, m)
<1> DEFINE e == ShownThere(r, w, m)
<1>1. SameOwners(d, h) /\ h \in Desks
  <2>1. h \in Desks /\ h.pinned = d.pinned /\ h.persistent = d.persistent
      /\ h.last = d.last /\ h.winWs = d.winWs
    BY DEF Hidden, Desks
  <2> HIDE DEF h
  <2> QED
    BY <2>1, OwnersSame
<1>2. TakeOver(d, w, m) = e
  BY DEF TakeOver
<1> HIDE DEF h
<1>3. SameOwners(h, r) /\ r \in Desks
  BY <1>1, OwnersReplaced DEF SameOwners, Stays, Returns
<1> HIDE DEF r
<1>4. e \in Desks /\ e.pinned = r.pinned /\ e.persistent = r.persistent
      /\ e.last = r.last /\ e.winWs = r.winWs /\ e.focus = m
  BY <1>3, NamesApart DEF ShownThere, Desks, MonitorOrNone
<1> HIDE DEF e
<1>5. SameOwners(r, e)
  BY <1>3, <1>4, OwnersSame
<1> QED
  BY <1>1, <1>2, <1>3, <1>4, <1>5, OwnersTrans

(* moveWorkspaceToMonitor keeps the old monitor showing something. *)
LEMMA StaysGap ==
  ASSUME IdsNeverRunOut, setup \in Setups, NEW d \in Desks, NEW w, NEW old \in Outputs
  PROVE  LET g == PlugGap(d, w, old) IN
         Stays(d, g.desk) /\ Focused(d, g.desk) /\ g.next \in Regular
<1> DEFINE T == {v \in Regular \ {w} : d.home[v] = old}
<1> DEFINE s == Only(d.ws, T)
<1>1. s \in Seq(All) /\ ToSet(s) \subseteq Regular /\ Others(d, w, old) = s
  <2>1. d.ws \in Seq(All)
    BY DeskFields
  <2>2. T \subseteq Regular
    OBVIOUS
  <2>3. s \in Seq(All) /\ ToSet(s) = ToSet(d.ws) \cap T
    <3> HIDE DEF T
    <3> QED
      BY <2>1, OnlySet
  <2> QED
    BY <2>2, <2>3 DEF Others
<1> HIDE DEF s
<1>2. ASSUME NEW c, Stays(d, c), Focused(d, c), NEW n \in Regular
      PROVE  LET g == Gap(c, n, old) IN Stays(d, g.desk) /\ Focused(d, g.desk) /\ g.next \in Regular
  <2>1. c \in Desks /\ n \in All \cup {None} /\ FALSE \in BOOLEAN
    BY <1>2, NamesApart DEF Stays, Returns
  <2>2. LET e == ChangeWorkspace(c, old, n, FALSE) IN Stays(c, e) /\ e.focus \in {c.focus, old}
    BY <2>1, OwnersChange, OwnersStay
  <2>3. Stays(d, ChangeWorkspace(c, old, n, FALSE))
    BY <1>2, <2>2, StaysTrans
  <2>4. Gap(c, n, old).desk = ChangeWorkspace(c, old, n, FALSE) /\ Gap(c, n, old).next = n
    BY DEF Gap
  <2> QED
    BY <1>2, <2>2, <2>3, <2>4, NamesApart DEF Focused
<1>3. CASE s # <<>>
  <2>1. Head(s) \in Regular
    BY <1>1, <1>3, HeadIn
  <2>2. PlugGap(d, w, old) = Gap(d, Head(s), old)
    BY <1>1, <1>3 DEF PlugGap
  <2>3. Stays(d, d) /\ Focused(d, d)
    BY StaysRefl DEF Focused
  <2> QED
    BY <1>2, <2>1, <2>2, <2>3
<1>4. CASE s = <<>>
  <2> DEFINE n == PlugId(d, old)
  <2> DEFINE c == Create(d, n, old)
  <2>1. n \in Regular
    BY PlugIdFree
  <2>2. PlugGap(d, w, old) = Gap(c, n, old)
    BY <1>1, <1>4 DEF PlugGap
  <2> HIDE DEF n
  <2>3. n \in All /\ old \in MonitorOrNone
    BY <2>1, NamesApart DEF MonitorOrNone
  <2>4. Stays(d, c) /\ Focused(d, c)
    BY <2>3, OwnersCreate, OwnersStay DEF Focused
  <2> HIDE DEF c
  <2> QED
    BY <1>2, <2>1, <2>2, <2>4
<1> QED
  BY <1>3, <1>4

(* moveWorkspaceToMonitor *)
LEMMA StaysMove ==
  ASSUME IdsNeverRunOut, setup \in Setups, NEW d \in Desks,
         NEW w \in All \cup {None}, NEW m \in MonitorOrNone, NEW local
  PROVE  LET e == MoveWorkspaceToMonitor(d, w, m, local) IN Stays(d, e) /\ Focused(d, e)
<1> DEFINE old == d.home[w]
<1> DEFINE g == IF old # None /\ d.active[old] = w THEN PlugGap(d, w, old) ELSE [desk |-> d, next |-> w]
<1> DEFINE c == CarryWindows(g.desk, w, m, g.next)
<1> DEFINE t == TakeOver(c, w, m)
<1> DEFINE r == Relocate(g, w, old, m)
<1>1. CASE w = None \/ m = None \/ old = m
  BY <1>1, StaysRefl DEF MoveWorkspaceToMonitor, Focused
<1>2. ASSUME w # None, m # None, old # m
      PROVE  LET e == MoveWorkspaceToMonitor(d, w, m, local) IN Stays(d, e) /\ Focused(d, e)
  <2>0. m \in Outputs /\ w \in All /\ old \in Outputs \cup {None}
    BY <1>2, DeskFields DEF MonitorOrNone
  <2>1. CASE w \in Special /\ old # None /\ d.special[old] = w
    <3>1. MoveWorkspaceToMonitor(d, w, m, local) = SetSpecialWorkspace(d, m, w)
      BY <1>2, <2>1 DEF MoveWorkspaceToMonitor
    <3>2. LET e == SetSpecialWorkspace(d, m, w) IN
         Stays(d, e) /\ e.focus \in {d.focus, m} /\ e.active = d.active
      BY <2>0, <2>1, OwnersSetSpecial, OwnersStay
    <3> QED
      BY <3>1, <3>2, <2>0, NamesApart DEF Focused
  <2>2. CASE ~(w \in Special /\ old # None /\ d.special[old] = w)
    <3>1. MoveWorkspaceToMonitor(d, w, m, local) = Collect(r, local \cup {w})
      BY <1>2, <2>2 DEF MoveWorkspaceToMonitor
    <3>2. /\ Stays(d, g.desk) /\ Focused(d, g.desk) /\ g.next \in All \cup {None}
          /\ g.next # w => w \in Regular
      <4>1. CASE old # None /\ d.active[old] = w
        <5>1. LET p == PlugGap(d, w, old) IN
              Stays(d, p.desk) /\ Focused(d, p.desk) /\ p.next \in Regular
          BY <2>0, <4>1, StaysGap
        <5>2. w \in Regular
          BY <1>2, <2>0, <4>1, DeskFields
        <5> QED
          BY <4>1, <5>1, <5>2, NamesApart
      <4>2. CASE ~(old # None /\ d.active[old] = w)
        <5>1. g.desk = d /\ g.next = w
          BY <4>2
        <5> HIDE DEF g
        <5> QED
          BY <5>1, StaysRefl DEF Focused
      <4> QED
        BY <4>1, <4>2
    <3>3. r \in {c, t} /\ (r = c \/ g.next # w)
      BY DEF Relocate
    <3> HIDE DEF g, r
    <3>4. g.desk \in Desks
      BY <3>2 DEF Stays, Returns
    <3>5. Stays(g.desk, c) /\ c.focus = g.desk.focus /\ c \in Desks
      <4>1. LET e == CarryWindows(g.desk, w, m, g.next) IN
            Stays(g.desk, e) /\ e.focus = g.desk.focus /\ e.active = g.desk.active
        BY <3>2, <3>4, OwnersCarry, OwnersStay
      <4> QED
        BY <4>1, StaysDesk
    <3> HIDE DEF c
    <3>6. g.next # w => Stays(c, t) /\ t.focus = m
      BY <2>0, <3>2, <3>5, OwnersTakeOver, OwnersStay
    <3> HIDE DEF t
    <3>7. Stays(d, r) /\ Focused(d, r) /\ r \in Desks
      <4>1. Stays(d, c) /\ Focused(d, c)
        BY <3>2, <3>5, StaysTrans DEF Focused
      <4>2. CASE r = c
        BY <4>1, <4>2, <3>5
      <4>3. CASE r = t /\ g.next # w
        <5>1. Stays(d, t) /\ t.focus = m
          BY <4>1, <4>3, <3>6, StaysTrans
        <5> QED
          BY <1>2, <4>3, <5>1 DEF Focused, Stays, Returns
      <4> QED
        BY <3>3, <4>2, <4>3
    <3>8. LET e == Collect(r, local \cup {w}) IN
         /\ Stays(r, e) /\ e.focus = r.focus
         /\ \A v \in Live(e) : e.last[v] = r.last[v]
      BY <3>7, StaysCollect
    <3> QED
      BY <3>1, <3>7, <3>8, StaysTrans DEF Focused
  <2> QED
    BY <2>1, <2>2
<1> QED
  BY <1>1, <1>2

(* Two monitors exchange what they show. *)
LEMMA OwnersExchange ==
  ASSUME NEW d \in Desks, NEW a \in Outputs, NEW b \in Outputs
  PROVE  LET e == Exchange(d, a, b, d.active[a], d.active[b]) IN SameOwners(d, e) /\ e.focus = d.focus
<1> DEFINE wa == d.active[a]
<1> DEFINE wb == d.active[b]
<1>0. wa \in Regular \cup {None} /\ wb \in Regular \cup {None}
  BY DeskFields
<1>0a. wa \in All \cup {None} /\ wb \in All \cup {None} /\ a \in MonitorOrNone /\ b \in MonitorOrNone
  BY <1>0, NamesApart DEF MonitorOrNone
<1> HIDE DEF wa, wb
<1> DEFINE c == CarryWindows(d, wa, b, wb)
<1> DEFINE f == CarryWindows(c, wb, a, wa)
<1> DEFINE e == Exchange(d, a, b, wa, wb)
<1>1. SameOwners(d, c) /\ c.focus = d.focus /\ c \in Desks
  <2>1. LET t == CarryWindows(d, wa, b, wb) IN SameOwners(d, t) /\ t.focus = d.focus /\ t.active = d.active
    BY <1>0a, OwnersCarry
  <2> QED
    BY <2>1, StaysDesk DEF SameOwners
<1>2. e = [f EXCEPT !.active[a] = wb, !.active[b] = wa]
  BY DEF Exchange
<1> HIDE DEF c
<1>3. SameOwners(c, f) /\ f.focus = c.focus /\ f \in Desks
  <2>1. LET t == CarryWindows(c, wb, a, wa) IN SameOwners(c, t) /\ t.focus = c.focus /\ t.active = c.active
    BY <1>0a, <1>1, OwnersCarry
  <2> QED
    BY <2>1, StaysDesk DEF SameOwners
<1> HIDE DEF f, e
<1>4. e \in Desks /\ e.pinned = f.pinned /\ e.persistent = f.persistent
      /\ e.last = f.last /\ e.winWs = f.winWs /\ e.focus = f.focus
  BY <1>0, <1>2, <1>3 DEF Desks
<1>5. SameOwners(f, e)
  BY <1>4, OwnersSame
<1> QED
  BY <1>1, <1>3, <1>4, <1>5, OwnersTrans DEF e, wa, wb

(* swapActiveWorkspaces *)
LEMMA OwnersSwap ==
  ASSUME NEW d \in Desks, NEW a \in Outputs, NEW b \in Outputs
  PROVE  LET e == SwapActiveWorkspaces(d, a, b) IN SameOwners(d, e) /\ Focused(d, e)
<1> DEFINE e == Exchange(d, a, b, d.active[a], d.active[b])
<1>1. SameOwners(d, e) /\ e.focus = d.focus /\ e \in Desks
  BY OwnersExchange DEF SameOwners, Stays, Returns
<1>2. SwapActiveWorkspaces(d, a, b) =
        IF e.focus \in {a, b} THEN FocusCandidate(e, e.active[e.focus]) ELSE e
  BY DEF SwapActiveWorkspaces
<1> HIDE DEF e
<1>3. e.focus \in {a, b} =>
        LET f == FocusCandidate(e, e.active[e.focus]) IN SameOwners(e, f) /\ Focused(e, f)
  BY <1>1, OwnersCandidate, NamesApart
<1> QED
  BY <1>1, <1>2, <1>3, OwnersTrans DEF Focused

(* One rule of a persistent workspace. *)
LEMMA StaysRule ==
  ASSUME IdsNeverRunOut, setup \in Setups, NEW d \in Desks, NEW w \in ToSet(setup.persistent)
  PROVE  Stays(d, EnsureRule(d, w))
<1> DEFINE m == IF setup.bound[w] = None THEN d.focus ELSE setup.bound[w]
<1> DEFINE b == IF IsLive(d, w) THEN d ELSE Create(d, w, m)
<1> DEFINE p == b.persistent \cup {w}
<1> DEFINE c == [b EXCEPT !.persistent = p]
<1>1. m \in MonitorOrNone /\ w \in All /\ w \in Regular
  <2>1. setup.persistent \in Seq(DOMAIN setup.bound)
        /\ \A v \in DOMAIN setup.bound : setup.bound[v] \in Real \cup {None}
    BY SetupAssumption
  <2>2. w \in DOMAIN setup.bound
    BY <2>1, HeadIn
  <2>3. w \in All /\ w \in Regular
    BY RulesRegular, NamesApart
  <2> QED
    BY <2>1, <2>2, <2>3, DeskFields, NamesApart DEF MonitorOrNone
<1>2. EnsureRule(d, w) = MoveWorkspaceToMonitor(c, w, m, {})
  BY DEF EnsureRule, Ensured
<1> HIDE DEF m
<1>3. Stays(d, b) /\ b \in Desks
  BY <1>1, OwnersCreate, OwnersStay, StaysRefl DEF Stays, Returns
<1> HIDE DEF b
<1>4. c \in Desks /\ c.pinned = b.pinned /\ c.persistent = b.persistent \cup {w}
      /\ c.last = b.last /\ c.winWs = b.winWs
  BY <1>1, <1>3 DEF Desks
<1> HIDE DEF c
<1>5. Stays(b, c)
  BY <1>4 DEF Stays, Returns
<1>6. LET e == MoveWorkspaceToMonitor(c, w, m, {}) IN Stays(c, e) /\ Focused(c, e)
  BY <1>1, <1>4, StaysMove
<1> QED
  BY <1>2, <1>3, <1>5, <1>6, StaysTrans

(* The rules of the persistent workspaces, one after the other. *)
LEMMA StaysRules ==
  ASSUME IdsNeverRunOut, setup \in Setups, NEW d \in Desks,
         NEW s \in Seq(ToSet(setup.persistent))
  PROVE  Stays(d, FoldLeft(EnsureRule, d, s))
<1> DEFINE D == Desks
<1> DEFINE W == ToSet(setup.persistent)
<1> DEFINE g == [p \in D \X W |-> EnsureRule(p[1], p[2])]
<1> DEFINE Body(f) == [t \in SUBSET (DOMAIN s) |-> IF t = {} THEN d ELSE EnsureRule(f[t \ {Max(t)}], s[Max(t)])]
<1> DEFINE r == CHOOSE f : f = Body(f)
<1>1. Len(s) \in Nat /\ DOMAIN s = 1..Len(s) /\ d \in D /\ s \in Seq(W)
  OBVIOUS
<1>2. ASSUME NEW e \in D, NEW w \in W PROVE Stays(e, EnsureRule(e, w)) /\ EnsureRule(e, w) \in D
  BY StaysRule, StaysDesk
<1> HIDE DEF D, W
<1>3. g \in [D \X W -> D] /\ \A e \in D, w \in W : g[<<e, w>>] = EnsureRule(e, w)
  BY <1>2
<1>4. PICK f \in [SUBSET (1..Len(s)) -> D] : LoopBody(d, g, s, f)
  <2> HIDE DEF g
  <2> QED
    BY <1>1, <1>3, LoopExists
<1>5. f = Body(f)
  <2> SUFFICES ASSUME NEW t \in SUBSET (1..Len(s))
               PROVE  f[t] = IF t = {} THEN d ELSE EnsureRule(f[t \ {Max(t)}], s[Max(t)])
    BY <1>1
  <2>1. f[t] = IF t = {} THEN d ELSE g[<<f[t \ {Max(t)}], s[Max(t)]>>]
    BY <1>4 DEF LoopBody
  <2>2. t # {} => Max(t) \in 1..Len(s) /\ f[t \ {Max(t)}] \in D
    BY <1>1, MaxIn
  <2>3. t # {} => s[Max(t)] \in W
    BY <2>2, <1>1
  <2> HIDE DEF g
  <2> QED
    BY <2>1, <2>2, <2>3, <1>3
<1>6. r = Body(r)
  <2> HIDE DEF Body
  <2> QED
    BY <1>5
<1>7. FoldLeft(EnsureRule, d, s) = r[1..Len(s)]
  BY <1>1 DEF FoldLeft, MapThenFoldSet
<1> DEFINE E == {e \in D : Stays(d, e)}
<1> DEFINE P == [k \in 0..Len(s) |-> E]
<1>8. r[1..Len(s)] \in P[Len(s)]
  <2>1. P \in [0..Len(s) -> SUBSET D] /\ d \in P[0]
    BY <1>1, StaysRefl DEF D
  <2>2. r[{}] = d
    BY <1>6
  <2>3. \A t \in SUBSET (1..Len(s)) :
            t # {} /\ r[t \ {Max(t)}] \in D => r[t] = g[<<r[t \ {Max(t)}], s[Max(t)]>>]
    <3> SUFFICES ASSUME NEW t \in SUBSET (1..Len(s)), t # {}, r[t \ {Max(t)}] \in D
                 PROVE  r[t] = g[<<r[t \ {Max(t)}], s[Max(t)]>>]
      OBVIOUS
    <3>1. Max(t) \in 1..Len(s)
      BY <1>1, MaxIn
    <3>2. s[Max(t)] \in W
      BY <3>1, <1>1
    <3>3. r[t] = EnsureRule(r[t \ {Max(t)}], s[Max(t)])
      <4> HIDE DEF r
      <4> QED
        BY <1>6, <1>1
    <3> HIDE DEF r, g
    <3> QED
      BY <3>2, <3>3, <1>3
  <2>4. \A k \in 1..Len(s) : \A e \in P[k-1] : g[<<e, s[k]>>] \in P[k]
    <3> SUFFICES ASSUME NEW k \in 1..Len(s), NEW e \in P[k-1] PROVE g[<<e, s[k]>>] \in P[k]
      OBVIOUS
    <3>1. k - 1 \in 0..Len(s) /\ k \in 0..Len(s) /\ s[k] \in W
      BY <1>1
    <3>2. e \in D /\ Stays(d, e)
      BY <3>1
    <3>3. g[<<e, s[k]>>] = EnsureRule(e, s[k])
      BY <3>1, <3>2, <1>3
    <3> HIDE DEF g
    <3> QED
      BY <3>1, <3>2, <3>3, <1>2, StaysTrans
  <2> HIDE DEF g, P, r
  <2> QED
    BY <2>1, <2>2, <2>3, <2>4, <1>1, <1>3, LoopKeeps
<1> HIDE DEF r
<1>9. Len(s) \in 0..Len(s)
  BY <1>1
<1> QED
  BY <1>7, <1>8, <1>9

(* A window or a rule in force holds w while the rules are applied. *)
Insured(d, w) ==
  (w \in d.persistent /\ w \in InForce(d)) \/ \E x \in Windows \ d.pinned : d.winWs[x] = w

(* ensurePersistentWorkspacesPresent *)
LEMMA EnsurePersistentRecalls ==
  ASSUME IdsNeverRunOut, setup \in Setups, NEW d \in Desks,
         d.persistent \subseteq ToSet(setup.persistent)
  PROVE  LET e == EnsurePersistent(d) IN
         /\ e \in Desks /\ e.persistent \subseteq ToSet(setup.persistent)
         /\ \A w \in All : Insured(d, w) => Kept(e, w) /\ e.last[w] = d.last[w]
<1> DEFINE T == InForce(d)
<1> DEFINE s == Only(setup.persistent, T)
<1> DEFINE W == ToSet(s)
<1> DEFINE q == FoldLeft(EnsureRule, d, s)
<1> DEFINE c == [q EXCEPT !.persistent = W]
<1>1. CASE d.focus = None
  <2>1. EnsurePersistent(d) = d
    BY <1>1 DEF EnsurePersistent
  <2> QED
    BY <2>1 DEF Insured, Kept
<1>2. CASE d.focus # None
  <2>1. s \in Seq(ToSet(setup.persistent)) /\ W = ToSet(setup.persistent) \cap T
    <3>1. setup.persistent \in Seq(DOMAIN setup.bound)
      BY SetupAssumption
    <3>2. setup.persistent \in Seq(ToSet(setup.persistent))
      BY <3>1 DEF ToSet
    <3> HIDE DEF T
    <3> QED
      BY <3>2, OnlySet
  <2>2. EnsurePersistent(d) = Collect(c, {})
    BY <1>2 DEF EnsurePersistent
  <2> HIDE DEF s, W
  <2>3. Stays(d, q) /\ q \in Desks
    BY <2>1, StaysRules, StaysDesk
  <2> HIDE DEF q
  <2>4. W \subseteq Regular /\ W \subseteq ToSet(setup.persistent)
    BY <2>1, RulesRegular
  <2>5. c \in Desks /\ c.persistent = W /\ c.pinned = q.pinned /\ c.last = q.last /\ c.winWs = q.winWs
    BY <2>3, <2>4 DEF Desks
  <2> HIDE DEF c
  <2>6. ASSUME NEW w \in All, Insured(d, w) PROVE Kept(c, w) /\ c.last[w] = d.last[w]
    <3>1. Kept(d, w)
      BY <2>6 DEF Insured, Kept
    <3>2. q.last[w] = d.last[w] /\ q.pinned = d.pinned /\ \A x \in Windows \ d.pinned : q.winWs[x] = d.winWs[x]
      BY <2>3, <3>1, NamesApart DEF Stays, Returns
    <3>3. CASE w \in d.persistent /\ w \in InForce(d)
      <4>1. w \in W
        BY <2>1, <3>3
      <4> QED
        BY <2>5, <3>2, <4>1 DEF Kept
    <3>4. CASE \E x \in Windows \ d.pinned : d.winWs[x] = w
      BY <2>5, <3>2, <3>4 DEF Kept
    <3> QED
      BY <2>6, <3>3, <3>4 DEF Insured
  <2> DEFINE e == Collect(c, {})
  <2>7. Stays(c, e)
    BY <2>5, StaysCollect
  <2> HIDE DEF e
  <2>8. e \in Desks /\ e.persistent \subseteq ToSet(setup.persistent)
    BY <2>4, <2>5, <2>7 DEF Stays, Returns
  <2>9. \A w \in All : Kept(c, w) => Kept(e, w) /\ e.last[w] = c.last[w]
    BY <2>7, NamesApart DEF Stays, Returns, Kept
  <2>10. \A w \in All : Insured(d, w) => Kept(e, w) /\ e.last[w] = d.last[w]
    BY <2>6, <2>9
  <2> QED
    BY <2>2, <2>8, <2>10 DEF e
<1> QED
  BY <1>1, <1>2

(* ensureWorkspacesOnAssignedMonitors *)
LEMMA StaysAssigned ==
  ASSUME IdsNeverRunOut, setup \in Setups, NEW d \in Desks
  PROVE  Stays(d, EnsureAssigned(d))
<1> DEFINE s == d.ws
<1> DEFINE D == Desks
<1> DEFINE W == All
<1> DEFINE Assign(e, w) == MoveWorkspaceToMonitor(e, w, BoundMonitor(e, w), ToSet(d.ws))
<1> DEFINE g == [p \in D \X W |-> Assign(p[1], p[2])]
<1> DEFINE Body(f) == [t \in SUBSET (DOMAIN s) |-> IF t = {} THEN d ELSE Assign(f[t \ {Max(t)}], s[Max(t)])]
<1> DEFINE r == CHOOSE f : f = Body(f)
<1>1. Len(s) \in Nat /\ DOMAIN s = 1..Len(s) /\ d \in D /\ s \in Seq(W)
  <2>1. s \in Seq(All)
    BY DeskFields
  <2> HIDE DEF s
  <2> QED
    BY <2>1
<1>2. ASSUME NEW e \in D, NEW w \in W PROVE Stays(e, Assign(e, w)) /\ Assign(e, w) \in D
  <2> DEFINE m == BoundMonitor(e, w)
  <2>1. m \in MonitorOrNone
    BY BoundIn, DeskFields DEF MonitorOrNone
  <2> HIDE DEF m
  <2>2. LET t == MoveWorkspaceToMonitor(e, w, m, ToSet(d.ws)) IN Stays(e, t) /\ Focused(e, t)
    BY <2>1, StaysMove
  <2>3. Stays(e, Assign(e, w))
    BY <2>2 DEF m
  <2> QED
    BY <2>3, StaysDesk
<1> HIDE DEF D, W, Assign, s
<1>3. g \in [D \X W -> D] /\ \A e \in D, w \in W : g[<<e, w>>] = Assign(e, w)
  BY <1>2
<1>4. PICK f \in [SUBSET (1..Len(s)) -> D] : LoopBody(d, g, s, f)
  <2> HIDE DEF g
  <2> QED
    BY <1>1, <1>3, LoopExists
<1>5. f = Body(f)
  <2> SUFFICES ASSUME NEW t \in SUBSET (1..Len(s))
               PROVE  f[t] = IF t = {} THEN d ELSE Assign(f[t \ {Max(t)}], s[Max(t)])
    BY <1>1
  <2>1. f[t] = IF t = {} THEN d ELSE g[<<f[t \ {Max(t)}], s[Max(t)]>>]
    BY <1>4 DEF LoopBody
  <2>2. t # {} => Max(t) \in 1..Len(s) /\ f[t \ {Max(t)}] \in D
    BY <1>1, MaxIn
  <2>3. t # {} => s[Max(t)] \in W
    BY <2>2, <1>1
  <2> HIDE DEF g
  <2> QED
    BY <2>1, <2>2, <2>3, <1>3
<1>6. r = Body(r)
  <2> HIDE DEF Body
  <2> QED
    BY <1>5
<1>7. EnsureAssigned(d) = r[1..Len(s)]
  BY <1>1 DEF EnsureAssigned, FoldLeft, MapThenFoldSet, Assign, s
<1> DEFINE E == {e \in D : Stays(d, e)}
<1> DEFINE P == [k \in 0..Len(s) |-> E]
<1>8. r[1..Len(s)] \in P[Len(s)]
  <2>1. P \in [0..Len(s) -> SUBSET D] /\ d \in P[0]
    BY <1>1, StaysRefl DEF D
  <2>2. r[{}] = d
    BY <1>6
  <2>3. \A t \in SUBSET (1..Len(s)) :
            t # {} /\ r[t \ {Max(t)}] \in D => r[t] = g[<<r[t \ {Max(t)}], s[Max(t)]>>]
    <3> SUFFICES ASSUME NEW t \in SUBSET (1..Len(s)), t # {}, r[t \ {Max(t)}] \in D
                 PROVE  r[t] = g[<<r[t \ {Max(t)}], s[Max(t)]>>]
      OBVIOUS
    <3>1. Max(t) \in 1..Len(s)
      BY <1>1, MaxIn
    <3>2. s[Max(t)] \in W
      BY <3>1, <1>1
    <3>3. r[t] = Assign(r[t \ {Max(t)}], s[Max(t)])
      <4> HIDE DEF r
      <4> QED
        BY <1>6, <1>1
    <3> HIDE DEF r, g
    <3> QED
      BY <3>2, <3>3, <1>3
  <2>4. \A k \in 1..Len(s) : \A e \in P[k-1] : g[<<e, s[k]>>] \in P[k]
    <3> SUFFICES ASSUME NEW k \in 1..Len(s), NEW e \in P[k-1] PROVE g[<<e, s[k]>>] \in P[k]
      OBVIOUS
    <3>1. k - 1 \in 0..Len(s) /\ k \in 0..Len(s) /\ s[k] \in W
      BY <1>1
    <3>2. e \in D /\ Stays(d, e)
      BY <3>1
    <3>3. g[<<e, s[k]>>] = Assign(e, s[k])
      BY <3>1, <3>2, <1>3
    <3> HIDE DEF g
    <3> QED
      BY <3>1, <3>2, <3>3, <1>2, StaysTrans
  <2> HIDE DEF g, P, r
  <2> QED
    BY <2>1, <2>2, <2>3, <2>4, <1>1, <1>3, LoopKeeps
<1> HIDE DEF r
<1>9. Len(s) \in 0..Len(s)
  BY <1>1
<1> QED
  BY <1>7, <1>8, <1>9

(* CMonitor::setupDefaultWS: the default workspace starts anew. *)
LEMMA StartReturns ==
  ASSUME IdsNeverRunOut, setup \in Setups, NEW d \in Desks, NEW m \in Outputs,
         NEW v \in Regular
  PROVE  Returns(d, StartOn(d, v, m), m, v)
<1> DEFINE b == IF IsLive(d, v) THEN MoveWorkspaceToMonitor(d, v, m, {}) ELSE NewWorkspace(d, v, m)
<1> DEFINE e == Started(b, v, m)
<1>0. v \in All /\ v \in All \cup {None} /\ m \in MonitorOrNone /\ None \in MonitorOrNone
  BY NamesApart DEF MonitorOrNone
<1>1. StartOn(d, v, m) = e
  BY DEF StartOn, Started
<1>2. Stays(d, b) /\ b \in Desks
  <2>1. LET t == MoveWorkspaceToMonitor(d, v, m, {}) IN Stays(d, t) /\ Focused(d, t)
    BY <1>0, StaysMove
  <2>2. LET t == NewWorkspace(d, v, m) IN Stays(d, t) /\ t.focus = d.focus /\ t.last = d.last
    BY <1>0, OwnersNew, OwnersStay
  <2>3. b \in {MoveWorkspaceToMonitor(d, v, m, {}), NewWorkspace(d, v, m)}
    OBVIOUS
  <2> HIDE DEF b
  <2> QED
    BY <2>1, <2>2, <2>3, StaysDesk
<1> HIDE DEF b
<1>3. e \in Desks /\ e.pinned = b.pinned /\ e.persistent = b.persistent
      /\ e.last = [b.last EXCEPT ![v] = None] /\ e.winWs = b.winWs
  BY <1>0, <1>2 DEF Started, Desks
<1> HIDE DEF e
<1>4. \A w \in All : w = v \/ e.last[w] = b.last[w]
  BY <1>2, <1>3, DeskFields
<1>5. Returns(b, e, m, v)
  BY <1>3, <1>4 DEF Returns
<1>6. Returns(d, b, m, v)
  BY <1>2, StaysReturns
<1> QED
  BY <1>1, <1>5, <1>6, ReturnsTrans

(* The loop of onConnect over all workspaces: those that were last here are
   not owed to m any more. *)
LEMMA ReturnReturns ==
  ASSUME IdsNeverRunOut, setup \in Setups, NEW d \in Desks, NEW m \in Outputs, NEW v
  PROVE  Returns(d, ReturnWorkspaces(d, m), m, v)
<1> DEFINE s == d.ws
<1> DEFINE D == Desks
<1> DEFINE W == All
<1> DEFINE Moves(e, w) ==
      IF e.last[w] = m \/ Recovery(e, w) THEN MoveWorkspaceToMonitor(e, w, m, ToSet(d.ws)) ELSE e
<1> DEFINE Take(e, w) == [Moves(e, w) EXCEPT !.last[w] = IF @ = m THEN None ELSE @]
<1> DEFINE g == [p \in D \X W |-> Take(p[1], p[2])]
<1> DEFINE Body(f) == [t \in SUBSET (DOMAIN s) |-> IF t = {} THEN d ELSE Take(f[t \ {Max(t)}], s[Max(t)])]
<1> DEFINE r == CHOOSE f : f = Body(f)
<1>0. m \in MonitorOrNone /\ None \in MonitorOrNone /\ m \in Outputs \cup {None}
  BY DEF MonitorOrNone
<1>1. Len(s) \in Nat /\ DOMAIN s = 1..Len(s) /\ d \in D /\ s \in Seq(W)
  <2>1. s \in Seq(All)
    BY DeskFields
  <2> HIDE DEF s
  <2> QED
    BY <2>1
<1>2. ASSUME NEW e \in D, NEW w \in W PROVE Returns(e, Take(e, w), m, v) /\ Take(e, w) \in D
  <2> DEFINE b == Moves(e, w)
  <2> DEFINE t == [b EXCEPT !.last[w] = IF @ = m THEN None ELSE @]
  <2>1. Stays(e, b) /\ b \in Desks
    <3>1. LET c == MoveWorkspaceToMonitor(e, w, m, ToSet(d.ws)) IN Stays(e, c) /\ Focused(e, c)
      BY <1>0, StaysMove
    <3>2. b \in {e, MoveWorkspaceToMonitor(e, w, m, ToSet(d.ws))}
      OBVIOUS
    <3> HIDE DEF b
    <3> QED
      BY <3>1, <3>2, StaysRefl, StaysDesk
  <2> HIDE DEF b
  <2>2. t \in Desks /\ t.pinned = b.pinned /\ t.persistent = b.persistent /\ t.winWs = b.winWs
        /\ t.last = [b.last EXCEPT ![w] = IF @ = m THEN None ELSE @]
    BY <1>0, <2>1 DEF Desks
  <2> HIDE DEF t
  <2>3. \A u \in All : t.last[u] = b.last[u] \/ (b.last[u] = m /\ t.last[u] = None)
    BY <2>1, <2>2, DeskFields
  <2>4. Returns(b, t, m, v)
    BY <2>2, <2>3 DEF Returns
  <2>5. Returns(e, b, m, v)
    BY <2>1, StaysReturns
  <2>6. Returns(e, t, m, v)
    BY <1>0, <2>4, <2>5, ReturnsTrans
  <2> QED
    BY <2>2, <2>6 DEF t, b
<1> HIDE DEF D, W, Take, Moves, s
<1>3. g \in [D \X W -> D] /\ \A e \in D, w \in W : g[<<e, w>>] = Take(e, w)
  BY <1>2
<1>4. PICK f \in [SUBSET (1..Len(s)) -> D] : LoopBody(d, g, s, f)
  <2> HIDE DEF g
  <2> QED
    BY <1>1, <1>3, LoopExists
<1>5. f = Body(f)
  <2> SUFFICES ASSUME NEW t \in SUBSET (1..Len(s))
               PROVE  f[t] = IF t = {} THEN d ELSE Take(f[t \ {Max(t)}], s[Max(t)])
    BY <1>1
  <2>1. f[t] = IF t = {} THEN d ELSE g[<<f[t \ {Max(t)}], s[Max(t)]>>]
    BY <1>4 DEF LoopBody
  <2>2. t # {} => Max(t) \in 1..Len(s) /\ f[t \ {Max(t)}] \in D
    BY <1>1, MaxIn
  <2>3. t # {} => s[Max(t)] \in W
    BY <2>2, <1>1
  <2> HIDE DEF g
  <2> QED
    BY <2>1, <2>2, <2>3, <1>3
<1>6. r = Body(r)
  <2> HIDE DEF Body
  <2> QED
    BY <1>5
<1>7. ReturnWorkspaces(d, m) = Collect(r[1..Len(s)], {})
  BY <1>1 DEF ReturnWorkspaces, FoldLeft, MapThenFoldSet, Take, s, Moves
<1> DEFINE E == {e \in D : Returns(d, e, m, v)}
<1> DEFINE P == [k \in 0..Len(s) |-> E]
<1>8. r[1..Len(s)] \in P[Len(s)]
  <2>1. P \in [0..Len(s) -> SUBSET D] /\ d \in P[0]
    BY <1>1, StaysRefl, StaysReturns DEF D
  <2>2. r[{}] = d
    BY <1>6
  <2>3. \A t \in SUBSET (1..Len(s)) :
            t # {} /\ r[t \ {Max(t)}] \in D => r[t] = g[<<r[t \ {Max(t)}], s[Max(t)]>>]
    <3> SUFFICES ASSUME NEW t \in SUBSET (1..Len(s)), t # {}, r[t \ {Max(t)}] \in D
                 PROVE  r[t] = g[<<r[t \ {Max(t)}], s[Max(t)]>>]
      OBVIOUS
    <3>1. Max(t) \in 1..Len(s)
      BY <1>1, MaxIn
    <3>2. s[Max(t)] \in W
      BY <3>1, <1>1
    <3>3. r[t] = Take(r[t \ {Max(t)}], s[Max(t)])
      <4> HIDE DEF r
      <4> QED
        BY <1>6, <1>1
    <3> HIDE DEF r, g
    <3> QED
      BY <3>2, <3>3, <1>3
  <2>4. \A k \in 1..Len(s) : \A e \in P[k-1] : g[<<e, s[k]>>] \in P[k]
    <3> SUFFICES ASSUME NEW k \in 1..Len(s), NEW e \in P[k-1] PROVE g[<<e, s[k]>>] \in P[k]
      OBVIOUS
    <3>1. k - 1 \in 0..Len(s) /\ k \in 0..Len(s) /\ s[k] \in W
      BY <1>1
    <3>2. e \in D /\ Returns(d, e, m, v)
      BY <3>1
    <3>3. g[<<e, s[k]>>] = Take(e, s[k])
      BY <3>1, <3>2, <1>3
    <3> HIDE DEF g
    <3> QED
      BY <3>1, <3>2, <3>3, <1>2, ReturnsTrans
  <2> HIDE DEF g, P, r
  <2> QED
    BY <2>1, <2>2, <2>3, <2>4, <1>1, <1>3, LoopKeeps
<1>9. Len(s) \in 0..Len(s)
  BY <1>1
<1> DEFINE q == r[1..Len(s)]
<1>10. Returns(d, q, m, v) /\ q \in Desks
  BY <1>8, <1>9 DEF D
<1> HIDE DEF q
<1>11. LET e == Collect(q, {}) IN
         /\ Stays(q, e) /\ e.focus = q.focus
         /\ \A w \in Live(e) : e.last[w] = q.last[w]
  BY <1>10, StaysCollect
<1>12. Returns(q, Collect(q, {}), m, v)
  BY <1>11, StaysReturns
<1>13. Returns(d, Collect(q, {}), m, v)
  BY <1>10, <1>12, ReturnsTrans
<1> QED
  BY <1>7, <1>13 DEF q

(* CMonitor::onConnect *)
LEMMA ConnectReturns ==
  ASSUME IdsNeverRunOut, setup \in Setups, NEW d \in Desks, NEW m \in Outputs
  PROVE  LET e == OnConnect(d, m) IN
         Returns(d, e, m, DefaultWorkspace(d, m)) /\ m \in ToSet(e.mons)
<1> DEFINE v == DefaultWorkspace(d, m)
<1> DEFINE a == SetupDefaultWS(d, m)
<1> DEFINE b == ReturnWorkspaces(a, m)
<1> DEFINE f == WithFocus(b, m)
<1> DEFINE h == ShowRemembered(f, m)
<1> DEFINE ff == IF OnList(d, d.focus) THEN h.focus ELSE m
<1> DEFINE c == [h EXCEPT !.focus = ff, !.mons = Append(@, m)]
<1> DEFINE e == OnConnect(d, m)
<1>0. v \in Regular /\ m \in Outputs \cup {None} /\ m \in MonitorOrNone
  BY DefaultIn DEF MonitorOrNone
<1>1. Returns(d, a, m, v) /\ a \in Desks
  <2>1. a = StartOn(d, v, m)
    BY DEF SetupDefaultWS
  <2> HIDE DEF a, v
  <2>2. Returns(d, a, m, v)
    BY <1>0, <2>1, StartReturns
  <2> QED
    BY <2>2 DEF Returns
<1>2. e = Collect(c, {})
  BY DEF OnConnect, Added
<1> HIDE DEF a, v, e
<1>3. Returns(a, b, m, v) /\ b \in Desks
  <2>1. Returns(a, b, m, v)
    BY <1>1, ReturnReturns
  <2> QED
    BY <2>1 DEF Returns
<1> HIDE DEF b
<1>4. Stays(b, f) /\ f \in Desks
  <2> DEFINE o == IF b.focus = None THEN m ELSE b.focus
  <2>1. o \in MonitorOrNone
    BY <1>0, <1>3, DeskFields DEF MonitorOrNone
  <2>2. f = [b EXCEPT !.focus = o]
    BY DEF WithFocus
  <2> HIDE DEF o, f
  <2> QED
    BY <1>3, <2>1, <2>2, OwnersFocus, OwnersStay, StaysDesk
<1> HIDE DEF f
<1>5. Stays(f, h) /\ h \in Desks
  <2> DEFINE w == f.seen[m]
  <2> DEFINE t == MoveWorkspaceToMonitor(f, w, m, {})
  <2>1. w \in All \cup {None}
    BY <1>4, DeskFields, NamesApart
  <2>2. h \in {f, ChangeWorkspace(t, m, w, TRUE)}
    BY DEF ShowRemembered
  <2> HIDE DEF w, h
  <2>3. Stays(f, t) /\ t \in Desks
    <3>1. LET u == MoveWorkspaceToMonitor(f, w, m, {}) IN Stays(f, u) /\ Focused(f, u)
      BY <1>0, <1>4, <2>1, StaysMove
    <3> QED
      BY <3>1, StaysDesk
  <2> HIDE DEF t
  <2>4. LET u == ChangeWorkspace(t, m, w, TRUE) IN Stays(t, u) /\ u.focus \in {t.focus, m}
    BY <2>1, <2>3, OwnersChange, OwnersStay
  <2>5. Stays(f, h)
    BY <1>4, <2>2, <2>3, <2>4, StaysTrans, StaysRefl
  <2> QED
    BY <2>5, StaysDesk
<1> HIDE DEF h
<1>6. ff \in MonitorOrNone
  BY <1>0, <1>5, DeskFields DEF MonitorOrNone
<1> HIDE DEF ff
<1>7. /\ c \in Desks /\ c.pinned = h.pinned /\ c.persistent = h.persistent /\ c.last = h.last
      /\ c.winWs = h.winWs /\ c.mons = Append(h.mons, m)
  <2>1. Append(h.mons, m) \in Seq(Outputs)
    BY <1>5, DeskFields
  <2> QED
    BY <1>5, <1>6, <2>1 DEF Desks
<1> HIDE DEF c
<1>8. Stays(h, c)
  BY <1>7, OwnersSame, OwnersStay
<1>9. Stays(c, e) /\ e.mons = c.mons
  <2>1. Collect(c, {}).mons = c.mons
    BY <1>7 DEF Collect, Keep, Desks
  <2> QED
    BY <1>2, <1>7, <2>1, StaysCollect
<1>10. m \in ToSet(e.mons)
  BY <1>5, <1>7, <1>9, DeskFields, AppendSet
<1>11. Stays(b, e)
  BY <1>4, <1>5, <1>8, <1>9, StaysTrans
<1>12. Returns(b, e, m, v)
  BY <1>11, StaysReturns
<1>13. Returns(d, e, m, v)
  BY <1>0, <1>1, <1>3, <1>12, ReturnsTrans
<1> QED
  BY <1>10, <1>13 DEF v, e

(***************************************************************************)
(* Handlers.                                                               *)
(***************************************************************************)

(* Persistent workspaces have a rule. *)
Typed == desk \in Desks /\ setup \in Setups /\ desk.persistent \subseteq ToSet(setup.persistent)

(* FirstOwnerKept, of one step *)
OwnersKept ==
  \A w \in All : KeptAlive(w) /\ desk.last[w] # None /\ desk'.last[w] # desk.last[w] =>
    \/ w \notin ToSet(desk'.ws)
    \/ desk.last[w] \in ToSet(desk'.mons) /\ desk'.last[w] = None
    \/ \E m \in ToSet(desk'.mons) \ Monitors : DefaultWorkspace(desk, m) = w

(* The hypothesis of FirstOwnerKept, in the terms of this proof. *)
LEMMA AliveKept ==
  ASSUME NEW w, KeptAlive(w)
  PROVE  Kept(desk, w)
  BY DEF KeptAlive, Kept

(* A handler ends by dropping what nobody holds. *)
LEMMA DoneOwners ==
  ASSUME Typed, NEW e \in Desks, e.persistent \subseteq ToSet(setup.persistent), Done(e)
  PROVE  /\ Typed' /\ desk'.mons = e.mons
         /\ \A w \in ToSet(desk'.ws) : desk'.last[w] = e.last[w]
<1> DEFINE c == Collect(e, {})
<1>1. desk' = c /\ setup' = setup
  BY DEF Done
<1>2. c.mons = e.mons
  BY DEF Collect, Keep, Desks
<1> HIDE DEF c
<1>3. Stays(e, c) /\ \A w \in Live(c) : c.last[w] = e.last[w]
  BY StaysCollect DEF c
<1>4. c \in Desks /\ c.persistent \subseteq ToSet(setup.persistent)
  BY <1>3 DEF Stays, Returns
<1>5. Typed'
  BY <1>1, <1>4 DEF Typed
<1> QED
  BY <1>1, <1>2, <1>3, <1>5 DEF Live

(* A handler that forgets no owner of what is held. *)
LEMMA ServedOwners ==
  ASSUME Typed, NEW e \in Desks, e.persistent \subseteq ToSet(setup.persistent), Done(e),
         \A w \in All : Kept(desk, w) /\ desk.last[w] # None => e.last[w] = desk.last[w]
  PROVE  Typed' /\ OwnersKept
<1>1. Typed' /\ \A w \in ToSet(desk'.ws) : desk'.last[w] = e.last[w]
  BY DoneOwners
<1>2. OwnersKept
  BY <1>1, AliveKept DEF OwnersKept
<1> QED
  BY <1>1, <1>2

(* The same for a handler that is one step of the kind above. *)
LEMMA StaysServed ==
  ASSUME Typed, NEW e, Stays(desk, e), Done(e)
  PROVE  Typed' /\ OwnersKept
<1>1. e \in Desks /\ e.persistent \subseteq ToSet(setup.persistent)
  BY DEF Stays, Returns, Typed
<1>2. \A w \in All : Kept(desk, w) => e.last[w] = desk.last[w]
  BY NamesApart DEF Stays, Returns
<1> QED
  BY <1>1, <1>2, ServedOwners

(* A handler that moves or pins a window first: b is what it starts from. *)
LEMMA OwnersServed ==
  ASSUME Typed, NEW b \in Desks, b.persistent = desk.persistent, b.last = desk.last,
         NEW e, SameOwners(b, e), Done(e)
  PROVE  Typed' /\ OwnersKept
<1>1. e \in Desks /\ e.persistent \subseteq ToSet(setup.persistent) /\ e.last = desk.last
  BY DEF SameOwners, Stays, Returns, Typed
<1> QED
  BY <1>1, ServedOwners

(***************************************************************************)
(* The dispatchers and the windows.                                        *)
(***************************************************************************)
LEMMA ResolvedOwners ==
  ASSUME Typed, NEW w \in All
  PROVE  LET d == Resolved(w) IN SameOwners(desk, d) /\ d.focus = desk.focus /\ d \in Desks
<1>1. desk \in Desks /\ desk.focus \in MonitorOrNone
  BY DeskFields DEF Typed, MonitorOrNone
<1>2. LET e == Create(desk, w, desk.focus) IN
      SameOwners(desk, e) /\ e.focus = desk.focus /\ e.last = desk.last
  BY <1>1, OwnersCreate DEF Typed
<1>3. Resolved(w) \in {desk, Create(desk, w, desk.focus)}
  BY DEF Resolved
<1> QED
  BY <1>1, <1>2, <1>3, OwnersRefl, OwnersStay

(* What the user asks for are workspaces and windows. *)
LEMMA AskedFor ==
  ASSUME Typed
  PROVE  setup.asked \subseteq All /\ setup.windows \subseteq Windows
  BY SetupAssumption DEF Typed

(* Actions::changeWorkspace, on the monitor of the workspace, *)
LEMMA OwnersShowOn ==
  ASSUME NEW d \in Desks, NEW w \in All, NEW m \in Outputs
  PROVE  LET e == ShowOn(d, w, m) IN SameOwners(d, e) /\ e.focus # None /\ e \in Desks
<1> DEFINE f == [d EXCEPT !.focus = m]
<1> DEFINE r == Replaced(f, m)
<1>0. m \in MonitorOrNone /\ m # None /\ w \in All \cup {None} /\ FALSE \in BOOLEAN
  BY NamesApart DEF MonitorOrNone
<1>1. SameOwners(d, f) /\ f.focus = m /\ f \in Desks
  BY <1>0, OwnersFocus, OwnersStay
<1>2. ShowOn(d, w, m) = ChangeWorkspace(r, m, w, FALSE)
  BY DEF ShowOn
<1> HIDE DEF f
<1>3. SameOwners(f, r) /\ r.focus # None /\ r \in Desks
  BY <1>0, <1>1, OwnersReplaced, OwnersStay DEF Focused
<1> HIDE DEF r
<1>4. LET e == ChangeWorkspace(r, m, w, FALSE) IN SameOwners(r, e) /\ e.focus \in {r.focus, m}
  BY <1>0, <1>3, OwnersChange
<1> DEFINE e == ChangeWorkspace(r, m, w, FALSE)
<1>5. SameOwners(r, e) /\ e.focus # None
  BY <1>0, <1>3, <1>4
<1> HIDE DEF e
<1>6. SameOwners(d, e) /\ e \in Desks
  <2>1. SameOwners(d, r)
    BY <1>1, <1>3, OwnersTrans
  <2>2. SameOwners(d, e)
    BY <1>5, <2>1, OwnersTrans
  <2> QED
    BY <2>2, OwnersStay
<1> QED
  BY <1>2, <1>5, <1>6 DEF e

(* and as a whole. *)
LEMMA OwnersShowWorkspace ==
  ASSUME NEW d \in Desks, d.focus # None, NEW w \in All
  PROVE  SameOwners(d, ShowWorkspace(d, w)) /\ ShowWorkspace(d, w).focus # None
<1>0. d.focus \in Outputs /\ d.home[w] \in Outputs \cup {None}
  BY DeskFields
<1>1. CASE w \in Special
  <2>1. ShowWorkspace(d, w) = SetSpecialWorkspace(d, d.focus, w)
    BY <1>1 DEF ShowWorkspace
  <2>2. LET e == SetSpecialWorkspace(d, d.focus, w) IN
         SameOwners(d, e) /\ e.focus \in {d.focus, d.focus} /\ e.active = d.active
    BY <1>0, <1>1, OwnersSetSpecial
  <2> QED
    BY <2>1, <2>2
<1>2. CASE w \notin Special /\ d.home[w] = None
  BY <1>2, OwnersRefl DEF ShowWorkspace
<1>3. CASE w \notin Special /\ d.home[w] # None /\ d.home[w] = d.focus
  BY <1>0, <1>3, OwnersShowOn DEF ShowWorkspace
<1>4. CASE w \notin Special /\ d.home[w] # None /\ d.home[w] # d.focus
  <2> DEFINE s == ShowOn(d, w, d.home[w])
  <2>1. SameOwners(d, s) /\ s.focus # None /\ s \in Desks
    BY <1>0, <1>4, OwnersShowOn
  <2>2. ShowWorkspace(d, w) = FocusCandidate(s, w)
    BY <1>4 DEF ShowWorkspace
  <2> HIDE DEF s
  <2>3. LET e == FocusCandidate(s, w) IN SameOwners(s, e) /\ Focused(s, e)
    BY <2>1, OwnersCandidate
  <2> QED
    BY <2>1, <2>2, <2>3, OwnersTrans DEF Focused
<1> QED
  BY <1>1, <1>2, <1>3, <1>4

(* No event forgets an owner: the dispatcher changeWorkspace, *)
LEMMA ChangeToOwners ==
  ASSUME Typed, NEW w \in setup.asked, ChangeTo(w)
  PROVE  Typed' /\ OwnersKept
<1> DEFINE d == Resolved(w)
<1> DEFINE e == ShowWorkspace(d, w)
<1>1. w \in All /\ desk.focus # None /\ Done(e)
  BY AskedFor DEF ChangeTo, Served
<1>2. SameOwners(desk, d) /\ d.focus = desk.focus /\ d \in Desks
  BY <1>1, ResolvedOwners
<1> HIDE DEF d
<1>3. SameOwners(d, e)
  BY <1>1, <1>2, OwnersShowWorkspace
<1> HIDE DEF e
<1>4. Stays(desk, e)
  BY <1>2, <1>3, OwnersTrans, OwnersStay
<1> QED
  BY <1>1, <1>4, StaysServed

(* changeWorkspaceOnCurrentMonitor, *)
LEMMA BringHereOwners ==
  ASSUME IdsNeverRunOut, Typed, NEW w \in setup.asked, BringHere(w)
  PROVE  Typed' /\ OwnersKept
<1> DEFINE d == Resolved(w)
<1> DEFINE owner == d.home[w]
<1> DEFINE s == SwapActiveWorkspaces(d, owner, d.focus)
<1> DEFINE t == MoveWorkspaceToMonitor(d, w, d.focus, {})
<1> DEFINE e == ShowWorkspace(t, w)
<1>1. w \in All /\ desk.focus # None /\ owner # None /\ (Done(s) \/ Done(e))
  BY AskedFor DEF BringHere, Served
<1>2. SameOwners(desk, d) /\ d.focus = desk.focus /\ d \in Desks
  BY <1>1, ResolvedOwners
<1> HIDE DEF d
<1>3. d.focus \in Outputs /\ d.focus \in MonitorOrNone /\ owner \in Outputs /\ d.focus # None
  BY <1>1, <1>2, DeskFields DEF MonitorOrNone
<1>4. SameOwners(d, s)
  BY <1>2, <1>3, OwnersSwap
<1>5. Stays(d, t) /\ t.focus # None /\ t \in Desks
  <2>1. LET u == MoveWorkspaceToMonitor(d, w, d.focus, {}) IN Stays(d, u) /\ Focused(d, u)
    BY <1>1, <1>2, <1>3, StaysMove DEF Typed
  <2> QED
    BY <1>3, <2>1, StaysDesk DEF Focused
<1> HIDE DEF s, t
<1>6. SameOwners(t, e)
  BY <1>1, <1>5, OwnersShowWorkspace
<1> HIDE DEF e
<1>7. Stays(desk, s) /\ Stays(desk, e)
  BY <1>2, <1>4, <1>5, <1>6, OwnersStay, StaysTrans
<1> QED
  BY <1>1, <1>7, StaysServed

(* moveWorkspaceToMonitor, *)
LEMMA MoveToMonitorOwners ==
  ASSUME IdsNeverRunOut, Typed, NEW w \in All, NEW m \in Outputs, MoveToMonitor(w, m)
  PROVE  Typed' /\ OwnersKept
<1> DEFINE e == MoveWorkspaceToMonitor(desk, w, m, {})
<1>1. Done(e) /\ m \in MonitorOrNone
  BY DEF MoveToMonitor, Served, MonitorOrNone
<1>2. LET t == MoveWorkspaceToMonitor(desk, w, m, {}) IN Stays(desk, t) /\ Focused(desk, t)
  BY <1>1, StaysMove DEF Typed
<1> HIDE DEF e
<1> QED
  BY <1>1, <1>2, StaysServed DEF e

(* toggleSpecial, *)
LEMMA ToggleSpecialOwners ==
  ASSUME Typed, NEW w \in All, ToggleSpecial(w)
  PROVE  Typed' /\ OwnersKept
<1> DEFINE d == Resolved(w)
<1> DEFINE v == IF desk.special[desk.focus] = w THEN None ELSE w
<1> DEFINE e == SetSpecialWorkspace(d, desk.focus, v)
<1>1. v \in Special \cup {None} /\ desk.focus # None /\ Done(e)
  BY DEF ToggleSpecial, Served
<1>2. SameOwners(desk, d) /\ d \in Desks
  BY ResolvedOwners
<1>3. desk.focus \in Outputs
  BY <1>1, DeskFields DEF Typed
<1> HIDE DEF d, v
<1>4. SameOwners(d, e)
  BY <1>1, <1>2, <1>3, OwnersSetSpecial
<1> HIDE DEF e
<1>5. Stays(desk, e)
  BY <1>2, <1>4, OwnersTrans, OwnersStay
<1> QED
  BY <1>1, <1>5, StaysServed

(* swapActiveWorkspaces, *)
LEMMA SwapOwners ==
  ASSUME Typed, NEW a \in Outputs, NEW b \in Outputs, Swap(a, b)
  PROVE  Typed' /\ OwnersKept
<1> DEFINE e == SwapActiveWorkspaces(desk, a, b)
<1>1. Done(e)
  BY DEF Swap, Served
<1>2. SameOwners(desk, e)
  BY OwnersSwap DEF Typed
<1> HIDE DEF e
<1> QED
  BY <1>1, <1>2, OwnersStay, StaysServed

(* tryMoveFocusToMonitor, *)
LEMMA FocusMonitorOwners ==
  ASSUME Typed, NEW m \in Outputs, FocusMonitor(m)
  PROVE  Typed' /\ OwnersKept
<1> DEFINE w == IF desk.special[m] # None THEN desk.special[m] ELSE desk.active[m]
<1> DEFINE c == FocusCandidate(desk, w)
<1> DEFINE e == [c EXCEPT !.focus = m]
<1>1. desk.focus # None /\ Done(e) /\ m \in MonitorOrNone
  BY DEF FocusMonitor, Served, MonitorOrNone
<1> HIDE DEF w
<1>2. SameOwners(desk, c) /\ c \in Desks
  BY <1>1, OwnersCandidate, OwnersStay DEF Typed
<1> HIDE DEF c
<1>3. SameOwners(c, e)
  BY <1>1, <1>2, OwnersFocus
<1> HIDE DEF e
<1>4. Stays(desk, e)
  BY <1>2, <1>3, OwnersTrans, OwnersStay
<1> QED
  BY <1>1, <1>4, StaysServed

(* a window that is mapped, *)
LEMMA MapWindowOwners ==
  ASSUME Typed, NEW x \in Windows, MapWindow(x)
  PROVE  Typed' /\ OwnersKept
<1> DEFINE m == desk.focus
<1> DEFINE w == IF desk.special[m] # None THEN desk.special[m] ELSE desk.active[m]
<1> DEFINE e == [desk EXCEPT !.winWs[x] = w, !.winMon[x] = m]
<1>1. m # None /\ Done(e)
  BY DEF MapWindow, Served
<1>2. m \in MonitorOrNone /\ w \in All \cup {None}
  BY <1>1, DeskFields, NamesApart DEF Typed, MonitorOrNone
<1> HIDE DEF m, w
<1>3. e \in Desks /\ e.persistent = desk.persistent /\ e.last = desk.last
  BY <1>2 DEF Typed, Desks
<1> HIDE DEF e
<1> QED
  BY <1>1, <1>3, OwnersRefl, OwnersServed

(* unmapped, *)
LEMMA UnmapWindowOwners ==
  ASSUME Typed, NEW x \in Windows, UnmapWindow(x)
  PROVE  Typed' /\ OwnersKept
<1> DEFINE m == desk.winMon[x]
<1> DEFINE b == [desk EXCEPT !.winWs[x] = None, !.winMon[x] = None, !.pinned = @ \ {x}]
<1> DEFINE e == SetSpecialWorkspace(b, m, None)
<1>1. Done(b) \/ (m # None /\ Done(e))
  BY DEF UnmapWindow, Served
<1>2. m \in Outputs \cup {None} /\ None \in MonitorOrNone
  BY DeskFields DEF Typed, MonitorOrNone
<1>3. b \in Desks /\ b.persistent = desk.persistent /\ b.last = desk.last
  BY <1>2 DEF Typed, Desks
<1> HIDE DEF b, m
<1>4. m # None => SameOwners(b, e)
  BY <1>2, <1>3, OwnersSetSpecial
<1> HIDE DEF e
<1> QED
  BY <1>1, <1>3, <1>4, OwnersRefl, OwnersServed

(* pinned or let go, *)
LEMMA PinWindowOwners ==
  ASSUME Typed, NEW x \in Windows, PinWindow(x)
  PROVE  Typed' /\ OwnersKept
<1> DEFINE w == desk.active[desk.winMon[x]]
<1> DEFINE p == IF x \in desk.pinned THEN desk.pinned \ {x} ELSE desk.pinned \cup {x}
<1> DEFINE e == [desk EXCEPT !.pinned = p, !.winWs[x] = w, !.winMon[x] = desk.home[w]]
<1>1. w # None /\ Done(e)
  BY DEF PinWindow, Served
<1>2. w \in All /\ desk.home[w] \in MonitorOrNone /\ p \subseteq Windows
  <2>1. desk.winMon[x] \in Outputs
    BY DeskFields DEF PinWindow, Typed
  <2>2. w \in All
    BY <1>1, <2>1, DeskFields, NamesApart DEF Typed
  <2> HIDE DEF w
  <2> QED
    BY <2>2, DeskFields DEF Typed, MonitorOrNone
<1> HIDE DEF w, p
<1>3. e \in Desks /\ e.persistent = desk.persistent /\ e.last = desk.last
  BY <1>2 DEF Typed, Desks
<1> HIDE DEF e
<1> QED
  BY <1>1, <1>3, OwnersRefl, OwnersServed

(* focused, *)
LEMMA ClickWindowOwners ==
  ASSUME Typed, NEW x \in Windows, ClickWindow(x)
  PROVE  Typed' /\ OwnersKept
<1> DEFINE e == FocusWindow(desk, x)
<1>1. desk.focus # None /\ Done(e)
  BY DEF ClickWindow, Served
<1>2. SameOwners(desk, e)
  BY <1>1, OwnersFocusWindow DEF Typed
<1> HIDE DEF e
<1> QED
  BY <1>1, <1>2, OwnersStay, StaysServed

(* be it on another workspace, *)
LEMMA GoToWindowOwners ==
  ASSUME Typed, NEW x \in Windows, GoToWindow(x)
  PROVE  Typed' /\ OwnersKept
<1> DEFINE w == desk.winWs[x]
<1>1. PICK d \in {desk, ShowWorkspace(desk, w)} :
        w # None /\ desk.focus # None /\ Done(FocusWindow(d, x))
  BY DEF GoToWindow, Served
<1>2. w \in All /\ desk \in Desks
  BY <1>1, DeskFields DEF Typed
<1> HIDE DEF w
<1>3. SameOwners(desk, d) /\ d.focus # None
  BY <1>1, <1>2, OwnersShowWorkspace, OwnersRefl
<1>4. d \in Desks
  BY <1>3, OwnersStay
<1> DEFINE e == FocusWindow(d, x)
<1>5. SameOwners(d, e)
  BY <1>3, <1>4, OwnersFocusWindow
<1> HIDE DEF e
<1>6. SameOwners(desk, e)
  BY <1>3, <1>5, OwnersTrans
<1> QED
  BY <1>1, <1>6, OwnersStay, StaysServed DEF e

(* or moved to another workspace. *)
LEMMA MoveWindowOwners ==
  ASSUME Typed, NEW x \in Windows, NEW w \in setup.asked, NEW silent \in BOOLEAN,
         MoveWindow(x, w, silent)
  PROVE  Typed' /\ OwnersKept
<1> DEFINE d == Resolved(w)
<1> DEFINE m == d.home[w]
<1> DEFINE old == d.winWs[x]
<1> DEFINE b == [d EXCEPT !.winWs[x] = w, !.winMon[x] = m]
<1> DEFINE f == [b EXCEPT !.focus = m]
<1> DEFINE g == Followed(f, w, m, old)
<1> DEFINE c == ChangeWorkspace(g, m, w, FALSE)
<1> DEFINE e == FocusWindow(c, x)
<1>1. m # None /\ (old \in Special => d.home[old] # None) /\ (Done(b) \/ Done(e))
  BY DEF MoveWindow, Served
<1>2. w \in All /\ w \in All \cup {None} /\ FALSE \in BOOLEAN
  BY AskedFor
<1>3. SameOwners(desk, d) /\ d \in Desks
  BY <1>2, ResolvedOwners
<1> HIDE DEF d
<1>4. m \in Outputs /\ m \in MonitorOrNone
  BY <1>1, <1>2, <1>3, DeskFields DEF MonitorOrNone
<1>5. old \in Special => d.home[old] \in Outputs
  BY <1>1, <1>3, DeskFields, NamesApart
<1> HIDE DEF m, old
<1>6. b \in Desks /\ b.persistent = d.persistent /\ b.last = d.last /\ b.home = d.home
  BY <1>2, <1>3, <1>4 DEF Desks
<1> HIDE DEF b
<1>7. SameOwners(b, f) /\ f \in Desks /\ f.focus = m /\ f.home = d.home
  <2>1. f.home = b.home
    BY <1>6 DEF Desks
  <2> QED
    BY <1>4, <1>6, <2>1, OwnersFocus, OwnersStay
<1> HIDE DEF f
<1>8. SameOwners(f, g) /\ g \in Desks /\ g.focus # None
  <2>1. CASE w \in Special
    <3>1. g = SetSpecialWorkspace(f, m, w)
      BY <2>1 DEF Followed
    <3>2. LET t == SetSpecialWorkspace(f, m, w) IN
          SameOwners(f, t) /\ t.focus \in {f.focus, m} /\ t.active = f.active
      BY <1>4, <1>7, <2>1, OwnersSetSpecial
    <3> HIDE DEF g
    <3> QED
      BY <1>4, <1>7, <3>1, <3>2, OwnersStay, NamesApart
  <2>2. CASE w \notin Special /\ old \in Special
    <3> DEFINE o == d.home[old]
    <3>1. g = SetSpecialWorkspace(f, o, None) /\ o \in Outputs
      BY <1>5, <1>7, <2>2 DEF Followed
    <3> HIDE DEF o, g
    <3>2. LET t == SetSpecialWorkspace(f, o, None) IN
          SameOwners(f, t) /\ t.focus \in {f.focus, o} /\ t.active = f.active
      BY <1>7, <3>1, OwnersSetSpecial
    <3> QED
      BY <1>4, <1>7, <3>1, <3>2, OwnersStay, NamesApart
  <2>3. CASE w \notin Special /\ old \notin Special
    <3>1. g = f
      BY <2>3 DEF Followed
    <3> HIDE DEF g
    <3> QED
      BY <1>4, <1>7, <3>1, OwnersRefl, NamesApart
  <2> QED
    BY <2>1, <2>2, <2>3
<1> HIDE DEF g
<1>9. SameOwners(g, c) /\ c \in Desks /\ c.focus # None
  <2>1. LET t == ChangeWorkspace(g, m, w, FALSE) IN SameOwners(g, t) /\ t.focus \in {g.focus, m}
    BY <1>2, <1>4, <1>8, OwnersChange
  <2> QED
    BY <1>4, <1>8, <2>1, OwnersStay, NamesApart
<1> HIDE DEF c
<1>10. SameOwners(c, e)
  BY <1>9, OwnersFocusWindow
<1> HIDE DEF e
<1>11. SameOwners(b, b) /\ SameOwners(b, e)
  BY <1>6, <1>7, <1>8, <1>9, <1>10, OwnersTrans, OwnersRefl
<1>12. /\ b.last = desk.last /\ b.persistent \subseteq ToSet(setup.persistent)
       /\ e.last = desk.last /\ e.persistent \subseteq ToSet(setup.persistent) /\ e \in Desks
  BY <1>3, <1>6, <1>11 DEF SameOwners, Stays, Returns, Typed
<1> QED
  BY <1>1, <1>6, <1>12, ServedOwners

(* The function onConnect left to doLater forgets the owners of what it
   makes anew only. *)
LEMMA EnsurePlacementOwners ==
  ASSUME IdsNeverRunOut, Typed, ensure \in Nat, EnsurePlacement
  PROVE  Typed' /\ OwnersKept
<1> DEFINE p == EnsurePersistent(desk)
<1> DEFINE a == EnsureAssigned(p)
<1>1. Done(a) /\ ensure' < ensure
  BY DEF EnsurePlacement
<1>2. /\ p \in Desks /\ p.persistent \subseteq ToSet(setup.persistent)
      /\ \A w \in All : Insured(desk, w) => Kept(p, w) /\ p.last[w] = desk.last[w]
  BY EnsurePersistentRecalls DEF Typed
<1> HIDE DEF p
<1>3. Stays(p, a)
  BY <1>2, StaysAssigned DEF Typed
<1> HIDE DEF a
<1>4. a \in Desks /\ a.persistent \subseteq ToSet(setup.persistent)
      /\ \A w \in All : Kept(p, w) => a.last[w] = p.last[w]
  BY <1>2, <1>3, NamesApart DEF Stays, Returns
<1>5. Typed' /\ \A w \in ToSet(desk'.ws) : desk'.last[w] = a.last[w]
  BY <1>1, <1>4, DoneOwners
<1>6. ASSUME NEW w \in All, KeptAlive(w) PROVE a.last[w] = desk.last[w]
  <2>1. Insured(desk, w)
    BY <1>1, <1>6 DEF KeptAlive, Insured
  <2> QED
    BY <1>2, <1>4, <2>1
<1> QED
  BY <1>5, <1>6 DEF OwnersKept

(***************************************************************************)
(* Outputs that come and go.                                               *)
(***************************************************************************)
LEMMA ConnectOwners ==
  ASSUME IdsNeverRunOut, Typed, NEW m \in Outputs, m \notin Monitors, Done(OnConnect(desk, m))
  PROVE  Typed' /\ OwnersKept
<1> DEFINE e == OnConnect(desk, m)
<1>1. Returns(desk, e, m, DefaultWorkspace(desk, m)) /\ m \in ToSet(e.mons)
  BY ConnectReturns DEF Typed
<1> HIDE DEF e
<1>2. e \in Desks /\ e.persistent \subseteq ToSet(setup.persistent)
  BY <1>1 DEF Returns, Typed
<1>3. Typed' /\ desk'.mons = e.mons /\ \A w \in ToSet(desk'.ws) : desk'.last[w] = e.last[w]
  BY <1>2, DoneOwners DEF e
<1>4. \A w \in All : KeptAlive(w) => \/ w = DefaultWorkspace(desk, m)
                                     \/ e.last[w] = desk.last[w]
                                     \/ (desk.last[w] = m /\ e.last[w] = None)
  BY <1>1, AliveKept DEF Returns
<1>5. m \in ToSet(desk'.mons) \ Monitors
  BY <1>1, <1>3
<1> QED
  BY <1>3, <1>4, <1>5 DEF OwnersKept

(* The first monitor that went owns where a workspace is to return. *)
LEMMA OwnedRecalls ==
  ASSUME NEW d \in Desks, NEW m \in Outputs
  PROVE  LET o == Owned(d, m) IN
         /\ o \in Desks /\ o.persistent = d.persistent
         /\ \A w \in All : Kept(d, w) => Kept(o, w)
         /\ \A w \in All : d.last[w] # None => o.last[w] = d.last[w]
<1> DEFINE l == [w \in All |-> IF w \in ToSet(Leaving(d, m)) /\ d.last[w] = None THEN m ELSE d.last[w]]
<1> DEFINE n == IF d.active[m] = None THEN d.seen[m] ELSE d.active[m]
<1> DEFINE o == Owned(d, m)
<1>1. o = [d EXCEPT !.seen[m] = n, !.last = l]
  BY DEF Owned, Desks
<1>2. l \in [All -> MonitorOrNone] /\ n \in Regular \cup {None}
  BY DeskFields DEF MonitorOrNone
<1>3. \A w \in All : d.last[w] # None => l[w] = d.last[w]
  OBVIOUS
<1> HIDE DEF l, n, o
<1>4. o \in Desks /\ o.persistent = d.persistent /\ o.last = l /\ o.pinned = d.pinned /\ o.winWs = d.winWs
  BY <1>1, <1>2 DEF Desks
<1> QED
  BY <1>3, <1>4 DEF Kept, o

(* All that left m has moved to backup: the first output that went remains the
   owner. *)
LEMMA DepartedRecalls ==
  ASSUME IdsNeverRunOut, setup \in Setups, NEW d \in Desks, NEW m \in Outputs,
         NEW backup \in MonitorOrNone
  PROVE  Stays(Owned(d, m), Departed(d, m, backup))
<1> DEFINE s == Leaving(d, m)
<1> DEFINE o == Owned(d, m)
<1> DEFINE D == Desks
<1> DEFINE W == All
<1> DEFINE Away(e, w) == MoveWorkspaceToMonitor(e, w, backup, ToSet(Leaving(d, m)))
<1> DEFINE g == [p \in D \X W |-> Away(p[1], p[2])]
<1> DEFINE Body(f) == [t \in SUBSET (DOMAIN s) |-> IF t = {} THEN o ELSE Away(f[t \ {Max(t)}], s[Max(t)])]
<1> DEFINE r == CHOOSE f : f = Body(f)
<1>0. o \in Desks
  BY OwnedRecalls
<1>1. Len(s) \in Nat /\ DOMAIN s = 1..Len(s) /\ o \in D /\ s \in Seq(W)
  <2>1. s \in Seq(All)
    BY DeskFields, OnlySet DEF Leaving
  <2> HIDE DEF s, o
  <2> QED
    BY <1>0, <2>1
<1>2. ASSUME NEW e \in D, NEW w \in W PROVE Stays(e, Away(e, w)) /\ Away(e, w) \in D
  <2>1. w \in All \cup {None}
    OBVIOUS
  <2>2. LET t == MoveWorkspaceToMonitor(e, w, backup, ToSet(Leaving(d, m))) IN
        Stays(e, t) /\ Focused(e, t)
    BY <2>1, StaysMove
  <2> QED
    BY <2>2, StaysDesk
<1> HIDE DEF D, W, Away, s, o
<1>3. g \in [D \X W -> D] /\ \A e \in D, w \in W : g[<<e, w>>] = Away(e, w)
  BY <1>2
<1>4. PICK f \in [SUBSET (1..Len(s)) -> D] : LoopBody(o, g, s, f)
  <2> HIDE DEF g
  <2> QED
    BY <1>1, <1>3, LoopExists
<1>5. f = Body(f)
  <2> SUFFICES ASSUME NEW t \in SUBSET (1..Len(s))
               PROVE  f[t] = IF t = {} THEN o ELSE Away(f[t \ {Max(t)}], s[Max(t)])
    BY <1>1
  <2>1. f[t] = IF t = {} THEN o ELSE g[<<f[t \ {Max(t)}], s[Max(t)]>>]
    BY <1>4 DEF LoopBody
  <2>2. t # {} => Max(t) \in 1..Len(s) /\ f[t \ {Max(t)}] \in D
    BY <1>1, MaxIn
  <2>3. t # {} => s[Max(t)] \in W
    BY <2>2, <1>1
  <2> HIDE DEF g
  <2> QED
    BY <2>1, <2>2, <2>3, <1>3
<1>6. r = Body(r)
  <2> HIDE DEF Body
  <2> QED
    BY <1>5
<1>7. Departed(d, m, backup) = r[1..Len(s)]
  BY <1>1 DEF Departed, FoldLeft, MapThenFoldSet, Away, s, o
<1> DEFINE E == {e \in D : Stays(o, e)}
<1> DEFINE P == [k \in 0..Len(s) |-> E]
<1>8. r[1..Len(s)] \in P[Len(s)]
  <2>1. P \in [0..Len(s) -> SUBSET D] /\ o \in P[0]
    BY <1>1, StaysRefl DEF D
  <2>2. r[{}] = o
    BY <1>6
  <2>3. \A t \in SUBSET (1..Len(s)) :
            t # {} /\ r[t \ {Max(t)}] \in D => r[t] = g[<<r[t \ {Max(t)}], s[Max(t)]>>]
    <3> SUFFICES ASSUME NEW t \in SUBSET (1..Len(s)), t # {}, r[t \ {Max(t)}] \in D
                 PROVE  r[t] = g[<<r[t \ {Max(t)}], s[Max(t)]>>]
      OBVIOUS
    <3>1. Max(t) \in 1..Len(s)
      BY <1>1, MaxIn
    <3>2. s[Max(t)] \in W
      BY <3>1, <1>1
    <3>3. r[t] = Away(r[t \ {Max(t)}], s[Max(t)])
      <4> HIDE DEF r
      <4> QED
        BY <1>6, <1>1
    <3> HIDE DEF r, g
    <3> QED
      BY <3>2, <3>3, <1>3
  <2>4. \A k \in 1..Len(s) : \A e \in P[k-1] : g[<<e, s[k]>>] \in P[k]
    <3> SUFFICES ASSUME NEW k \in 1..Len(s), NEW e \in P[k-1] PROVE g[<<e, s[k]>>] \in P[k]
      OBVIOUS
    <3>1. k - 1 \in 0..Len(s) /\ k \in 0..Len(s) /\ s[k] \in W
      BY <1>1
    <3>2. e \in D /\ Stays(o, e)
      BY <3>1
    <3>3. g[<<e, s[k]>>] = Away(e, s[k])
      BY <3>1, <3>2, <1>3
    <3> HIDE DEF g
    <3> QED
      BY <3>1, <3>2, <3>3, <1>2, StaysTrans
  <2> HIDE DEF g, P, r
  <2> QED
    BY <2>1, <2>2, <2>3, <2>4, <1>1, <1>3, LoopKeeps
<1> HIDE DEF r
<1>9. Len(s) \in 0..Len(s)
  BY <1>1
<1> QED
  BY <1>7, <1>8, <1>9 DEF o

(* CMonitor::onDisconnect *)
LEMMA DisconnectRecalls ==
  ASSUME IdsNeverRunOut, setup \in Setups, NEW d \in Desks, NEW m \in Outputs
  PROVE  LET e == OnDisconnect(d, m) IN
         /\ e \in Desks /\ e.persistent \subseteq d.persistent \cup ToSet(setup.persistent)
         /\ \A w \in All : Kept(d, w) /\ d.last[w] # None => Kept(e, w) /\ e.last[w] = d.last[w]
<1> DEFINE others == Only(d.mons, Outputs \ {m})
<1> DEFINE backup == IF others = <<>> THEN None ELSE Head(others)
<1> DEFINE o == Owned(d, m)
<1> DEFINE q == Departed(d, m, backup)
<1> DEFINE f == IF backup = None \/ q.focus = m THEN backup ELSE q.focus
<1> DEFINE c == [q EXCEPT !.visible = @ \ {q.active[m]}, !.active[m] = None, !.focus = f, !.mons = others]
<1> DEFINE e == OnDisconnect(d, m)
<1>1. others \in Seq(Outputs)
  BY DeskFields, OnlySet
<1>2. e = Collect(c, {})
  BY DEF OnDisconnect, Removed, Departed
<1> HIDE DEF others, e
<1>3. backup \in MonitorOrNone
  BY <1>1, HeadIn DEF MonitorOrNone
<1> HIDE DEF backup
<1>4. /\ o \in Desks /\ o.persistent = d.persistent
      /\ \A w \in All : Kept(d, w) => Kept(o, w)
      /\ \A w \in All : d.last[w] # None => o.last[w] = d.last[w]
  BY OwnedRecalls
<1>5. Stays(o, q) /\ q \in Desks
  BY <1>3, DepartedRecalls, StaysDesk
<1> HIDE DEF o, q
<1>6. f \in MonitorOrNone
  BY <1>3, <1>5, DeskFields DEF MonitorOrNone
<1> HIDE DEF f
<1>7. c \in Desks /\ c.pinned = q.pinned /\ c.persistent = q.persistent /\ c.last = q.last /\ c.winWs = q.winWs
  BY <1>1, <1>5, <1>6 DEF Desks
<1> HIDE DEF c
<1>8. Stays(q, c) /\ Stays(c, e)
  BY <1>2, <1>7, OwnersSame, OwnersStay, StaysCollect
<1>9. Stays(o, e)
  BY <1>5, <1>8, StaysTrans
<1>10. /\ e \in Desks /\ e.persistent \subseteq o.persistent \cup ToSet(setup.persistent)
       /\ \A w \in All : Kept(o, w) => Kept(e, w) /\ e.last[w] = o.last[w]
  BY <1>9, NamesApart DEF Stays, Returns, Kept
<1> QED
  BY <1>4, <1>10 DEF e

(* The object of m is destroyed. *)
LEMMA StaysDestroyed ==
  ASSUME NEW d \in Desks, NEW m \in Outputs
  PROVE  Stays(d, Destroyed(d, m))
<1> DEFINE home == [w \in All |-> IF d.home[w] = m THEN None ELSE d.home[w]]
<1> DEFINE mon == [x \in Windows |-> IF d.winMon[x] = m THEN None ELSE d.winMon[x]]
<1> DEFINE c == [d EXCEPT !.special[m] = None,
                    !.home = [w \in All |-> IF @[w] = m THEN None ELSE @[w]],
                    !.winMon = [x \in Windows |-> IF @[x] = m THEN None ELSE @[x]]]
<1>1. c = [d EXCEPT !.special[m] = None, !.home = home, !.winMon = mon]
  BY DEF Desks
<1>2. home \in [All -> MonitorOrNone] /\ mon \in [Windows -> MonitorOrNone]
  BY DeskFields DEF MonitorOrNone
<1>3. Destroyed(d, m) = Collect(c, {})
  BY DEF Destroyed
<1> HIDE DEF home, mon, c
<1>4. c \in Desks /\ c.pinned = d.pinned /\ c.persistent = d.persistent /\ c.last = d.last /\ c.winWs = d.winWs
  BY <1>1, <1>2 DEF Desks
<1>5. Stays(d, c) /\ Stays(c, Collect(c, {}))
  BY <1>4, OwnersSame, OwnersStay, StaysCollect
<1> QED
  BY <1>3, <1>5, StaysTrans

(* An output that goes, with its object or without it. *)
LEMMA GoneOwners ==
  ASSUME IdsNeverRunOut, Typed, NEW m \in Outputs,
         \/ Done(OnDisconnect(desk, m))
         \/ Done(Destroyed(OnDisconnect(desk, m), m))
  PROVE  Typed' /\ OwnersKept
<1> DEFINE e == OnDisconnect(desk, m)
<1> DEFINE f == Destroyed(e, m)
<1>1. /\ e \in Desks /\ e.persistent \subseteq ToSet(setup.persistent)
      /\ \A w \in All : Kept(desk, w) /\ desk.last[w] # None => Kept(e, w) /\ e.last[w] = desk.last[w]
  BY DisconnectRecalls DEF Typed
<1>2. Done(e) \/ Done(f)
  OBVIOUS
<1> HIDE DEF e
<1>3. Stays(e, f)
  BY <1>1, StaysDestroyed
<1> HIDE DEF f
<1>4. /\ f \in Desks /\ f.persistent \subseteq ToSet(setup.persistent)
      /\ \A w \in All : Kept(desk, w) /\ desk.last[w] # None => f.last[w] = desk.last[w]
  BY <1>1, <1>3, NamesApart DEF Stays, Returns
<1>5. CASE Done(e)
  BY <1>1, <1>5, ServedOwners
<1>6. CASE Done(f)
  BY <1>4, <1>6, ServedOwners
<1> QED
  BY <1>2, <1>5, <1>6

(***************************************************************************)
(* The theorem.                                                            *)
(***************************************************************************)
Counted == Typed /\ ensure \in 0..Jobs

(* Every step. *)
LEMMA NextOwners ==
  ASSUME IdsNeverRunOut, Counted, Next
  PROVE  Counted' /\ OwnersKept
<1> USE DEF Counted
<1>0. Real \subseteq Outputs /\ FALLBACK \in Outputs /\ setup.asked \subseteq All
      /\ setup.windows \subseteq Windows
  BY NamesApart, AskedFor
<1>1. ASSUME NEW m \in Real, Connect(m) PROVE Counted' /\ OwnersKept
  <2>1. ensure' \in 0..Jobs
    BY <1>1, WorkIn, SetupAssumption DEF Connect
  <2> QED
    BY <1>0, <1>1, <2>1, ConnectOwners DEF Connect
<1>2. ASSUME NEW m \in Real, Disable(m) \/ Unplug(m) PROVE Counted' /\ OwnersKept
  BY <1>0, <1>2, GoneOwners DEF Disable, Unplug
<1>3. ASSUME ConnectFallback PROVE Counted' /\ OwnersKept
  <2>1. ensure' \in 0..Jobs
    BY <1>3, WorkIn, SetupAssumption DEF ConnectFallback
  <2>2. FALLBACK \notin Monitors
    BY <1>3 DEF ConnectFallback, Monitors, ToSet
  <2> QED
    BY <1>0, <1>3, <2>1, <2>2, ConnectOwners DEF ConnectFallback
<1>4. ASSUME DisconnectFallback PROVE Counted' /\ OwnersKept
  BY <1>0, <1>4, GoneOwners DEF DisconnectFallback
<1>5. ASSUME EnsurePlacement PROVE Counted' /\ OwnersKept
  <2>1. ensure' \in 0..Jobs /\ ensure \in Nat
    BY <1>5, SetupAssumption DEF EnsurePlacement
  <2> QED
    BY <1>5, <2>1, EnsurePlacementOwners
<1>6. ASSUME NEW w \in setup.asked, ChangeTo(w) \/ BringHere(w) \/ ToggleSpecial(w)
      PROVE  Counted' /\ OwnersKept
  <2>1. ensure' = ensure
    BY <1>6 DEF ChangeTo, BringHere, ToggleSpecial, Served
  <2> QED
    BY <1>0, <1>6, <2>1, ChangeToOwners, BringHereOwners, ToggleSpecialOwners
<1>7. ASSUME NEW w \in setup.asked, NEW m \in Outputs, MoveToMonitor(w, m)
      PROVE  Counted' /\ OwnersKept
  <2>1. ensure' = ensure
    BY <1>7 DEF MoveToMonitor, Served
  <2> QED
    BY <1>0, <1>7, <2>1, MoveToMonitorOwners
<1>8. ASSUME NEW a \in Outputs, NEW b \in Outputs, Swap(a, b) PROVE Counted' /\ OwnersKept
  <2>1. ensure' = ensure
    BY <1>8 DEF Swap, Served
  <2> QED
    BY <1>8, <2>1, SwapOwners
<1>9. ASSUME NEW m \in Outputs, FocusMonitor(m) PROVE Counted' /\ OwnersKept
  <2>1. ensure' = ensure
    BY <1>9 DEF FocusMonitor, Served
  <2> QED
    BY <1>9, <2>1, FocusMonitorOwners
<1>10. ASSUME NEW x \in setup.windows,
              MapWindow(x) \/ UnmapWindow(x) \/ PinWindow(x)
                \/ ClickWindow(x) \/ GoToWindow(x)
       PROVE  Counted' /\ OwnersKept
  <2>1. ensure' = ensure
    BY <1>10 DEF MapWindow, UnmapWindow, PinWindow, ClickWindow, GoToWindow, Served
  <2> QED
    BY <1>0, <1>10, <2>1, MapWindowOwners, UnmapWindowOwners, PinWindowOwners, ClickWindowOwners,
       GoToWindowOwners
<1>11. ASSUME NEW x \in setup.windows, NEW w \in setup.asked, NEW silent \in BOOLEAN,
              MoveWindow(x, w, silent)
       PROVE  Counted' /\ OwnersKept
  <2>1. ensure' = ensure
    BY <1>11 DEF MoveWindow, Served
  <2> QED
    BY <1>0, <1>11, <2>1, MoveWindowOwners
<1> QED
  BY <1>1, <1>2, <1>3, <1>4, <1>5, <1>6, <1>7, <1>8, <1>9, <1>10, <1>11 DEF Next

(* The first output finds an empty desk. *)
LEMMA InitCounted ==
  ASSUME IdsNeverRunOut, Init
  PROVE  Counted
<1>1. setup \in Setups /\ ensure \in 0..Jobs
  BY WorkIn, SetupAssumption DEF Init
<1>2. PICK m \in Real : desk = OnConnect(Empty, m)
  BY DEF Init
<1>3. Empty \in Desks /\ Empty.persistent = {}
  BY EmptySound, SoundFields DEF Empty
<1> DEFINE e == OnConnect(Empty, m)
<1>4. Returns(Empty, e, m, DefaultWorkspace(Empty, m))
  BY <1>1, <1>3, ConnectReturns, NamesApart
<1>5. e \in Desks /\ e.persistent \subseteq ToSet(setup.persistent)
  BY <1>3, <1>4 DEF Returns
<1> QED
  BY <1>1, <1>2, <1>5 DEF Counted, Typed

(* Every reachable desk is one of Desks, whatever is left behind. *)
LEMMA CountedAlways == IdsNeverRunOut => (Spec => []Counted)
<1> SUFFICES ASSUME IdsNeverRunOut PROVE Spec => []Counted
  OBVIOUS
<1>1. Init => Counted
  BY InitCounted
<1>2. Counted /\ [Next]_vars => Counted'
  <2>1. ASSUME Counted, UNCHANGED vars PROVE Counted'
    BY <2>1 DEF vars, Counted, Typed
  <2> QED
    BY <2>1, NextOwners
<1> QED
  BY <1>1, <1>2, PTL DEF Spec

(* The first output that went owns where a workspace is to return, whatever is
   plugged and unplugged after it and whichever functions move the workspace
   meanwhile: the condition in CMonitor::onDisconnect is enough, for any number
   of outputs and workspaces and also when something is left behind. *)
THEOREM FirstOwner == IdsNeverRunOut => (Spec => FirstOwnerKept)
<1> SUFFICES ASSUME IdsNeverRunOut PROVE Spec => FirstOwnerKept
  OBVIOUS
<1>1. Counted /\ [Next]_vars => [OwnersKept]_vars
  BY NextOwners
<1> QED
  BY <1>1, CountedAlways, PTL DEF Spec, FirstOwnerKept, OwnersKept

(* Regular and special workspaces are never taken for each other, and no more
   functions are left to doLater than the bound lets onConnect leave. *)
THEOREM TypeCorrect == IdsNeverRunOut => (Spec => []TypeOK)
<1> SUFFICES ASSUME IdsNeverRunOut PROVE Spec => []TypeOK
  OBVIOUS
<1>1. Counted => TypeOK
  <2> SUFFICES ASSUME Counted PROVE TypeOK
    OBVIOUS
  <2>1. desk \in Desks
    BY DEF Counted, Typed
  <2>2. ToSet(desk.ws) \subseteq All /\ ToSet(desk.mons) \subseteq Outputs
    BY <2>1, DeskFields, HeadIn
  <2> QED
    BY <2>1, <2>2 DEF TypeOK, Counted, Typed, Desks, Monitors
<1> QED
  BY <1>1, CountedAlways, PTL
===============================================================================
