-------------------------- MODULE CompressorProofs --------------------------
(* Proofs about the compressor: its counted arrays, and the columns that the *)
(* solver's threads share, for every size of picture, every number of        *)
(* threads and every order in which they run.                                *)
EXTENDS Compressor, FiniteSetTheorems, FunctionTheorems, TLAPS

-----------------------------------------------------------------------------
(* The counted arrays.                                                       *)

LEMMA HoldersFinite ==
    ASSUME NEW h, NEW b
    PROVE  IsFiniteSet(Holders(h, b)) /\ Cardinality(Holders(h, b)) \in Nat
<1>1. Holders(h, b) \subseteq Handles
  BY DEF Holders
<1> QED  BY <1>1, Arr2Assumption, FS_Subset, FS_CardinalityType

(* Variables that held nothing begin to hold.                                *)
LEMMA HoldCounted ==
    ASSUME NEW h \in Heaps, Counted(h), NEW dims, DOMAIN dims \subseteq Handles,
           \A v \in DOMAIN dims : h.holds[v] = None,
           NEW at \in [DOMAIN dims -> Blocks]
    PROVE  Counted(Hold(h, at, dims))
<1> SUFFICES ASSUME NEW b \in Blocks
             PROVE  Hold(h, at, dims).counter[b] = Cardinality(Holders(Hold(h, at, dims), b))
  BY DEF Counted
<1> DEFINE new == {v \in DOMAIN dims : at[v] = b}
<1>1. Hold(h, at, dims).counter[b] = Cardinality(Holders(h, b)) + Cardinality(new)
  BY DEF Hold, Counted
<1>2. Holders(Hold(h, at, dims), b) = Holders(h, b) \cup new
  <2>1. \A v \in Handles : Hold(h, at, dims).holds[v] = IF v \in DOMAIN dims THEN at[v] ELSE h.holds[v]
    BY DEF Hold
  <2> QED  BY <2>1, Arr2Assumption DEF Holders
<1>3. Holders(h, b) \cap new = {}
  BY Arr2Assumption DEF Holders
<1>4. IsFiniteSet(new) /\ Cardinality(new) \in Nat
  BY Arr2Assumption, FS_Subset, FS_CardinalityType
<1>5. Cardinality(Holders(h, b) \cup new) = Cardinality(Holders(h, b)) + Cardinality(new) - Cardinality({})
  BY <1>3, <1>4, HoldersFinite, FS_Union
<1> QED  BY <1>1, <1>2, <1>4, <1>5, HoldersFinite, FS_EmptySet

LEMMA ConstructCounted ==
    ASSUME NEW h \in Heaps, Counted(h), NEW dims, DOMAIN dims \subseteq Handles,
           \A v \in DOMAIN dims : h.holds[v] = None,
           Injection(DOMAIN dims, Unused(h)) # {}
    PROVE  Counted(Construct(h, dims))
<1> DEFINE at == CHOOSE at \in Injection(DOMAIN dims, Unused(h)) : TRUE
<1>1. at \in Injection(DOMAIN dims, Unused(h))
  OBVIOUS
<1>2. at \in [DOMAIN dims -> Blocks]
  BY <1>1 DEF Injection, Unused
<1> QED  BY <1>2, HoldCounted DEF Construct

LEMMA CopyCounted ==
    ASSUME NEW h \in Heaps, Counted(h), NEW from, DOMAIN from \subseteq Handles,
           \A v \in DOMAIN from : /\ h.holds[v] = None
                                  /\ from[v] \in Handles /\ h.holds[from[v]] # None
    PROVE  Counted(Copy(h, from))
<1> DEFINE at == [v \in DOMAIN from |-> h.holds[from[v]]]
           dims == [v \in DOMAIN from |-> h.dim[from[v]]]
<1>1. at \in [DOMAIN dims -> Blocks]
  BY DEF Heaps
<1>2. Counted(Hold(h, at, dims))
  BY <1>1, HoldCounted
<1> QED  BY <1>2 DEF Copy

LEMMA DestroyTypes ==
    ASSUME NEW h \in Heaps, Counted(h), NEW vs \in SUBSET Handles
    PROVE  Destroy(h, vs) \in Heaps /\ Counted(Destroy(h, vs))
<1>1. ASSUME NEW b \in Blocks
      PROVE  /\ Destroy(h, vs).counter[b] = Cardinality(Holders(Destroy(h, vs), b))
             /\ Destroy(h, vs).counter[b] \in Nat
  <2>1. Holders(Destroy(h, vs), b) = Holders(h, b) \ vs
    <3>1. \A v \in Handles : Destroy(h, vs).holds[v] = IF v \in vs THEN None ELSE h.holds[v]
      BY DEF Destroy
    <3> QED  BY <3>1, Arr2Assumption DEF Holders
  <2>2. Cardinality(Holders(h, b) \ vs) = Cardinality(Holders(h, b)) - Cardinality(Holders(h, b) \cap vs)
    BY HoldersFinite, FS_Difference
  <2>3. Holders(h, b) \cap vs = vs \cap Holders(h, b)
    OBVIOUS
  <2>4. Destroy(h, vs).counter[b] = Cardinality(Holders(h, b)) - Cardinality(vs \cap Holders(h, b))
    BY DEF Destroy, Counted
  <2> QED  BY <2>1, <2>2, <2>3, <2>4, HoldersFinite
<1>2. Destroy(h, vs).counter \in [Blocks -> Nat]
  <2>1. Destroy(h, vs).counter = [b \in Blocks |-> Destroy(h, vs).counter[b]]
    BY DEF Destroy
  <2> QED  BY <1>1, <2>1
<1>3. Destroy(h, vs) \in Heaps
  BY <1>2 DEF Destroy, Heaps, Dims, NoDim
<1> QED  BY <1>1, <1>3 DEF Counted

(* However arrays are declared, copied, assigned (also to themselves) and    *)
(* destroyed, each one counts exactly the variables that hold it.            *)
THEOREM ArraysStayCounted ==
    ASSUME NEW h \in Heaps, Counted(h)
    PROVE  /\ \A dims : /\ DOMAIN dims \subseteq Handles
                        /\ \A v \in DOMAIN dims : h.holds[v] = None
                        /\ Injection(DOMAIN dims, Unused(h)) # {}
                        => Counted(Construct(h, dims))
           /\ \A vs \in SUBSET Handles : Counted(Destroy(h, vs))
           /\ \A v, w \in Handles : h.holds[w] # None => Counted(Assign(h, v, w))
<1>1. ASSUME NEW v \in Handles, NEW w \in Handles, h.holds[w] # None
      PROVE  Counted(Assign(h, v, w))
  <2>1. CASE v = w
    BY <2>1 DEF Assign
  <2>2. CASE v # w
    <3> DEFINE g == Destroy(h, {v})
               from == [x \in {v} |-> w]
    <3>1. g \in Heaps /\ Counted(g)
      BY DestroyTypes
    <3>2. \A x \in Handles : g.holds[x] = IF x \in {v} THEN None ELSE h.holds[x]
      BY DEF Destroy
    <3> HIDE DEF g
    <3>4. g.holds[v] = None /\ g.holds[w] # None
      BY <1>1, <2>2, <3>2
    <3>3. Counted(Copy(g, from))
      BY <3>1, <3>4, CopyCounted
    <3> QED  BY <2>2, <3>3 DEF Assign, g
  <2> QED  BY <2>1, <2>2
<1> QED  BY <1>1, ConstructCounted, DestroyTypes

-----------------------------------------------------------------------------
(* The ranges of the threads.                                                *)

LEMMA ThreadsNumNat == ThreadsNum \in Nat \ {0}
BY CompressorAssumption

LEMMA DivBounds ==
    ASSUME NEW w \in Nat, NEW n \in Nat \ {0}
    PROVE  /\ w \div n \in Nat
           /\ (w \div n) * n <= w
           /\ w < (w \div n) * n + n
OBVIOUS

LEMMA TimesMonotone == \A d \in Nat, m \in Int, n \in Int : m <= n => d * m <= d * n
OBVIOUS

Columns(t, w) == FirstOf(t, w) .. EndOf(t, w) - 1

LEMMA RangeTypes ==
    ASSUME NEW w \in Nat, NEW t \in Threads
    PROVE  /\ FirstOf(t, w) \in Nat \ {0} /\ EndOf(t, w) \in Nat
           /\ FirstOf(t, w) <= EndOf(t, w) /\ EndOf(t, w) <= w + 1
<1> DEFINE d == w \div ThreadsNum
<1>1. d \in Nat /\ d * ThreadsNum <= w
  BY DivBounds, ThreadsNumNat
<1>2. t \in Int /\ 1 <= t /\ t <= ThreadsNum
  BY ThreadsNumNat DEF Threads
<1> HIDE DEF d
<1>3. /\ d * (t - 1) \in Nat /\ d * t \in Nat
      /\ d * (t - 1) <= d * t /\ d * t <= d * ThreadsNum
  <2>1. d * 0 <= d * (t - 1) /\ d * (t - 1) <= d * t /\ d * t <= d * ThreadsNum
    BY <1>1, <1>2, ThreadsNumNat, TimesMonotone
  <2> QED  BY <2>1, <1>1, <1>2
<1>4. FirstOf(t, w) = d * (t - 1) + 1
  BY DEF FirstOf, d
<1>5. EndOf(t, w) = IF t < ThreadsNum THEN d * t + 1 ELSE w + 1
  BY DEF EndOf, d
<1> QED  BY <1>1, <1>2, <1>3, <1>4, <1>5, ThreadsNumNat

LEMMA RangesApart ==
    ASSUME NEW w \in Nat, NEW s \in Threads, NEW t \in Threads, s < t
    PROVE  EndOf(s, w) <= FirstOf(t, w)
<1> DEFINE d == w \div ThreadsNum
<1>1. d \in Nat
  BY DivBounds, ThreadsNumNat
<1>2. s \in Int /\ t \in Int /\ s < ThreadsNum /\ s <= t - 1
  BY ThreadsNumNat DEF Threads
<1>3. d * s <= d * (t - 1)
  BY <1>1, <1>2, TimesMonotone
<1> QED  BY <1>1, <1>2, <1>3 DEF FirstOf, EndOf

(* A column belongs to at most one thread.                                   *)
LEMMA RangesDisjoint ==
    ASSUME NEW w \in Nat, NEW s \in Threads, NEW t \in Threads, s # t,
           NEW c \in Columns(s, w)
    PROVE  c \notin Columns(t, w)
<1>1. CASE s < t
  BY <1>1, RangesApart, RangeTypes DEF Columns
<1>2. CASE t < s
  BY <1>2, RangesApart, RangeTypes DEF Columns
<1> QED  BY <1>1, <1>2 DEF Threads

(* A column of the picture belongs to some thread.                           *)
LEMMA RangesCover ==
    ASSUME NEW w \in Nat, NEW c \in 1 .. w
    PROVE  \E t \in Threads : c \in Columns(t, w)
<1> DEFINE d == w \div ThreadsNum
<1>1. d \in Nat
  BY DivBounds, ThreadsNumNat
<1>2. CASE c > d * (ThreadsNum - 1)
  <2>1. ThreadsNum \in Threads /\ d * (ThreadsNum - 1) \in Int
    BY <1>1, ThreadsNumNat DEF Threads
  <2>2. c \in Columns(ThreadsNum, w)
    BY <1>2, <2>1, ThreadsNumNat DEF Columns, FirstOf, EndOf
  <2> QED  BY <2>1, <2>2
<1>3. CASE c <= d * (ThreadsNum - 1)
  <2>1. d > 0
    BY <1>1, <1>3, ThreadsNumNat
  <2> DEFINE k == (c - 1) \div d
  <2> HIDE DEF d
  <2>2. k \in Nat /\ k * d <= c - 1 /\ c - 1 < k * d + d
    <3>1. c - 1 \in Nat /\ d \in Nat \ {0}
      BY <1>1, <2>1
    <3> QED  BY <3>1, DivBounds
  <2> HIDE DEF k
  <2>3. k < ThreadsNum - 1
    <3>1. SUFFICES ASSUME ThreadsNum - 1 <= k PROVE FALSE
      BY <2>2, ThreadsNumNat
    <3>2. d * (ThreadsNum - 1) <= d * k
      BY <1>1, <2>2, <3>1, ThreadsNumNat, TimesMonotone
    <3>3. d * k = k * d /\ d * k \in Int
      BY <1>1, <2>2
    <3> QED  BY <1>1, <1>3, <2>2, <3>2, <3>3, ThreadsNumNat
  <2>4. k + 1 \in Threads /\ k + 1 < ThreadsNum
    BY <2>2, <2>3, ThreadsNumNat DEF Threads
  <2>5. FirstOf(k + 1, w) = d * k + 1 /\ EndOf(k + 1, w) = d * (k + 1) + 1
    BY <2>2, <2>4 DEF FirstOf, EndOf, d
  <2>6. d * k = k * d /\ d * (k + 1) = k * d + d /\ k * d \in Int
    BY <1>1, <2>2
  <2>7. c \in Columns(k + 1, w)
    BY <1>1, <2>2, <2>5, <2>6 DEF Columns
  <2> QED  BY <2>4, <2>7
<1> QED  BY <1>1, <1>2, <1>3, ThreadsNumNat

(* The threads' ranges are a partition of the columns of the picture, also   *)
(* when the picture has fewer columns than there are threads.                *)
THEOREM RangesPartition ==
    ASSUME NEW w \in Nat, NEW c \in 1 .. w
    PROVE  \E t \in Threads : /\ c \in Columns(t, w)
                              /\ \A s \in Threads : c \in Columns(s, w) => s = t
BY RangesCover, RangesDisjoint

-----------------------------------------------------------------------------
(* What the actions do to the sizes of the arrays.                           *)

LEMMA HoldDim ==
    ASSUME NEW h, NEW at, NEW dims, NEW v \in Handles
    PROVE  Hold(h, at, dims).dim[v] = IF v \in DOMAIN dims THEN dims[v] ELSE h.dim[v]
BY DEF Hold

DimsTyped(h) == \A v \in Handles : h.dim[v] \in Dims

LEMMA ConstructDims ==
    ASSUME NEW h, DimsTyped(h), NEW dims, \A v \in DOMAIN dims : dims[v] \in Dims
    PROVE  DimsTyped(Construct(h, dims))
BY HoldDim DEF DimsTyped, Construct

LEMMA CopyDims ==
    ASSUME NEW h, DimsTyped(h), NEW from, \A v \in DOMAIN from : from[v] \in Handles
    PROVE  DimsTyped(Copy(h, from))
BY HoldDim DEF DimsTyped, Copy

LEMMA DestroyDims ==
    ASSUME NEW h, DimsTyped(h), NEW vs
    PROVE  DimsTyped(Destroy(h, vs))
BY DEF DimsTyped, Destroy, Dims, NoDim

LEMMA LatticeSizeDims ==
    ASSUME NEW s \in Sizes, NEW k \in 0 .. 2
    PROVE  LatticeSize(s, k) \in Dims
<1>1. s.w \in Nat /\ s.h \in Nat
  BY CompressorAssumption
<1>2. <<1, 2, 4>>[k + 1] \in Nat \ {0}
  OBVIOUS
<1> QED  BY <1>1, <1>2, DivBounds DEF LatticeSize, Dims

LEMMA SizesAreDims == Sizes \subseteq Dims
BY CompressorAssumption DEF Dims

LEMMA DivideBounds == \A s : Divides(s) \in 0 .. 2
BY DEF Divides

(* rho belongs to the solver and not to a thread.                            *)
LEMMA HandleNames ==
    /\ V("rho") \in Handles /\ V("Inew") \in Handles /\ V("lattice_I") \in Handles
    /\ V("div_G") \in Handles /\ V("I0") \in Handles /\ V("lattice_I") \in Handles
    /\ \A k \in 0 .. 2 : <<"Rho", k>> \in Handles
    /\ \A t \in Threads : V("rho") \notin ThreadHandles(t)
BY HandlesAssumption
   DEF V, AllHandles, CompressHandles, LatticeHandles, SolverHandles, RhoHandles, Locals, ThreadHandles

-----------------------------------------------------------------------------
(* The inductive invariant: which threads there are at each place of the     *)
(* calling thread, and what each column of Inew is then.                     *)

Exists(t) == threads[t].at # "none"

Stepping == pc \in {"create", "join", "judge"}

Marks == {"old", "part", "new"}

StateInv ==
    /\ size \in Sizes /\ DimsTyped(heap) /\ level \in 0 .. 2 /\ q \in Threads
    /\ threads \in [Threads -> [i1 : Nat, i2 : Nat, i : Nat, at : Ats, saw : Marks]]

PhaseInv ==
    /\ pc = "create" => \A t \in Threads : Exists(t) <=> t < q
    /\ pc = "join" => \A t \in Threads : Exists(t) <=> t >= q
    /\ pc \notin {"create", "join"} => \A t \in Threads : ~Exists(t)
    /\ pc = "judge" => q = 1

RangeInv ==
    \A t \in Threads : Exists(t) =>
        /\ threads[t].i1 = FirstOf(t, RhoWidth) /\ threads[t].i2 = EndOf(t, RhoWidth)
        /\ threads[t].i \in threads[t].i1 .. threads[t].i2
        /\ threads[t].at \in {"forward", "backward"} => threads[t].i < threads[t].i2
        /\ threads[t].at = "ended" => threads[t].i = threads[t].i2

Mark(t, c) ==
    IF ~Exists(t) THEN IF pc = "create" THEN "old" ELSE "new"
    ELSE IF c < threads[t].i THEN "new"
    ELSE IF c = threads[t].i /\ threads[t].at = "backward" THEN "part"
    ELSE "old"

ColumnInv ==
    Stepping =>
        /\ inew \in [0 .. RhoWidth + 1 -> Marks]
        /\ inew[0] = "old" /\ inew[RhoWidth + 1] = "old"
        /\ \A t \in Threads : \A c \in Columns(t, RhoWidth) : inew[c] = Mark(t, c)

FreshInv ==
    \A t \in Threads :
        threads[t].at \in {"forward", "backward"} /\ threads[t].i > threads[t].i1 =>
            threads[t].saw = "new"

IInv == StateInv /\ PhaseInv /\ RangeInv /\ ColumnInv /\ FreshInv

LEMMA InitInv == Init => IInv
BY ThreadsNumNat, SizesAreDims
   DEF Init, IInv, StateInv, PhaseInv, RangeInv, ColumnInv, FreshInv, Exists, Stepping, Idle,
       Ats, Marks, EmptyHeap, DimsTyped, Dims, NoDim, Threads

(* A thread's step disturbs only its own columns.                            *)
LEMMA RunInv ==
    ASSUME IInv, NEW t \in Threads, Run(t)
    PROVE  IInv'
<1> USE DEF IInv
<1>1. /\ UNCHANGED <<size, pc, heap, level, q>> /\ RhoWidth' = RhoWidth
      /\ Exists(t) /\ pc \in {"create", "join"} /\ Stepping
  BY DEF Run, Forward, Backward, NextColumn, End, KeepMain, mainVars, RhoWidth, Exists, PhaseInv, Stepping
<1>2. RhoWidth \in Nat
  BY HandleNames DEF RhoWidth, StateInv, DimsTyped, Dims
<1>3. /\ threads[t].i1 = FirstOf(t, RhoWidth) /\ threads[t].i2 = EndOf(t, RhoWidth)
      /\ threads[t].i1 \in Nat \ {0} /\ threads[t].i2 \in Nat /\ threads[t].i \in Nat
      /\ threads[t].i1 <= threads[t].i /\ threads[t].i <= threads[t].i2
      /\ threads[t].i2 <= RhoWidth + 1
  BY <1>1, <1>2, RangeTypes DEF RangeInv, StateInv
<1>4. \A s \in Threads : s # t => threads'[s] = threads[s]
  BY DEF Run, Forward, Backward, NextColumn, End, StateInv
<1>5. /\ inew \in [0 .. RhoWidth + 1 -> Marks] /\ DOMAIN inew = 0 .. RhoWidth + 1 /\ inew[0] = "old" /\ inew[RhoWidth + 1] = "old"
      /\ \A s \in Threads : \A c \in Columns(s, RhoWidth) : inew[c] = Mark(s, c)
  BY <1>1 DEF ColumnInv
<1> DEFINE th == threads[t]
           new == threads'[t]
           Typed == [i1 : Nat, i2 : Nat, i : Nat, at : Ats, saw : Marks]
(* Enough: what t is like afterwards, and that only its columns change.      *)
<1>6. ASSUME new \in Typed, threads' \in [Threads -> Typed],
             new.i1 = th.i1, new.i2 = th.i2, new.i \in th.i .. th.i2,
             new.at # "none",
             new.at \in {"forward", "backward"} => new.i < th.i2,
             new.at = "ended" => new.i = th.i2,
             new.at \in {"forward", "backward"} /\ new.i > th.i1 => new.saw = "new",
             inew' \in [0 .. RhoWidth + 1 -> Marks],
             \A c \in 0 .. RhoWidth + 1 : c \notin Columns(t, RhoWidth) => inew'[c] = inew[c],
             \A c \in Columns(t, RhoWidth) :
                inew'[c] = IF c < new.i THEN "new"
                           ELSE IF c = new.i /\ new.at = "backward" THEN "part" ELSE "old"
      PROVE  IInv'
  <2>2. StateInv'
    BY <1>1, <1>6 DEF StateInv, DimsTyped
  <2>3. \A s \in Threads : Exists(s)' <=> Exists(s)
    BY <1>1, <1>4, <1>6 DEF Exists
  <2>4. PhaseInv'
    BY <1>1, <2>3 DEF PhaseInv
  <2>5. RangeInv'
    BY <1>1, <1>3, <1>4, <1>6, <2>3 DEF RangeInv
  <2>6. FreshInv'
    BY <1>4, <1>6 DEF FreshInv
  <2>7. ColumnInv'
    <3>1. ASSUME NEW s \in Threads, NEW c \in Columns(s, RhoWidth)
          PROVE  inew'[c] = Mark(s, c)'
      <4>1. CASE s = t
        BY <1>1, <1>6, <2>3, <3>1, <4>1 DEF Mark, Exists
      <4>2. CASE s # t
        <5>1. c \notin Columns(t, RhoWidth)
          BY <1>2, <3>1, <4>2, RangesDisjoint
        <5>2. c \in 0 .. RhoWidth + 1
          BY <1>2, <3>1, RangeTypes DEF Columns
        <5>3. Mark(s, c)' = Mark(s, c)
          BY <1>1, <1>4, <2>3, <4>2 DEF Mark
        <5> QED  BY <1>5, <1>6, <3>1, <5>1, <5>2, <5>3
      <4> QED  BY <4>1, <4>2
    <3>2. 0 \notin Columns(t, RhoWidth) /\ RhoWidth + 1 \notin Columns(t, RhoWidth)
      BY <1>2, RangeTypes DEF Columns
    <3> QED  BY <1>1, <1>2, <1>5, <1>6, <3>1, <3>2 DEF ColumnInv
  <2> QED  BY <2>2, <2>4, <2>5, <2>6, <2>7
<1>7. \A c \in Columns(t, RhoWidth) :
         inew[c] = IF c < th.i THEN "new" ELSE IF c = th.i /\ th.at = "backward" THEN "part" ELSE "old"
  BY <1>1, <1>5 DEF Mark
<1>8. /\ th.saw \in Marks /\ th \in [i1 : Nat, i2 : Nat, i : Nat, at : Ats, saw : Marks]
      /\ threads \in [Threads -> [i1 : Nat, i2 : Nat, i : Nat, at : Ats, saw : Marks]]
  BY DEF StateInv
(* The column before t's is new, unless it belongs to another thread.        *)
<1>9. /\ th.i - 1 \in 0 .. RhoWidth + 1 /\ inew[th.i - 1] \in Marks
      /\ th.i > th.i1 => inew[th.i - 1] = "new"
  BY <1>2, <1>3, <1>5, <1>7 DEF Columns
<1>14. \A c \in Columns(t, RhoWidth) : c \in 0 .. RhoWidth + 1 /\ c \in Int
  BY <1>2, RangeTypes DEF Columns
<1>10. CASE Forward(t)
  <2>1. /\ new \in Typed /\ threads' \in [Threads -> Typed]
        /\ new.i1 = th.i1 /\ new.i2 = th.i2 /\ new.i = th.i
        /\ new.at = "forward" /\ new.saw = inew[th.i - 1]
    BY <1>8, <1>9, <1>10 DEF Forward, Ats
  <2>2. inew' = inew /\ th.at = "next" /\ th.i < th.i2
    BY <1>10 DEF Forward
  <2> HIDE DEF th, new
  <2> QED  BY <1>3, <1>5, <1>6, <1>7, <1>9, <2>1, <2>2 DEF th
<1>11. CASE Backward(t)
  <2>1. /\ new \in Typed /\ threads' \in [Threads -> Typed]
        /\ new.i1 = th.i1 /\ new.i2 = th.i2 /\ new.i = th.i
        /\ new.at = "backward"
        /\ new.saw = IF th.saw = inew[th.i - 1] THEN th.saw ELSE "part"
    BY <1>8, <1>9, <1>11 DEF Backward, Ats, Marks
  <2>2. /\ inew' = [inew EXCEPT ![th.i] = "part"] /\ th.at = "forward" /\ th.i < th.i2
        /\ th.i > th.i1 => th.saw = "new"
    BY <1>1, <1>11 DEF Backward, FreshInv, RangeInv, Exists
  <2>3. th.i \in Columns(t, RhoWidth) /\ th.i \in 0 .. RhoWidth + 1
    BY <1>2, <1>3, <2>2 DEF Columns
  <2>5. inew' \in [0 .. RhoWidth + 1 -> Marks]
    BY <1>5, <2>2 DEF Marks
  <2>6. \A c \in 0 .. RhoWidth + 1 : inew'[c] = IF c = th.i THEN "part" ELSE inew[c]
    BY <1>5, <2>2
  <2> HIDE DEF th, new
  <2> QED  BY <1>3, <1>6, <1>7, <1>9, <1>14, <2>1, <2>2, <2>3, <2>5, <2>6 DEF th
<1>12. CASE NextColumn(t)
  <2>1. /\ new \in Typed /\ threads' \in [Threads -> Typed]
        /\ new.i1 = th.i1 /\ new.i2 = th.i2 /\ new.i = th.i + 1 /\ new.at = "next"
    BY <1>8, <1>12 DEF NextColumn, Ats
  <2>2. inew' = [inew EXCEPT ![th.i] = "new"] /\ th.at = "backward" /\ th.i < th.i2
    BY <1>1, <1>12 DEF NextColumn, RangeInv, Exists
  <2>3. th.i \in Columns(t, RhoWidth) /\ th.i + 1 \in th.i .. th.i2
    BY <1>2, <1>3, <2>2 DEF Columns
  <2>5. inew' \in [0 .. RhoWidth + 1 -> Marks]
    BY <1>5, <2>2 DEF Marks
  <2>6. \A c \in 0 .. RhoWidth + 1 : inew'[c] = IF c = th.i THEN "new" ELSE inew[c]
    BY <1>5, <2>2
  <2> HIDE DEF th, new
  <2> QED  BY <1>3, <1>6, <1>7, <1>14, <2>1, <2>2, <2>3, <2>5, <2>6 DEF th
<1>13. CASE End(t)
  <2>1. /\ new \in Typed /\ threads' \in [Threads -> Typed]
        /\ new.i1 = th.i1 /\ new.i2 = th.i2 /\ new.i = th.i /\ new.at = "ended"
    BY <1>8, <1>13 DEF End, Ats
  <2>2. inew' = inew /\ th.at = "next" /\ th.i >= th.i2
    BY <1>13 DEF End
  <2> HIDE DEF th, new
  <2> QED  BY <1>3, <1>5, <1>6, <1>7, <2>1, <2>2 DEF th
<1> QED  BY <1>10, <1>11, <1>12, <1>13 DEF Run

(* Where there are no threads, only the types matter.                        *)
LEMMA QuietInv ==
    ASSUME IInv, pc \notin {"create", "join"}, ~Stepping',
           UNCHANGED <<size, q, threads>>, DimsTyped(heap'), level' \in 0 .. 2
    PROVE  IInv'
<1>1. \A t \in Threads : threads[t].at = "none"
  BY DEF IInv, PhaseInv, Exists
<1> QED  BY <1>1 DEF IInv, StateInv, PhaseInv, RangeInv, ColumnInv, FreshInv, Exists, Stepping, DimsTyped

LEMMA CompressInv ==
    ASSUME IInv, Luminosity \/ Gradient \/ Attenuation \/ Divergence \/ Lattices \/ Refine
                 \/ Finest \/ SolverCancelled \/ Draw \/ Cancelled
    PROVE  IInv'
<1>1. DimsTyped(heap) /\ level \in 0 .. 2 /\ size \in Sizes /\ size \in Dims
  BY SizesAreDims DEF IInv, StateInv
<1>2. ASSUME NEW names PROVE \A h : DimsTyped(h) => DimsTyped(Declare(h, names, size))
  BY <1>1, ConstructDims DEF Declare
<1>3. CASE Luminosity
  BY <1>1, <1>2, <1>3, QuietInv DEF Luminosity, Report, KeepSolver, Stepping
<1>4. CASE Gradient
  BY <1>1, <1>2, <1>4, QuietInv DEF Gradient, Report, KeepSolver, Stepping
<1>5. CASE Attenuation
  BY <1>1, <1>2, <1>5, QuietInv DEF Attenuation, NoReport, KeepSolver, Stepping
<1>6. CASE Divergence
  BY <1>1, <1>6, QuietInv DEF Divergence, Report, KeepSolver, Stepping
<1>7. CASE Lattices
  <2> DEFINE from == [v \in {V("lattice_rho"), <<"Rho", 0>>} |-> V("div_G")]
             rho  == Copy(heap, from)
             new  == {V("lattice_I")} \cup {<<"Rho", k>> : k \in 1 .. Divides(size)}
             dims == [v \in new |-> LatticeSize(size, IF v[1] = "Rho" THEN v[2] ELSE Divides(size))]
  <2>1. DimsTyped(rho)
    BY <1>1, CopyDims, HandleNames
  <2>2. \A v \in new : dims[v] \in Dims
    <3>1. ASSUME NEW v \in new
          PROVE  (IF v[1] = "Rho" THEN v[2] ELSE Divides(size)) \in 0 .. 2
      BY DivideBounds DEF V
    <3> QED  BY <1>1, <3>1, LatticeSizeDims
  <2>3. heap' = Construct(rho, dims) /\ level' = Divides(size)
    BY <1>7 DEF Lattices
  <2> HIDE DEF rho, new
  <2>4. DimsTyped(heap')
    BY <2>1, <2>2, <2>3, ConstructDims
  <2> QED  BY <1>7, <2>3, <2>4, DivideBounds, QuietInv DEF Lattices, NoReport, Stepping
<1>8. CASE Refine
  <2> DEFINE left == Destroy(heap, SolverHandles)
             q22  == Declare(left, {"Q22"}, LatticeSize(size, level - 1))
             g    == Destroy(q22, {V("lattice_I")})
             from == [x \in {V("lattice_I")} |-> V("Q22")]
  <2>1. level' = level - 1 /\ level' \in 0 .. 2
    BY <1>1, <1>8 DEF Refine
  <2>2. DimsTyped(left)
    BY <1>1, DestroyDims
  <2> HIDE DEF left
  <2>3. DimsTyped(q22)
    BY <1>1, <2>1, <2>2, ConstructDims, LatticeSizeDims DEF Declare
  <2>4. V("Q22") \in Handles /\ V("lattice_I") # V("Q22")
    BY HandlesAssumption DEF V, AllHandles, LatticeHandles, Locals
  <2>5. heap' = Destroy(Copy(g, from), {V("Q22")})
    BY <1>8, <2>4 DEF Refine, Assign, left
  <2> HIDE DEF q22
  <2>6. DimsTyped(g)
    BY <2>3, DestroyDims
  <2> HIDE DEF g
  <2>7. DimsTyped(heap')
    BY <2>4, <2>5, <2>6, CopyDims, DestroyDims
  <2> QED  BY <1>8, <2>1, <2>7, QuietInv DEF Refine, NoReport, Stepping
<1>9. CASE Finest
  <2>1. DimsTyped(Copy(heap, [v \in Locals({"compress_I"}) |-> V("lattice_I")]))
    BY <1>1, CopyDims, HandleNames
  <2>2. DimsTyped(heap')
    BY <1>9, <2>1, DestroyDims DEF Finest
  <2> QED  BY <1>1, <1>9, <2>2, QuietInv DEF Finest, Report, Stepping
<1>10. CASE SolverCancelled
  <2>1. DimsTyped(Destroy(heap, SolverHandles \cup LatticeHandles)) /\ NoDim \in Dims
    BY <1>1, DestroyDims DEF NoDim, Dims
  <2>2. DimsTyped(heap')
    BY <1>10, <2>1, ConstructDims DEF SolverCancelled, Declare
  <2> QED  BY <1>1, <1>10, <2>2, QuietInv DEF SolverCancelled, NoReport, Stepping
<1>11. CASE Draw
  BY <1>1, <1>11, DestroyDims, QuietInv DEF Draw, NoReport, KeepSolver, Stepping
<1>12. CASE Cancelled
  BY <1>1, <1>12, DestroyDims, QuietInv DEF Cancelled, NoReport, KeepSolver, Stepping
<1> QED  BY <1>3, <1>4, <1>5, <1>6, <1>7, <1>8, <1>9, <1>10, <1>11, <1>12

LEMMA SolveInv ==
    ASSUME IInv, Solve
    PROVE  IInv'
<1> DEFINE dim    == heap.dim[<<"Rho", level>>]
           from   == [v \in Locals({"I0", "rho"}) |->
                         IF v[1] = "rho" THEN <<"Rho", level>> ELSE V("lattice_I")]
           shared == Copy(heap, from)
           wider  == [w |-> dim.w + 2, h |-> dim.h + 2]
           dims   == [v \in Locals({"I", "Inew"}) |-> wider]
<1>1. DimsTyped(heap) /\ level \in 0 .. 2 /\ dim \in Dims
  BY HandleNames DEF IInv, StateInv, DimsTyped
<1>2. wider \in Dims
  BY <1>1 DEF Dims
<1>3. DimsTyped(shared)
  BY <1>1, CopyDims, HandleNames
<1>4. heap' = Construct(shared, dims)
  BY DEF Solve, Declare
<1>5. V("rho") \notin DOMAIN dims /\ V("rho") \in DOMAIN from
  BY DEF V, Locals
<1>6. shared.dim[V("rho")] = dim
  BY <1>5, HandleNames, HoldDim DEF Copy, V
<1> HIDE DEF shared, dim, from
<1>7. DimsTyped(heap')
  BY <1>2, <1>3, <1>4, ConstructDims
<1>8. RhoWidth' = dim.w
  <2>1. heap'.dim[V("rho")] = shared.dim[V("rho")]
    BY <1>4, <1>5, HandleNames, HoldDim DEF Construct
  <2> QED  BY <1>6, <2>1 DEF RhoWidth
<1>9. dim.w \in Nat
  BY <1>1 DEF Dims
<1>10. /\ UNCHANGED <<size, level, threads>> /\ pc = "solve" /\ pc' = "create" /\ q' = 1
       /\ inew' = [c \in 0 .. dim.w + 1 |-> "old"]
  BY DEF Solve, NoReport, dim
<1>11. \A t \in Threads : ~Exists(t) /\ ~Exists(t)'
  BY <1>10 DEF IInv, PhaseInv, Exists
<1>12. StateInv'
  BY <1>7, <1>10, ThreadsNumNat DEF IInv, StateInv, DimsTyped, Threads
<1>13. PhaseInv' /\ RangeInv' /\ FreshInv'
  BY <1>10, <1>11, ThreadsNumNat DEF PhaseInv, RangeInv, FreshInv, Exists, Threads
<1>14. ColumnInv'
  <2>1. \A t \in Threads : \A c \in Columns(t, dim.w) : c \in 0 .. dim.w + 1
    BY <1>9, RangeTypes DEF Columns
  <2> QED  BY <1>8, <1>9, <1>10, <1>11, <2>1 DEF ColumnInv, Mark, Marks
<1> QED  BY <1>12, <1>13, <1>14 DEF IInv

LEMMA CreateInv ==
    ASSUME IInv, Create
    PROVE  IInv'
<1> USE DEF IInv
<1>1. /\ UNCHANGED <<size, level, inew>> /\ pc = "create" /\ q \in Threads /\ Stepping
      /\ pc' = IF q < ThreadsNum THEN "create" ELSE "join"
      /\ q' = IF q < ThreadsNum THEN q + 1 ELSE 1
  BY DEF Create, NoReport, StateInv, Stepping
<1>0. PICK k \in Threads : k = q
  BY <1>1
<1>2. RhoWidth \in Nat /\ DimsTyped(heap)
  BY HandleNames DEF RhoWidth, StateInv, DimsTyped, Dims
<1>3. DimsTyped(heap') /\ RhoWidth' = RhoWidth
  <2> DEFINE from == [v \in ThreadHandles(q) |-> IF v[1] = "thread_rho" THEN V("rho") ELSE V("Inew")]
  <2>1. heap' = Copy(heap, from)
    BY DEF Create
  <2>2. \A v \in DOMAIN from : from[v] \in Handles
    BY HandleNames
  <2>3. heap'.dim[V("rho")] = heap.dim[V("rho")]
    BY <1>1, <2>1, HandleNames, HoldDim DEF Copy
  <2> QED  BY <1>2, <2>1, <2>2, <2>3, CopyDims DEF RhoWidth
<1>4. ~Exists(q) /\ \A t \in Threads : t # q => threads'[t] = threads[t]
  BY <1>1, ThreadsNumNat DEF PhaseInv, Create, Threads, StateInv
<1> DEFINE new == threads'[q]
<1>5. /\ new.i1 = FirstOf(q, RhoWidth) /\ new.i2 = EndOf(q, RhoWidth)
      /\ new.i = FirstOf(q, RhoWidth) /\ new.at = "next"
      /\ threads' \in [Threads -> [i1 : Nat, i2 : Nat, i : Nat, at : Ats, saw : Marks]]
  <2>1. FirstOf(q, RhoWidth) \in Nat /\ EndOf(q, RhoWidth) \in Nat
    BY <1>1, <1>2, RangeTypes
  <2> QED  BY <1>1, <2>1 DEF Create, StateInv, Ats, Marks
<1> HIDE DEF new
<1>6. Exists(k)' /\ \A t \in Threads : t # k => (Exists(t)' <=> Exists(t))
  BY <1>0, <1>1, <1>4, <1>5 DEF Exists, new
<1>7. StateInv'
  <2>1. q' \in Threads
    BY <1>1, ThreadsNumNat DEF Threads
  <2>2. DimsTyped(heap)'
    BY <1>3 DEF DimsTyped
  <2>3. size' \in Sizes /\ level' \in 0 .. 2
    BY <1>1 DEF StateInv
  <2> QED  BY <1>5, <2>1, <2>2, <2>3 DEF StateInv
<1>8. PhaseInv'
  <2>1. \A t \in Threads : Exists(t)' <=> t <= q
    BY <1>0, <1>1, <1>6, ThreadsNumNat DEF PhaseInv, Threads
  <2> QED  BY <1>1, <2>1, ThreadsNumNat DEF PhaseInv, Threads
<1>9. RangeInv'
  <2>1. FirstOf(q, RhoWidth) \in FirstOf(q, RhoWidth) .. EndOf(q, RhoWidth)
    BY <1>1, <1>2, RangeTypes
  <2> QED  BY <1>0, <1>1, <1>3, <1>4, <1>5, <1>6, <2>1 DEF RangeInv, new
<1>10. FreshInv'
  BY <1>1, <1>4, <1>5 DEF FreshInv, new
<1>11. ColumnInv'
  <2>1. ASSUME NEW t \in Threads, NEW c \in Columns(t, RhoWidth)
        PROVE  inew[c] = Mark(t, c)'
    <3>1. inew[c] = Mark(t, c)
      BY <1>1, <2>1 DEF ColumnInv
    <3>2. CASE t = q
      <4>1. ~(c < FirstOf(q, RhoWidth))
        BY <1>1, <1>2, <2>1, <3>2, RangeTypes DEF Columns
      <4> QED  BY <1>0, <1>1, <1>4, <1>5, <1>6, <3>1, <3>2, <4>1 DEF Mark, new
    <3>3. CASE t # q
      <4>1. Exists(t) \/ pc' = "create"
        BY <1>1, <3>3, ThreadsNumNat DEF PhaseInv, Threads
      <4> QED  BY <1>0, <1>1, <1>4, <1>6, <3>1, <3>3, <4>1 DEF Mark
    <3> QED  BY <3>2, <3>3
  <2> QED  BY <1>1, <1>3, <2>1 DEF ColumnInv
<1> QED  BY <1>7, <1>8, <1>9, <1>10, <1>11

LEMMA JoinInv ==
    ASSUME IInv, Join
    PROVE  IInv'
<1> USE DEF IInv
<1>1. /\ UNCHANGED <<size, level, inew>> /\ pc = "join" /\ q \in Threads /\ Stepping
      /\ pc' = IF q < ThreadsNum THEN "join" ELSE "judge"
      /\ q' = IF q < ThreadsNum THEN q + 1 ELSE 1
      /\ threads[q].at = "ended" /\ Exists(q)
  BY DEF Join, NoReport, StateInv, Stepping, Exists
<1>0. PICK k \in Threads : k = q
  BY <1>1
<1>2. RhoWidth \in Nat /\ DimsTyped(heap)
  BY HandleNames DEF RhoWidth, StateInv, DimsTyped, Dims
<1>3. DimsTyped(heap') /\ RhoWidth' = RhoWidth
  BY <1>1, <1>2, DestroyDims, HandleNames DEF Join, Destroy, RhoWidth
<1>4. \A t \in Threads : t # q => threads'[t] = threads[t]
  BY <1>1 DEF Join, StateInv
<1>5. /\ threads'[q] = Idle
      /\ threads' \in [Threads -> [i1 : Nat, i2 : Nat, i : Nat, at : Ats, saw : Marks]]
  BY <1>1 DEF Join, StateInv, Idle, Ats, Marks
<1>6. ~Exists(k)' /\ \A t \in Threads : t # k => (Exists(t)' <=> Exists(t))
  BY <1>0, <1>1, <1>4, <1>5 DEF Exists, Idle
<1>7. StateInv'
  <2>1. q' \in Threads
    BY <1>1, ThreadsNumNat DEF Threads
  <2>2. DimsTyped(heap)'
    BY <1>3 DEF DimsTyped
  <2>3. size' \in Sizes /\ level' \in 0 .. 2
    BY <1>1 DEF StateInv
  <2> QED  BY <1>5, <2>1, <2>2, <2>3 DEF StateInv
<1>8. PhaseInv'
  <2>1. \A t \in Threads : Exists(t)' <=> t > q
    BY <1>0, <1>1, <1>6, ThreadsNumNat DEF PhaseInv, Threads
  <2> QED  BY <1>1, <2>1, ThreadsNumNat DEF PhaseInv, Threads
<1>9. RangeInv'
  BY <1>0, <1>1, <1>3, <1>4, <1>6 DEF RangeInv
<1>10. FreshInv'
  BY <1>1, <1>4, <1>5 DEF FreshInv, Idle
<1>11. ColumnInv'
  <2>1. ASSUME NEW t \in Threads, NEW c \in Columns(t, RhoWidth)
        PROVE  inew[c] = Mark(t, c)'
    <3>1. inew[c] = Mark(t, c)
      BY <1>1, <2>1 DEF ColumnInv
    <3>2. CASE t = q
      <4>1. threads[q].i = EndOf(q, RhoWidth)
        BY <1>1 DEF RangeInv
      <4>2. c < threads[q].i
        BY <1>1, <1>2, <2>1, <3>2, <4>1, RangeTypes DEF Columns
      <4> QED  BY <1>0, <1>1, <1>6, <3>1, <3>2, <4>2 DEF Mark
    <3>3. CASE t # q
      BY <1>0, <1>1, <1>4, <1>6, <3>1, <3>3 DEF Mark
    <3> QED  BY <3>2, <3>3
  <2> QED  BY <1>1, <1>3, <2>1 DEF ColumnInv
<1> QED  BY <1>7, <1>8, <1>9, <1>10, <1>11

LEMMA JudgeInv ==
    ASSUME IInv, Judge
    PROVE  IInv'
<1> USE DEF IInv
<1>1. /\ UNCHANGED <<size, level, heap, q, threads>> /\ pc = "judge"
      /\ pc' \in {"solved", "create", "solver_cancelled"}
      /\ inew' = [c \in DOMAIN inew |-> "old"] /\ RhoWidth' = RhoWidth
  BY DEF Judge, Report, RhoWidth
<1>2. RhoWidth \in Nat /\ DOMAIN inew = 0 .. RhoWidth + 1 /\ q = 1
  BY <1>1, HandleNames DEF RhoWidth, StateInv, DimsTyped, Dims, ColumnInv, Stepping, PhaseInv
<1>3. \A t \in Threads : ~Exists(t) /\ ~Exists(t)'
  BY <1>1 DEF PhaseInv, Exists
<1>4. StateInv' /\ RangeInv' /\ FreshInv'
  BY <1>1, <1>3 DEF StateInv, RangeInv, FreshInv, Exists, DimsTyped
<1>5. PhaseInv'
  BY <1>1, <1>2, <1>3 DEF PhaseInv, Threads
<1>6. ColumnInv'
  <2>1. \A t \in Threads : \A c \in Columns(t, RhoWidth) : c \in 0 .. RhoWidth + 1
    BY <1>2, RangeTypes DEF Columns
  <2> QED  BY <1>1, <1>2, <1>3, <2>1 DEF ColumnInv, Mark, Marks, Stepping
<1> QED  BY <1>4, <1>5, <1>6

LEMMA StepInv == IInv /\ [Next]_vars => IInv'
<1> SUFFICES ASSUME IInv, [Next]_vars PROVE IInv'
  OBVIOUS
<1>1. CASE UNCHANGED vars
  BY <1>1 DEF vars, mainVars, IInv, StateInv, PhaseInv, RangeInv, ColumnInv, FreshInv, Exists,
              Stepping, RhoWidth, Mark, DimsTyped
<1>2. CASE Compress
  BY <1>2, CompressInv, SolveInv, CreateInv, JoinInv, JudgeInv DEF Compress
<1>3. CASE \E t \in Threads : Run(t)
  BY <1>3, RunInv
<1> QED  BY <1>1, <1>2, <1>3 DEF Next, Over

THEOREM Invariance == Spec => []IInv
BY InitInv, StepInv, PTL DEF Spec

(* Whatever the size of the picture, the number of threads and their order,  *)
(* a step of the solver has computed every column when it is judged.         *)
THEOREM EveryColumn == Spec => []EachColumnComputed
<1>1. IInv => EachColumnComputed
  <2> SUFFICES ASSUME IInv, pc = "judge", NEW c \in DOMAIN inew
               PROVE  inew[c] = IF c \in 1 .. RhoWidth THEN "new" ELSE "old"
    BY DEF EachColumnComputed
  <2> USE DEF IInv
  <2>1. RhoWidth \in Nat /\ DOMAIN inew = 0 .. RhoWidth + 1
    BY HandleNames DEF RhoWidth, StateInv, DimsTyped, Dims, ColumnInv, Stepping
  <2>2. CASE c \in 1 .. RhoWidth
    <3>1. PICK t \in Threads : c \in Columns(t, RhoWidth)
      BY <2>1, <2>2, RangesCover
    <3>2. inew[c] = Mark(t, c)
      BY <3>1 DEF ColumnInv, Stepping
    <3> QED  BY <2>2, <3>2 DEF Mark, PhaseInv
  <2>3. CASE c \notin 1 .. RhoWidth
    <3>1. c = 0 \/ c = RhoWidth + 1
      BY <2>1, <2>3
    <3> QED  BY <2>3, <3>1 DEF ColumnInv, Stepping
  <2> QED  BY <2>2, <2>3
<1> QED  BY <1>1, Invariance, PTL

(* A column is computed from the new one before it, but for the first of a   *)
(* thread's range: the race between the threads goes no further.             *)
THEOREM FreshColumns == Spec => []ColumnsAreFresh
<1>1. IInv => ColumnsAreFresh
  BY DEF IInv, FreshInv, ColumnsAreFresh
<1> QED  BY <1>1, Invariance, PTL

(* No column is computed twice in a step.                                    *)
THEOREM ColumnOnce == Spec => NoColumnTwice
<1>1. IInv /\ [Next]_vars =>
        [\A c \in DOMAIN inew : inew[c] = "new" /\ c \in DOMAIN inew' => inew'[c] # "part"]_vars
  <2> SUFFICES ASSUME IInv, Next, NEW c \in DOMAIN inew, inew[c] = "new", c \in DOMAIN inew'
               PROVE  inew'[c] # "part"
    OBVIOUS
  <2>1. CASE Compress
    BY <2>1 DEF Compress, Luminosity, Gradient, Attenuation, Divergence, Lattices, Solve, Create,
                Join, Judge, Refine, Finest, SolverCancelled, Draw, Cancelled, KeepSolver
  <2>2. ASSUME NEW t \in Threads, Run(t)
        PROVE  inew'[c] # "part"
    <3>1. CASE Backward(t)
      <4>1. threads[t].at = "forward" /\ inew' = [inew EXCEPT ![threads[t].i] = "part"]
        BY <3>1 DEF Backward
      <4>2. /\ Exists(t) /\ Stepping
            /\ threads[t].i \in threads[t].i1 .. threads[t].i2 /\ threads[t].i < threads[t].i2
            /\ threads[t].i1 = FirstOf(t, RhoWidth) /\ threads[t].i2 = EndOf(t, RhoWidth)
        BY <4>1 DEF IInv, PhaseInv, RangeInv, Exists, Stepping
      <4>3. RhoWidth \in Nat
        BY HandleNames DEF RhoWidth, IInv, StateInv, DimsTyped, Dims
      <4>4. threads[t].i \in Columns(t, RhoWidth)
        BY <4>2, <4>3, RangeTypes DEF Columns
      <4>5. inew[threads[t].i] = Mark(t, threads[t].i)
        BY <4>2, <4>4 DEF IInv, ColumnInv
      <4>6. inew[threads[t].i] = "old"
        BY <4>1, <4>2, <4>5 DEF Mark
      <4> QED  BY <4>1, <4>6
    <3> QED  BY <2>2, <3>1 DEF Run, Forward, NextColumn, End
  <2> QED  BY <2>1, <2>2 DEF Next, Over, vars
<1> QED  BY <1>1, Invariance, PTL DEF Spec, NoColumnTwice
-----------------------------------------------------------------------------
(* Which variables hold an array.                                            *)

Held(h) == {v \in Handles : h.holds[v] # None}

Good(h) == h \in Heaps /\ Counted(h)

(* There is an injection from a finite set to one that has as many elements. *)
LEMMA InjectionExists ==
    ASSUME NEW S, NEW T, IsFiniteSet(S), IsFiniteSet(T), Cardinality(S) <= Cardinality(T)
    PROVE  Injection(S, T) # {}
<1> DEFINE m == Cardinality(S)
           n == Cardinality(T)
<1>1. m \in Nat /\ n \in Nat /\ ExistsBijection(1 .. m, S) /\ ExistsBijection(1 .. n, T)
  BY FS_CardinalityType
<1>2. PICK f : f \in Bijection(S, 1 .. m)
  <2>1. ExistsBijection(S, 1 .. m)
    BY <1>1, Fun_ExistsBijSymmetric
  <2> QED  BY <2>1, Fun_ExistsBij
<1>3. PICK g : g \in Bijection(1 .. n, T)
  BY <1>1, Fun_ExistsBij
<1>4. f \in [S -> 1 .. m] /\ \A a, b \in S : f[a] = f[b] => a = b
  BY <1>2, Fun_BijectionProperties
<1>5. g \in [1 .. n -> T] /\ \A a, b \in 1 .. n : g[a] = g[b] => a = b
  BY <1>3, Fun_BijectionProperties
<1>6. \A a \in S : f[a] \in 1 .. n
  BY <1>1, <1>4
<1> HIDE DEF m, n
<1>7. [s \in S |-> g[f[s]]] \in Injection(S, T)
  BY <1>4, <1>5, <1>6, Fun_IsInj
<1> QED  BY <1>7

(* A heap always has blocks for variables that hold nothing.                 *)
LEMMA BlocksSuffice ==
    ASSUME NEW h, Good(h), NEW S \in SUBSET Handles, S \cap Held(h) = {}
    PROVE  Injection(S, Unused(h)) # {}
<1> DEFINE held == Held(h)
           used == {h.holds[v] : v \in held}
           free == Blocks \ used
<1>1. IsFiniteSet(held) /\ IsFiniteSet(S) /\ Cardinality(held) \in Nat /\ Cardinality(S) \in Nat
  BY Arr2Assumption, FS_Subset, FS_CardinalityType DEF Held
<1>2. IsFiniteSet(used) /\ Cardinality(used) <= Cardinality(held) /\ Cardinality(used) \in Nat
  <2>1. [v \in held |-> h.holds[v]] \in Surjection(held, used)
    BY Fun_IsSurj
  <2> QED  BY <1>1, <2>1, FS_Surjection, FS_CardinalityType
<1>3. Cardinality(S) + Cardinality(held) <= Cardinality(Handles) /\ Cardinality(Handles) \in Nat
  <2>1. S \cup held \in SUBSET Handles
    BY DEF Held
  <2>2. Cardinality(S \cup held) <= Cardinality(Handles)
    BY <2>1, Arr2Assumption, FS_Subset
  <2>3. Cardinality(S \cup held) = Cardinality(S) + Cardinality(held) - Cardinality(S \cap held)
    BY <1>1, FS_Union
  <2>4. Cardinality(S \cap held) = 0
    BY FS_EmptySet
  <2> QED  BY <1>1, <2>2, <2>3, <2>4, Arr2Assumption, FS_CardinalityType
<1>4. IsFiniteSet(free) /\ Cardinality(S) <= Cardinality(free)
  <2>1. /\ IsFiniteSet(free) /\ Cardinality(Blocks) \in Nat
        /\ Cardinality(free) = Cardinality(Blocks) - Cardinality(Blocks \cap used)
    BY BlocksAssumption, FS_Difference, FS_CardinalityType
  <2>2. Cardinality(Blocks \cap used) <= Cardinality(used) /\ Cardinality(Blocks \cap used) \in Nat
    BY <1>2, BlocksAssumption, FS_Intersection, FS_CardinalityType
  <2> QED  BY <1>1, <1>2, <1>3, <2>1, <2>2, BlocksAssumption
<1>5. free \subseteq Unused(h)
  <2> SUFFICES ASSUME NEW b \in free
               PROVE  h.counter[b] = 0
    BY DEF Unused
  <2>1. Holders(h, b) = {}
    BY Arr2Assumption DEF Holders, Held
  <2> QED  BY <2>1, FS_EmptySet DEF Good, Counted
<1> HIDE DEF free, held, used
<1>6. PICK f : f \in Injection(S, free)
  BY <1>1, <1>4, InjectionExists
<1>7. f \in [S -> Unused(h)] /\ \A a, b \in S : f[a] = f[b] => a = b
  BY <1>5, <1>6, Fun_InjectionProperties
<1> QED  BY <1>7, Fun_IsInj

LEMMA HoldGood ==
    ASSUME NEW h, Good(h), NEW S \in SUBSET Handles, S \cap Held(h) = {},
           NEW dims \in [S -> Dims], NEW at \in [S -> Blocks]
    PROVE  Good(Hold(h, at, dims)) /\ Held(Hold(h, at, dims)) = Held(h) \cup S
<1> DEFINE g == Hold(h, at, dims)
<1>1. DOMAIN dims = S /\ \A v \in S : h.holds[v] = None
  BY DEF Held
<1>2. Counted(g)
  BY <1>1, HoldCounted DEF Good
<1>3. \A v \in Handles : g.holds[v] = IF v \in S THEN at[v] ELSE h.holds[v]
  BY <1>1 DEF Hold
<1>4. g.holds \in [Handles -> Blocks \cup {None}] /\ g.dim \in [Handles -> Dims]
  BY <1>1 DEF Hold, Good, Heaps
<1>5. g.counter \in [Blocks -> Nat]
  <2>1. \A b \in Blocks : g.counter[b] \in Nat
    BY <1>2, HoldersFinite DEF Counted
  <2>2. g.counter = [b \in Blocks |-> g.counter[b]]
    BY DEF Hold
  <2> HIDE DEF g
  <2> QED  BY <2>1, <2>2
<1>6. g = [holds |-> g.holds, dim |-> g.dim, counter |-> g.counter]
  BY DEF Hold
<1> HIDE DEF g
<1>7. g \in Heaps
  BY <1>4, <1>5, <1>6 DEF Heaps
<1>8. Held(g) = Held(h) \cup S
  BY <1>3, Arr2Assumption DEF Held
<1> QED  BY <1>2, <1>7, <1>8 DEF Good, g

(* arr2(width, height): new variables get blocks of their own.               *)
LEMMA ConstructGood ==
    ASSUME NEW h, Good(h), NEW S \in SUBSET Handles, S \cap Held(h) = {},
           NEW dims \in [S -> Dims]
    PROVE  Good(Construct(h, dims)) /\ Held(Construct(h, dims)) = Held(h) \cup S
<1> DEFINE at == CHOOSE at \in Injection(S, Unused(h)) : TRUE
<1>1. at \in Injection(S, Unused(h))
  BY BlocksSuffice
<1>3. Construct(h, dims) = Hold(h, at, dims)
  BY DEF Construct
<1> HIDE DEF at
<1>2. at \in [S -> Blocks]
  <2>1. at \in [S -> Unused(h)]
    BY <1>1, Fun_InjectionProperties
  <2>2. Unused(h) \subseteq Blocks
    BY DEF Unused
  <2> QED  BY <2>1, <2>2
<1> QED  BY <1>2, <1>3, HoldGood

(* arr2(const arr2&): copies share their origins' blocks.                    *)
LEMMA CopyGood ==
    ASSUME NEW h, Good(h), NEW S \in SUBSET Handles, S \cap Held(h) = {},
           NEW from \in [S -> Held(h)]
    PROVE  Good(Copy(h, from)) /\ Held(Copy(h, from)) = Held(h) \cup S
<1>1. \A v \in S : from[v] \in Handles /\ h.holds[from[v]] \in Blocks /\ h.dim[from[v]] \in Dims
  BY DEF Held, Good, Heaps
<1>2. /\ [v \in DOMAIN from |-> h.holds[from[v]]] \in [S -> Blocks]
      /\ [v \in DOMAIN from |-> h.dim[from[v]]] \in [S -> Dims]
  BY <1>1
<1> QED  BY <1>2, HoldGood DEF Copy

(* ~arr2.                                                                    *)
LEMMA DestroyGood ==
    ASSUME NEW h, Good(h), NEW vs \in SUBSET Handles
    PROVE  Good(Destroy(h, vs)) /\ Held(Destroy(h, vs)) = Held(h) \ vs
<1>1. \A v \in Handles : Destroy(h, vs).holds[v] = IF v \in vs THEN None ELSE h.holds[v]
  BY DEF Destroy
<1> QED  BY <1>1, DestroyTypes DEF Good, Held

(* operator=: the variable that is assigned to holds the other's block.      *)
LEMMA AssignGood ==
    ASSUME NEW h, Good(h), NEW v \in Held(h), NEW w \in Held(h), v # w
    PROVE  Good(Assign(h, v, w)) /\ Held(Assign(h, v, w)) = Held(h)
<1> DEFINE g == Destroy(h, {v})
<1>1. {v} \in SUBSET Handles
  BY DEF Held
<1>2. Good(g) /\ Held(g) = Held(h) \ {v}
  BY <1>1, DestroyGood
<1>3. Assign(h, v, w) = Copy(g, [x \in {v} |-> w])
  BY DEF Assign
<1> HIDE DEF g
<1>4. [x \in {v} |-> w] \in [{v} -> Held(g)]
  BY <1>2
<1>5. Good(Copy(g, [x \in {v} |-> w])) /\ Held(Copy(g, [x \in {v} |-> w])) = Held(g) \cup {v}
  BY <1>1, <1>2, <1>4, CopyGood
<1> QED  BY <1>2, <1>3, <1>5
-----------------------------------------------------------------------------
(* The second inductive invariant: which variables hold an array at each     *)
(* place of the calling thread, how large they are, and what was answered.   *)

Luminous == Locals({"H", "r_chan", "g_chan", "b_chan"})
Sloped   == Luminous \cup Locals({"grad_H_x", "grad_H_y"})
Drawn    == Sloped \cup Locals({"Phi", "div_G"})

LatticesHeld == Locals({"lattice_rho", "lattice_I"}) \cup {<<"Rho", k>> : k \in 0 .. Divides(size)}

ThreadsHeld == UNION {ThreadHandles(t) : t \in {t \in Threads : Exists(t)}}

InSolver == pc \in {"create", "join", "judge", "solved", "solver_cancelled"}

HeldInv ==
    /\ Good(heap)
    /\ pc \in {"start", "returned"} => Held(heap) = {}
    /\ pc = "gradient" => Held(heap) = Luminous
    /\ pc = "phi" => Held(heap) = Sloped
    /\ pc = "div_G" => Held(heap) = Drawn
    /\ pc = "cancelled" => Held(heap) \subseteq Drawn
    /\ pc = "solve" => Held(heap) = Drawn \cup LatticesHeld
    /\ InSolver => Held(heap) = Drawn \cup LatticesHeld \cup SolverHandles \cup ThreadsHeld
    /\ pc = "draw" => Held(heap) = CompressHandles

SizeInv ==
    /\ pc = "div_G" => heap.dim[V("div_G")] = size
    /\ pc = "solve" \/ InSolver =>
           /\ level <= Divides(size)
           /\ \A k \in 0 .. Divides(size) : heap.dim[<<"Rho", k>>] = LatticeSize(size, k)
           /\ heap.dim[V("lattice_I")] = LatticeSize(size, level)

AnswerInv ==
    /\ refused \in BOOLEAN
    /\ pc # "returned" => result = [returned |-> "nothing", bitmap |-> "original"]
    /\ pc \in {"cancelled", "solver_cancelled"} => refused
    /\ pc = "draw" => \/ heap.dim[V("compress_I")] = NoDim /\ refused
                      \/ heap.dim[V("compress_I")] = size /\ told = 1000
    /\ CancelLeavesBitmap

(* Which sets of variables have members in common.                           *)
LEMMA HandleSets ==
    /\ CompressHandles \in SUBSET Handles /\ SolverHandles \in SUBSET Handles
    /\ LatticeHandles \in SUBSET Handles /\ LatticesHeld \subseteq LatticeHandles
    /\ \A t \in Threads : ThreadHandles(t) \in SUBSET Handles
    /\ CompressHandles = Drawn \cup {V("compress_I")} /\ V("compress_I") \notin Drawn
    /\ CompressHandles \cap LatticeHandles = {} /\ CompressHandles \cap SolverHandles = {}
    /\ LatticeHandles \cap SolverHandles = {}
    /\ \A t \in Threads : /\ ThreadHandles(t) \cap SolverHandles = {}
                          /\ ThreadHandles(t) \cap LatticeHandles = {}
                          /\ ThreadHandles(t) \cap CompressHandles = {}
                          /\ \A s \in Threads : s # t => ThreadHandles(t) \cap ThreadHandles(s) = {}
<1>1. /\ CompressHandles \in SUBSET Handles /\ SolverHandles \in SUBSET Handles
      /\ LatticeHandles \in SUBSET Handles
      /\ \A t \in Threads : ThreadHandles(t) \in SUBSET Handles
  BY HandlesAssumption DEF AllHandles
<1>2. LatticesHeld \subseteq LatticeHandles
  BY DivideBounds DEF LatticesHeld, LatticeHandles, RhoHandles, Locals
<1>3. CompressHandles = Drawn \cup {V("compress_I")} /\ V("compress_I") \notin Drawn
  BY DEF CompressHandles, Drawn, Sloped, Luminous, Locals, V
<1>4. CompressHandles \cap LatticeHandles = {} /\ CompressHandles \cap SolverHandles = {}
  BY DEF CompressHandles, LatticeHandles, SolverHandles, RhoHandles, Locals
<1>5. LatticeHandles \cap SolverHandles = {}
  BY DEF LatticeHandles, SolverHandles, RhoHandles, Locals
<1>6. ASSUME NEW t \in Threads
      PROVE  /\ ThreadHandles(t) \cap SolverHandles = {}
             /\ ThreadHandles(t) \cap LatticeHandles = {}
             /\ ThreadHandles(t) \cap CompressHandles = {}
             /\ \A s \in Threads : s # t => ThreadHandles(t) \cap ThreadHandles(s) = {}
  BY DEF CompressHandles, LatticeHandles, SolverHandles, RhoHandles, Locals, ThreadHandles
<1> QED  BY <1>1, <1>2, <1>3, <1>4, <1>5, <1>6

(* Variables declared with one size.                                         *)
LEMMA DeclareGood ==
    ASSUME NEW h, Good(h), NEW names, Locals(names) \in SUBSET Handles,
           Locals(names) \cap Held(h) = {}, NEW dim \in Dims
    PROVE  /\ Good(Declare(h, names, dim))
           /\ Held(Declare(h, names, dim)) = Held(h) \cup Locals(names)
BY ConstructGood DEF Declare

LEMMA NoThreadsHeld ==
    ASSUME IInv, pc \notin {"create", "join"}
    PROVE  ThreadsHeld = {}
BY DEF IInv, PhaseInv, ThreadsHeld

(* The steps of Compress before the lattices.                                *)
LEMMA CompressHeld ==
    ASSUME HeldInv, IInv, Luminosity \/ Gradient \/ Attenuation \/ Divergence
    PROVE  HeldInv'
<1>1. Good(heap) /\ size \in Dims
  BY SizesAreDims DEF HeldInv, IInv, StateInv
<1>2. CASE Luminosity
  <2> DEFINE g == Declare(heap, {"H"}, size)
  <2>1. Held(heap) = {} /\ heap' = Declare(g, {"r_chan", "g_chan", "b_chan"}, size)
    BY <1>2 DEF HeldInv, Luminosity
  <2>2. Locals({"H"}) \in SUBSET Handles /\ Locals({"r_chan", "g_chan", "b_chan"}) \in SUBSET Handles
    BY HandleSets DEF CompressHandles, Locals
  <2>3. Good(g) /\ Held(g) = Locals({"H"})
    BY <1>1, <2>1, <2>2, DeclareGood
  <2> HIDE DEF g
  <2>4. Locals({"r_chan", "g_chan", "b_chan"}) \cap Locals({"H"}) = {}
    BY DEF Locals
  <2>5. Good(heap') /\ Held(heap') = Locals({"H"}) \cup Locals({"r_chan", "g_chan", "b_chan"})
    BY <1>1, <2>1, <2>2, <2>3, <2>4, DeclareGood
  <2>6. Held(heap') = Luminous /\ Luminous \subseteq Drawn
    BY <2>5 DEF Luminous, Sloped, Drawn, Locals
  <2> QED  BY <1>2, <2>5, <2>6 DEF Luminosity, Report, HeldInv, Held, Good, InSolver
<1>3. CASE Gradient
  <2>1. Held(heap) = Luminous /\ heap' = Declare(heap, {"grad_H_x", "grad_H_y"}, size)
    BY <1>3 DEF HeldInv, Gradient
  <2>2. Locals({"grad_H_x", "grad_H_y"}) \in SUBSET Handles
    BY HandleSets DEF CompressHandles, Locals
  <2>3. Locals({"grad_H_x", "grad_H_y"}) \cap Luminous = {}
    BY DEF Locals, Luminous
  <2>4. Good(heap') /\ Held(heap') = Sloped /\ Sloped \subseteq Drawn
    BY <1>1, <2>1, <2>2, <2>3, DeclareGood DEF Sloped, Drawn
  <2> QED  BY <1>3, <2>4 DEF Gradient, Report, HeldInv, Held, Good, InSolver
<1>4. CASE Attenuation
  <2>1. Held(heap) = Sloped /\ heap' = Declare(heap, {"Phi", "div_G"}, size)
    BY <1>4 DEF HeldInv, Attenuation
  <2>2. Locals({"Phi", "div_G"}) \in SUBSET Handles
    BY HandleSets DEF CompressHandles, Locals
  <2>3. Locals({"Phi", "div_G"}) \cap Sloped = {}
    BY DEF Locals, Sloped, Luminous
  <2>4. Good(heap') /\ Held(heap') = Drawn
    BY <1>1, <2>1, <2>2, <2>3, DeclareGood DEF Drawn
  <2> QED  BY <1>4, <2>4 DEF Attenuation, NoReport, HeldInv, Held, Good, InSolver
<1>5. CASE Divergence
  BY <1>5 DEF Divergence, Report, HeldInv, Held, Good, InSolver
<1> QED  BY <1>2, <1>3, <1>4, <1>5

(* SolvePoissonNeimanMultiLattice is entered.                                *)
LEMMA LatticesGood ==
    ASSUME HeldInv, IInv, Lattices
    PROVE  HeldInv'
<1> DEFINE shared == {V("lattice_rho"), <<"Rho", 0>>}
           from == [v \in shared |-> V("div_G")]
           rho  == Copy(heap, from)
           new  == {V("lattice_I")} \cup {<<"Rho", k>> : k \in 1 .. Divides(size)}
           dims == [v \in new |-> LatticeSize(size, IF v[1] = "Rho" THEN v[2] ELSE Divides(size))]
<1>1. Good(heap) /\ Held(heap) = Drawn /\ size \in Sizes /\ Divides(size) \in 0 .. 2
  BY DivideBounds DEF HeldInv, Lattices, IInv, StateInv
<1>2. shared \in SUBSET LatticesHeld /\ new \in SUBSET LatticesHeld /\ shared \cup new = LatticesHeld
  BY <1>1 DEF LatticesHeld, Locals, V
<1>3. LatticesHeld \in SUBSET Handles /\ LatticesHeld \cap Drawn = {} /\ shared \cap new = {}
  <2>1. shared \cap new = {}
    BY <1>1 DEF V
  <2> QED  BY <2>1, HandleSets
<1>4. V("div_G") \in Drawn
  BY DEF Drawn, Locals, V
<1>5. heap' = Construct(rho, dims)
  BY DEF Lattices
<1>6. dims \in [new -> Dims]
  <2>1. ASSUME NEW v \in new
        PROVE  (IF v[1] = "Rho" THEN v[2] ELSE Divides(size)) \in 0 .. 2
    BY <1>1 DEF V
  <2> QED  BY <1>1, <2>1, LatticeSizeDims
<1> HIDE DEF new, dims, shared
<1>7. Good(rho) /\ Held(rho) = Drawn \cup shared
  <2>1. from \in [shared -> Held(heap)]
    BY <1>1, <1>4
  <2> HIDE DEF from
  <2> QED  BY <1>1, <1>2, <1>3, <2>1, CopyGood
<1> HIDE DEF rho
<1>8. Good(heap') /\ Held(heap') = Drawn \cup shared \cup new
  <2>1. new \in SUBSET Handles /\ new \cap Held(rho) = {}
    BY <1>2, <1>3, <1>7
  <2> QED  BY <1>5, <1>6, <1>7, <2>1, ConstructGood
<1>9. Held(heap') = Drawn \cup LatticesHeld'
  BY <1>2, <1>8 DEF LatticesHeld, Lattices
<1> QED  BY <1>8, <1>9 DEF Lattices, NoReport, HeldInv, Held, Good, InSolver

(* SolvePoissonNeiman is entered.                                            *)
LEMMA SolveHeld ==
    ASSUME HeldInv, SizeInv, IInv, Solve
    PROVE  HeldInv'
<1> DEFINE dim    == heap.dim[<<"Rho", level>>]
           given  == Locals({"I0", "rho"})
           own    == Locals({"I", "Inew"})
           from   == [v \in given |-> IF v[1] = "rho" THEN <<"Rho", level>> ELSE V("lattice_I")]
           shared == Copy(heap, from)
<1>1. Good(heap) /\ Held(heap) = Drawn \cup LatticesHeld /\ level \in 0 .. 2
  BY DEF HeldInv, Solve, IInv, StateInv
<1>2. heap' = Declare(shared, {"I", "Inew"}, [w |-> dim.w + 2, h |-> dim.h + 2])
  BY DEF Solve
<1>3. [w |-> dim.w + 2, h |-> dim.h + 2] \in Dims
  BY <1>1, HandleNames DEF IInv, StateInv, DimsTyped, Dims
<1>4. /\ given \cup own = SolverHandles /\ given \cap own = {}
      /\ given \in SUBSET SolverHandles /\ own \in SUBSET SolverHandles
  BY DEF Locals, SolverHandles
<1>5. SolverHandles \in SUBSET Handles /\ SolverHandles \cap (Drawn \cup LatticesHeld) = {}
  BY HandleSets
<1>6. V("lattice_I") \in LatticesHeld /\ <<"Rho", level>> \in LatticesHeld
  BY <1>1, DivideBounds DEF LatticesHeld, Locals, V, SizeInv, Solve
<1>7. from \in [given -> Held(heap)]
  BY <1>1, <1>6
<1> HIDE DEF given, own, from, dim
<1>8. Good(shared) /\ Held(shared) = Drawn \cup LatticesHeld \cup given
  BY <1>1, <1>4, <1>5, <1>7, CopyGood
<1> HIDE DEF shared
<1>9. Good(heap') /\ Held(heap') = Drawn \cup LatticesHeld \cup given \cup own
  <2>1. own \in SUBSET Handles /\ own \cap Held(shared) = {}
    BY <1>4, <1>5, <1>8
  <2> QED  BY <1>2, <1>3, <1>8, <2>1, DeclareGood DEF own
<1>10. LatticesHeld' = LatticesHeld /\ ThreadsHeld' = {}
  <2>1. ThreadsHeld' = ThreadsHeld /\ ThreadsHeld = {}
    BY NoThreadsHeld DEF Solve, ThreadsHeld, Exists
  <2> QED  BY <2>1 DEF Solve, LatticesHeld
<1>11. Held(heap') = Drawn \cup LatticesHeld' \cup SolverHandles \cup ThreadsHeld'
  BY <1>4, <1>9, <1>10
<1> QED  BY <1>9, <1>11 DEF Solve, NoReport, HeldInv, Held, Good, InSolver

(* A thread is created: it gets handles of its own.                          *)
LEMMA CreateHeld ==
    ASSUME HeldInv, IInv, Create
    PROVE  HeldInv'
<1> DEFINE from == [v \in ThreadHandles(q) |-> IF v[1] = "thread_rho" THEN V("rho") ELSE V("Inew")]
<1>1. /\ Good(heap) /\ Held(heap) = Drawn \cup LatticesHeld \cup SolverHandles \cup ThreadsHeld
      /\ q \in Threads /\ heap' = Copy(heap, from)
  BY DEF HeldInv, InSolver, Create, IInv, StateInv
<1>2. \A t \in Threads : (t = q => ~Exists(t) /\ Exists(t)') /\ (t # q => (Exists(t)' <=> Exists(t)))
  BY ThreadsNumNat DEF IInv, PhaseInv, Create, Exists, Threads, StateInv
<1>3. ThreadsHeld' = ThreadsHeld \cup ThreadHandles(q)
  BY <1>1, <1>2 DEF ThreadsHeld
<1>4. ThreadHandles(q) \in SUBSET Handles /\ ThreadHandles(q) \cap Held(heap) = {}
  <2>1. ThreadHandles(q) \cap ThreadsHeld = {}
    BY <1>1, <1>2, HandleSets DEF ThreadsHeld
  <2>2. ThreadHandles(q) \cap (Drawn \cup LatticesHeld \cup SolverHandles) = {}
    BY <1>1, HandleSets
  <2> QED  BY <1>1, <2>1, <2>2, HandleSets
<1>5. from \in [ThreadHandles(q) -> Held(heap)]
  BY <1>1 DEF SolverHandles, Locals, V
<1> HIDE DEF from
<1>6. Good(heap') /\ Held(heap') = Held(heap) \cup ThreadHandles(q)
  BY <1>1, <1>4, <1>5, CopyGood
<1>7. Held(heap') = Drawn \cup LatticesHeld' \cup SolverHandles \cup ThreadsHeld'
  BY <1>1, <1>3, <1>6 DEF LatticesHeld, Create
<1> QED  BY <1>6, <1>7 DEF Create, NoReport, HeldInv, Held, Good, InSolver

(* A thread is deleted when it has been joined.                              *)
LEMMA JoinHeld ==
    ASSUME HeldInv, IInv, Join
    PROVE  HeldInv'
<1>1. /\ Good(heap) /\ Held(heap) = Drawn \cup LatticesHeld \cup SolverHandles \cup ThreadsHeld
      /\ q \in Threads /\ heap' = Destroy(heap, ThreadHandles(q))
  BY DEF HeldInv, InSolver, Join, IInv, StateInv
<1>2. \A t \in Threads : (t = q => Exists(t) /\ ~Exists(t)') /\ (t # q => (Exists(t)' <=> Exists(t)))
  BY DEF Join, Exists, Idle, IInv, StateInv
<1>3. ThreadsHeld' = ThreadsHeld \ ThreadHandles(q)
  <2>1. \A t \in Threads : t # q => ThreadHandles(t) \cap ThreadHandles(q) = {}
    BY <1>1, HandleSets
  <2> QED  BY <1>1, <1>2, <2>1 DEF ThreadsHeld
<1>4. ThreadHandles(q) \in SUBSET Handles /\ ThreadHandles(q) \cap (Drawn \cup LatticesHeld \cup SolverHandles) = {}
  BY <1>1, HandleSets
<1>5. Good(heap') /\ Held(heap') = Held(heap) \ ThreadHandles(q)
  BY <1>1, <1>4, DestroyGood
<1>6. Held(heap') = Drawn \cup LatticesHeld' \cup SolverHandles \cup ThreadsHeld'
  BY <1>1, <1>3, <1>4, <1>5 DEF LatticesHeld, Join
<1> QED  BY <1>5, <1>6 DEF Join, NoReport, HeldInv, Held, Good, InSolver

(* A finer lattice follows: the solver's arrays go, Q22 comes and goes.      *)
LEMMA RefineHeld ==
    ASSUME HeldInv, IInv, Refine
    PROVE  HeldInv'
<1> DEFINE left == Destroy(heap, SolverHandles)
           q22  == Declare(left, {"Q22"}, LatticeSize(size, level - 1))
           next == Assign(q22, V("lattice_I"), V("Q22"))
           solving == Drawn \cup LatticesHeld
<1>1. /\ Good(heap) /\ Held(heap) = solving \cup SolverHandles /\ ThreadsHeld = {}
      /\ LatticeSize(size, level - 1) \in Dims /\ heap' = Destroy(next, {V("Q22")})
  <2>1. level - 1 \in 0 .. 2 /\ size \in Sizes
    BY DEF Refine, IInv, StateInv
  <2> QED  BY <2>1, NoThreadsHeld, LatticeSizeDims DEF HeldInv, InSolver, Refine
<1>2. /\ Locals({"Q22"}) = {V("Q22")} /\ V("Q22") \in Handles /\ V("Q22") \notin solving
      /\ V("lattice_I") \in solving
  <2>1. Locals({"Q22"}) = {V("Q22")} /\ V("Q22") \in LatticeHandles /\ V("lattice_I") \in LatticesHeld
    BY DEF Locals, V, LatticeHandles, LatticesHeld
  <2>2. V("Q22") \notin LatticesHeld
    BY DEF LatticesHeld, Locals, V
  <2> QED  BY <2>1, <2>2, HandleSets
<1> HIDE DEF solving
<1>3. Good(left) /\ Held(left) = solving
  <2>1. solving \cap SolverHandles = {}
    BY HandleSets DEF solving
  <2>2. Good(left) /\ Held(left) = Held(heap) \ SolverHandles
    BY <1>1, HandleSets, DestroyGood
  <2> QED  BY <1>1, <2>1, <2>2
<1> HIDE DEF left
<1>4. Good(q22) /\ Held(q22) = solving \cup {V("Q22")}
  BY <1>1, <1>2, <1>3, DeclareGood
<1> HIDE DEF q22
<1>5. Good(next) /\ Held(next) = solving \cup {V("Q22")}
  BY <1>2, <1>4, AssignGood
<1> HIDE DEF next
<1>6. Good(heap') /\ Held(heap') = solving
  <2>1. {V("Q22")} \in SUBSET Handles
    BY <1>2
  <2>2. Good(heap') /\ Held(heap') = (solving \cup {V("Q22")}) \ {V("Q22")}
    BY <1>1, <1>5, <2>1, DestroyGood
  <2> QED  BY <1>2, <2>2
<1>7. Held(heap') = Drawn \cup LatticesHeld'
  BY <1>6 DEF solving, LatticesHeld, Refine
<1> QED  BY <1>6, <1>7 DEF Refine, NoReport, HeldInv, Held, Good, InSolver

(* The solver is left, with a solution or without.                           *)
LEMMA SolverLeftHeld ==
    ASSUME HeldInv, IInv, Finest \/ SolverCancelled
    PROVE  HeldInv'
<1> DEFINE gone == SolverHandles \cup LatticeHandles
           out  == Locals({"compress_I"})
<1>1. Good(heap) /\ Held(heap) = Drawn \cup LatticesHeld \cup SolverHandles
  BY NoThreadsHeld DEF HeldInv, InSolver, Finest, SolverCancelled
<1>2. /\ gone \in SUBSET Handles /\ gone \cap CompressHandles = {} /\ LatticesHeld \cup SolverHandles \subseteq gone
      /\ out = {V("compress_I")} /\ out \in SUBSET Handles /\ out \cap Held(heap) = {}
      /\ Drawn \cup out = CompressHandles
  <2>1. out = {V("compress_I")}
    BY DEF Locals, V
  <2> QED  BY <1>1, <2>1, HandleSets
<1>3. CASE Finest
  <2> DEFINE from == [v \in out |-> V("lattice_I")]
  <2>1. heap' = Destroy(Copy(heap, from), gone)
    BY <1>3 DEF Finest
  <2>2. from \in [out -> Held(heap)]
    BY <1>1 DEF LatticesHeld, Locals, V
  <2> HIDE DEF from, gone, out
  <2>3. Good(Copy(heap, from)) /\ Held(Copy(heap, from)) = Held(heap) \cup out
    BY <1>1, <1>2, <2>2, CopyGood
  <2>4. Good(heap') /\ Held(heap') = (Held(heap) \cup out) \ gone
    BY <1>2, <2>1, <2>3, DestroyGood
  <2>5. Held(heap') = CompressHandles
    BY <1>1, <1>2, <2>4
  <2> QED  BY <1>3, <2>4, <2>5 DEF Finest, Report, HeldInv, Held, Good, InSolver
<1>4. CASE SolverCancelled
  <2>1. heap' = Declare(Destroy(heap, gone), {"compress_I"}, NoDim) /\ NoDim \in Dims
    BY <1>4 DEF SolverCancelled, NoDim, Dims
  <2> HIDE DEF gone
  <2>2. Good(Destroy(heap, gone)) /\ Held(Destroy(heap, gone)) = Drawn
    <3>1. Drawn \cap gone = {}
      BY <1>2
    <3>2. Good(Destroy(heap, gone)) /\ Held(Destroy(heap, gone)) = Held(heap) \ gone
      BY <1>1, <1>2, DestroyGood
    <3> QED  BY <1>1, <1>2, <3>1, <3>2
  <2>3. Good(heap') /\ Held(heap') = Drawn \cup out
    BY <1>1, <1>2, <2>1, <2>2, DeclareGood
  <2> QED  BY <1>2, <1>4, <2>3 DEF SolverCancelled, NoReport, HeldInv, Held, Good, InSolver
<1> QED  BY <1>3, <1>4

(* Compress ends, and everything it declared.                                *)
LEMMA EndHeld ==
    ASSUME HeldInv, Draw \/ Cancelled
    PROVE  HeldInv'
<1>1. Good(heap) /\ Held(heap) \subseteq CompressHandles
  BY HandleSets DEF HeldInv, Draw, Cancelled
<1>2. heap' = Destroy(heap, CompressHandles) /\ pc' = "returned"
  BY DEF Draw, Cancelled, NoReport
<1>3. Good(heap') /\ Held(heap') = {}
  BY <1>1, <1>2, HandleSets, DestroyGood
<1> QED  BY <1>2, <1>3 DEF HeldInv, Held, Good, InSolver

LEMMA StepHeld == HeldInv /\ SizeInv /\ IInv /\ [Next]_vars => HeldInv'
<1> SUFFICES ASSUME HeldInv, SizeInv, IInv, [Next]_vars PROVE HeldInv'
  OBVIOUS
<1>1. CASE UNCHANGED vars
  BY <1>1 DEF vars, mainVars, HeldInv, Held, Good, InSolver, LatticesHeld, ThreadsHeld, Exists
<1>2. CASE Compress
  <2>1. CASE Judge
    BY <2>1 DEF Judge, Report, HeldInv, Held, Good, InSolver, LatticesHeld, ThreadsHeld, Exists
  <2> QED  BY <1>2, <2>1, CompressHeld, LatticesGood, SolveHeld, CreateHeld, JoinHeld, RefineHeld,
              SolverLeftHeld, EndHeld DEF Compress
<1>3. ASSUME NEW t \in Threads, Run(t)
      PROVE  HeldInv'
  <2>1. UNCHANGED <<pc, heap, size>> /\ \A s \in Threads : Exists(s)' <=> Exists(s)
    BY <1>3 DEF Run, Forward, Backward, NextColumn, End, KeepMain, mainVars, Exists, IInv, StateInv
  <2>2. ThreadsHeld' = ThreadsHeld /\ LatticesHeld' = LatticesHeld
    BY <2>1 DEF ThreadsHeld, LatticesHeld
  <2> QED  BY <2>1, <2>2 DEF HeldInv, Held, Good, InSolver
<1> QED  BY <1>1, <1>2, <1>3 DEF Next, Over

-----------------------------------------------------------------------------
(* Sizes, and answers.                                                       *)

(* What an operation does to the size a variable has.                        *)
LEMMA ConstructDim ==
    ASSUME NEW h, NEW dims, NEW v \in Handles
    PROVE  Construct(h, dims).dim[v] = IF v \in DOMAIN dims THEN dims[v] ELSE h.dim[v]
BY HoldDim DEF Construct

LEMMA DeclareDim ==
    ASSUME NEW h, NEW names, NEW dim, NEW v \in Handles
    PROVE  Declare(h, names, dim).dim[v] = IF v \in Locals(names) THEN dim ELSE h.dim[v]
BY ConstructDim DEF Declare

LEMMA CopyDim ==
    ASSUME NEW h, NEW from, NEW v \in Handles
    PROVE  Copy(h, from).dim[v] = IF v \in DOMAIN from THEN h.dim[from[v]] ELSE h.dim[v]
BY HoldDim DEF Copy

LEMMA DestroyDim ==
    ASSUME NEW h, NEW vs, NEW v \in Handles
    PROVE  Destroy(h, vs).dim[v] = IF v \in vs THEN NoDim ELSE h.dim[v]
BY DEF Destroy

LEMMA FinestSize ==
    ASSUME NEW s \in Sizes
    PROVE  LatticeSize(s, 0) = s /\ s # NoDim
<1>1. s \in [w : Nat \ {0}, h : Nat \ {0}]
  BY CompressorAssumption
<1>2. s.w \div 1 = s.w /\ s.h \div 1 = s.h
  BY <1>1
<1>3. LatticeSize(s, 0) = [w |-> s.w, h |-> s.h]
  BY <1>2 DEF LatticeSize
<1>4. s.w # 0
  BY <1>1
<1> QED  BY <1>1, <1>3, <1>4 DEF NoDim

(* The names of the variables whose sizes matter.                            *)
LEMMA SizedHandles ==
    /\ V("div_G") \in Handles /\ V("lattice_I") \in Handles /\ V("compress_I") \in Handles
    /\ \A k \in 0 .. 2 : <<"Rho", k>> \in Handles
    /\ \A t \in Threads : /\ V("lattice_I") \notin ThreadHandles(t)
                          /\ \A k \in 0 .. 2 : <<"Rho", k>> \notin ThreadHandles(t)
    /\ \A k \in 0 .. 2 : <<"Rho", k>> \notin SolverHandles
    /\ V("lattice_I") \notin SolverHandles
BY HandlesAssumption
   DEF V, AllHandles, CompressHandles, LatticeHandles, SolverHandles, RhoHandles, Locals, ThreadHandles

LEMMA LatticesSize ==
    ASSUME SizeInv, IInv, Lattices
    PROVE  SizeInv'
<1> DEFINE from == [v \in {V("lattice_rho"), <<"Rho", 0>>} |-> V("div_G")]
           rho  == Copy(heap, from)
           new  == {V("lattice_I")} \cup {<<"Rho", k>> : k \in 1 .. Divides(size)}
           dims == [v \in new |-> LatticeSize(size, IF v[1] = "Rho" THEN v[2] ELSE Divides(size))]
<1>1. /\ heap' = Construct(rho, dims) /\ heap.dim[V("div_G")] = size
      /\ size \in Sizes /\ size' = size /\ level' = Divides(size) /\ Divides(size) \in 0 .. 2
  BY DivideBounds DEF Lattices, SizeInv, IInv, StateInv
<1>2. heap'.dim[V("lattice_I")] = LatticeSize(size, Divides(size))
  <2>1. V("lattice_I") \in DOMAIN dims /\ dims[V("lattice_I")] = LatticeSize(size, Divides(size))
    BY DEF V
  <2> HIDE DEF rho, dims
  <2> QED  BY <1>1, <2>1, ConstructDim, SizedHandles
<1>3. ASSUME NEW k \in 0 .. Divides(size)
      PROVE  heap'.dim[<<"Rho", k>>] = LatticeSize(size, k)
  <2>1. CASE k = 0
    <3>1. <<"Rho", 0>> \notin DOMAIN dims
      BY <1>1 DEF V
    <3>2. rho.dim[<<"Rho", 0>>] = size
      <4>1. <<"Rho", 0>> \in DOMAIN from /\ from[<<"Rho", 0>>] = V("div_G")
        OBVIOUS
      <4>2. <<"Rho", 0>> \in Handles
        BY SizedHandles
      <4> HIDE DEF from
      <4> QED  BY <1>1, <4>1, <4>2, CopyDim
    <3> HIDE DEF rho, dims
    <3>3. heap'.dim[<<"Rho", 0>>] = size
      BY <1>1, <3>1, <3>2, ConstructDim, SizedHandles
    <3> QED  BY <1>1, <2>1, <3>3, FinestSize
  <2>2. CASE k # 0
    <3>1. k \in 1 .. Divides(size) /\ k \in 0 .. 2
      BY <1>1, <2>2
    <3>2. <<"Rho", k>> \in DOMAIN dims /\ dims[<<"Rho", k>>] = LatticeSize(size, k)
      BY <3>1
    <3> HIDE DEF rho, dims
    <3> QED  BY <1>1, <3>1, <3>2, ConstructDim, SizedHandles
  <2> QED  BY <2>1, <2>2
<1> HIDE DEF dims, rho
<1> QED  BY <1>1, <1>2, <1>3 DEF SizeInv, Lattices, NoReport, InSolver

LEMMA RefineSize ==
    ASSUME SizeInv, IInv, Refine
    PROVE  SizeInv'
<1> DEFINE left == Destroy(heap, SolverHandles)
           q22  == Declare(left, {"Q22"}, LatticeSize(size, level - 1))
           g    == Destroy(q22, {V("lattice_I")})
           from == [x \in {V("lattice_I")} |-> V("Q22")]
<1>1. /\ level \in 0 .. 2 /\ Divides(size) \in 0 .. 2 /\ size' = size
      /\ level' = level - 1 /\ level <= Divides(size) /\ level > 0
      /\ \A k \in 0 .. Divides(size) : heap.dim[<<"Rho", k>>] = LatticeSize(size, k)
  BY DivideBounds DEF Refine, SizeInv, InSolver, IInv, StateInv
<1>2. V("Q22") \in Handles /\ V("lattice_I") # V("Q22") /\ \A k : <<"Rho", k>> \notin {V("Q22"), V("lattice_I")}
  BY HandlesAssumption DEF V, AllHandles, LatticeHandles, Locals
<1>3. Locals({"Q22"}) = {V("Q22")}
  BY DEF Locals, V
<1>4. heap' = Destroy(Copy(g, from), {V("Q22")})
  BY <1>2 DEF Refine, Assign
<1>5. heap'.dim[V("lattice_I")] = LatticeSize(size, level - 1)
  <2>1. q22.dim[V("Q22")] = LatticeSize(size, level - 1)
    <3> HIDE DEF left
    <3>1. V("Q22") \in Handles /\ V("Q22") \in Locals({"Q22"})
      BY <1>2, <1>3
    <3> QED  BY <3>1, DeclareDim
  <2> HIDE DEF q22
  <2>2. g.dim[V("Q22")] = LatticeSize(size, level - 1)
    BY <1>2, <2>1, DestroyDim
  <2> HIDE DEF g
  <2>3. Copy(g, from).dim[V("lattice_I")] = LatticeSize(size, level - 1)
    BY <1>2, <2>2, CopyDim, SizedHandles
  <2> QED  BY <1>2, <1>4, <2>3, DestroyDim, SizedHandles
<1>6. ASSUME NEW k \in 0 .. Divides(size)
      PROVE  heap'.dim[<<"Rho", k>>] = LatticeSize(size, k)
  <2>1. <<"Rho", k>> \in Handles /\ <<"Rho", k>> \notin SolverHandles
    BY <1>1, SizedHandles
  <2>2. left.dim[<<"Rho", k>>] = LatticeSize(size, k)
    BY <1>1, <2>1, DestroyDim
  <2> HIDE DEF left
  <2>3. q22.dim[<<"Rho", k>>] = LatticeSize(size, k)
    BY <1>2, <1>3, <2>1, <2>2, DeclareDim
  <2> HIDE DEF q22
  <2>4. g.dim[<<"Rho", k>>] = LatticeSize(size, k)
    BY <1>2, <2>1, <2>3, DestroyDim
  <2> HIDE DEF g
  <2>5. Copy(g, from).dim[<<"Rho", k>>] = LatticeSize(size, k)
    BY <1>2, <2>1, <2>4, CopyDim
  <2> QED  BY <1>2, <1>4, <2>1, <2>5, DestroyDim
<1> HIDE DEF left, q22, g, from
<1>7. pc' = "solve" /\ level' <= Divides(size)
  BY <1>1 DEF Refine, NoReport
<1> QED  BY <1>1, <1>5, <1>6, <1>7 DEF SizeInv

LEMMA StepSize == SizeInv /\ IInv /\ [Next]_vars => SizeInv'
<1> SUFFICES ASSUME SizeInv, IInv, [Next]_vars PROVE SizeInv'
  OBVIOUS
<1>0. Divides(size) \in 0 .. 2 /\ q \in Threads
  BY DivideBounds DEF IInv, StateInv
(* It is enough that the sizes that matter stay.                             *)
<1>1. ASSUME size' = size, level' = level, pc = "solve" \/ InSolver, pc' # "div_G",
             heap'.dim[V("lattice_I")] = heap.dim[V("lattice_I")],
             \A k \in 0 .. 2 : heap'.dim[<<"Rho", k>>] = heap.dim[<<"Rho", k>>]
      PROVE  SizeInv'
  <2>1. \A k \in 0 .. Divides(size) : k \in 0 .. 2
    BY <1>0
  <2> QED  BY <1>1, <2>1 DEF SizeInv
<1>2. CASE UNCHANGED vars
  BY <1>2 DEF vars, mainVars, SizeInv, InSolver
<1>3. CASE Luminosity \/ Gradient
  BY <1>3 DEF Luminosity, Gradient, Report, SizeInv, InSolver
<1>4. CASE Attenuation
  <2>1. V("div_G") \in Locals({"Phi", "div_G"})
    BY DEF V, Locals
  <2>2. heap'.dim[V("div_G")] = size
    <3>1. heap' = Declare(heap, {"Phi", "div_G"}, size)
      BY <1>4 DEF Attenuation
    <3> QED  BY <2>1, <3>1, DeclareDim, SizedHandles
  <2> QED  BY <1>4, <2>2 DEF Attenuation, NoReport, SizeInv, InSolver
<1>5. CASE Divergence
  BY <1>5 DEF Divergence, Report, SizeInv, InSolver
<1>6. CASE Solve
  <2> DEFINE from == [v \in Locals({"I0", "rho"}) |-> IF v[1] = "rho" THEN <<"Rho", level>> ELSE V("lattice_I")]
             wider == [w |-> heap.dim[<<"Rho", level>>].w + 2, h |-> heap.dim[<<"Rho", level>>].h + 2]
  <2>1. heap' = Declare(Copy(heap, from), {"I", "Inew"}, wider)
    BY <1>6 DEF Solve
  <2> HIDE DEF wider
  <2>2. ASSUME NEW v \in Handles, v \notin SolverHandles
        PROVE  heap'.dim[v] = heap.dim[v]
    <3>1. v \notin DOMAIN from /\ v \notin Locals({"I", "Inew"})
      BY <2>2 DEF SolverHandles, Locals
    <3> HIDE DEF from
    <3> QED  BY <2>1, <2>2, <3>1, DeclareDim, CopyDim
  <2> QED  BY <1>1, <1>6, <2>2, SizedHandles DEF Solve, NoReport
<1>7. CASE Create
  <2> DEFINE from == [v \in ThreadHandles(q) |-> IF v[1] = "thread_rho" THEN V("rho") ELSE V("Inew")]
  <2>1. heap' = Copy(heap, from) /\ DOMAIN from = ThreadHandles(q)
    BY <1>7 DEF Create
  <2> HIDE DEF from
  <2>2. \A v \in Handles : v \notin ThreadHandles(q) => heap'.dim[v] = heap.dim[v]
    BY <2>1, CopyDim
  <2> QED  BY <1>0, <1>1, <1>7, <2>2, SizedHandles DEF Create, NoReport, InSolver
<1>8. CASE Join
  <2>2. \A v \in Handles : v \notin ThreadHandles(q) => heap'.dim[v] = heap.dim[v]
    BY <1>8, DestroyDim DEF Join
  <2> QED  BY <1>0, <1>1, <1>8, <2>2, SizedHandles DEF Join, NoReport, InSolver
<1>9. CASE Judge
  BY <1>1, <1>9 DEF Judge, Report, InSolver
<1>10. CASE Finest \/ SolverCancelled \/ Draw \/ Cancelled
  BY <1>10 DEF Finest, SolverCancelled, Draw, Cancelled, Report, NoReport, SizeInv, InSolver
<1>11. ASSUME NEW t \in Threads, Run(t)
       PROVE  SizeInv'
  BY <1>11 DEF Run, Forward, Backward, NextColumn, End, KeepMain, mainVars, SizeInv, InSolver
<1> QED  BY <1>2, <1>3, <1>4, <1>5, <1>6, <1>7, <1>8, <1>9, <1>10, <1>11, LatticesSize, RefineSize
         DEF Next, Compress, Over

LEMMA StepAnswer == AnswerInv /\ SizeInv /\ IInv /\ [Next]_vars => AnswerInv'
<1> SUFFICES ASSUME AnswerInv, SizeInv, IInv, [Next]_vars PROVE AnswerInv'
  OBVIOUS
<1> USE DEF AnswerInv, CancelLeavesBitmap, Report, NoReport
<1>1. CASE UNCHANGED vars
  BY <1>1 DEF vars, mainVars
<1>2. CASE Luminosity \/ Gradient \/ Divergence
  <2>1. UNCHANGED result /\ ~refused /\ result = [returned |-> "nothing", bitmap |-> "original"]
    BY <1>2 DEF Luminosity, Gradient, Divergence
  <2>2. \E ok \in BOOLEAN : /\ refused' = ~ok
                           /\ IF ok THEN pc' \in {"gradient", "phi", "div_G"} ELSE pc' = "cancelled"
    BY <1>2, <2>1 DEF Luminosity, Gradient, Divergence
  <2>3. CASE refused' = TRUE /\ pc' = "cancelled"
    BY <2>1, <2>3
  <2>4. CASE refused' = FALSE /\ pc' \in {"gradient", "phi", "div_G"}
    BY <2>1, <2>4
  <2> QED  BY <2>2, <2>3, <2>4
<1>10. CASE Attenuation
  BY <1>10 DEF Attenuation
<1>3. CASE Lattices \/ Solve \/ Create \/ Join \/ Judge \/ Refine
  <2>1. UNCHANGED result /\ ~refused /\ result = [returned |-> "nothing", bitmap |-> "original"]
    BY <1>3 DEF Lattices, Solve, Create, Join, Judge, Refine
  <2>2. CASE Judge
    <3>1. \E ok \in BOOLEAN : /\ refused' = ~ok
                             /\ IF ok THEN pc' \in {"solved", "create"} ELSE pc' = "solver_cancelled"
      BY <2>1, <2>2 DEF Judge
    <3>2. CASE refused' = TRUE /\ pc' = "solver_cancelled"
      BY <2>1, <3>2
    <3>3. CASE refused' = FALSE /\ pc' \in {"solved", "create"}
      BY <2>1, <3>3
    <3> QED  BY <3>1, <3>2, <3>3
  <2>3. CASE ~Judge
    <3>1. UNCHANGED refused /\ pc' \in {"solve", "create", "join", "judge"}
      BY <1>3, <2>3 DEF Lattices, Solve, Create, Join, Refine
    <3> QED  BY <2>1, <3>1
  <2> QED  BY <2>2, <2>3
<1>4. V("compress_I") \in Handles /\ V("compress_I") \in Locals({"compress_I"})
      /\ V("compress_I") \notin SolverHandles \cup LatticeHandles
  BY SizedHandles DEF V, Locals, SolverHandles, LatticeHandles, RhoHandles
<1>5. CASE Finest
  <2> DEFINE from == [v \in Locals({"compress_I"}) |-> V("lattice_I")]
  <2>1. heap' = Destroy(Copy(heap, from), SolverHandles \cup LatticeHandles)
    BY <1>5 DEF Finest
  <2>2. size \in Sizes /\ heap.dim[V("lattice_I")] = size
    BY <1>5, FinestSize DEF Finest, SizeInv, InSolver, IInv, StateInv
  <2>3. Copy(heap, from).dim[V("compress_I")] = size
    BY <1>4, <2>2, CopyDim
  <2> HIDE DEF from
  <2>4. heap'.dim[V("compress_I")] = size
    BY <1>4, <2>1, <2>3, DestroyDim
  <2> QED  BY <1>5, <2>4 DEF Finest
<1>6. CASE SolverCancelled
  <2>1. heap'.dim[V("compress_I")] = NoDim
    <3>1. heap' = Declare(Destroy(heap, SolverHandles \cup LatticeHandles), {"compress_I"}, NoDim)
      BY <1>6 DEF SolverCancelled
    <3> QED  BY <1>4, <3>1, DeclareDim
  <2> QED  BY <1>6, <2>1 DEF SolverCancelled
<1>7. CASE Draw
  BY <1>7 DEF Draw, KeepSolver
<1>8. CASE Cancelled
  <2>1. size # NoDim
    BY FinestSize DEF IInv, StateInv
  <2> QED  BY <1>8, <2>1 DEF Cancelled, KeepSolver
<1>9. ASSUME NEW t \in Threads, Run(t)
      PROVE  AnswerInv'
  BY <1>9 DEF Run, Forward, Backward, NextColumn, End, KeepMain, mainVars
<1> QED  BY <1>1, <1>2, <1>3, <1>5, <1>6, <1>7, <1>8, <1>9, <1>10 DEF Next, Compress, Over

HeapInvariant == HeldInv /\ SizeInv /\ AnswerInv

LEMMA InitHeap == Init => HeapInvariant
<1> SUFFICES ASSUME Init PROVE HeapInvariant
  OBVIOUS
<1>1. heap \in Heaps /\ Held(heap) = {}
  BY DEF Init, EmptyHeap, Heaps, Dims, NoDim, Held
<1>2. Counted(heap)
  <2>1. \A b \in Blocks : Holders(heap, b) = {}
    BY Arr2Assumption DEF Init, EmptyHeap, Holders
  <2> QED  BY <2>1, FS_EmptySet DEF Init, EmptyHeap, Counted
<1> QED  BY <1>1, <1>2 DEF Init, HeapInvariant, HeldInv, SizeInv, AnswerInv, CancelLeavesBitmap, Good, InSolver

(* The arrays' invariant is inductive together with that of the columns.     *)
THEOREM HeapInvariance == Spec => []HeapInvariant
<1>1. HeapInvariant /\ IInv /\ [Next]_vars => HeapInvariant'
  BY StepHeld, StepSize, StepAnswer DEF HeapInvariant
<1> QED  BY <1>1, InitHeap, Invariance, PTL DEF Spec

(* No array of the compressor is freed while a thread uses it, none is       *)
(* counted wrongly, and none is left when process returns, in whatever order *)
(* the threads run and wherever the listener refuses.                        *)
THEOREM ArraysSafe == Spec => []ArraysAreSafe
<1>1. HeapInvariant /\ IInv => ArraysAreSafe
  <2> SUFFICES ASSUME HeapInvariant, IInv PROVE ArraysAreSafe
    OBVIOUS
  <2>1. Good(heap)
    BY DEF HeapInvariant, HeldInv
  <2>2. ASSUME NEW t \in Threads, Running(t)
        PROVE  /\ pc \in {"create", "join"}
               /\ \A v \in ThreadHandles(t) \cup {V("I")} : heap.holds[v] # None
    <3>1. Exists(t)
      BY <2>2 DEF Running, Exists
    <3>2. pc \in {"create", "join"}
      BY <3>1 DEF IInv, PhaseInv
    <3>3. ThreadHandles(t) \subseteq ThreadsHeld /\ V("I") \in SolverHandles
      BY <3>1 DEF ThreadsHeld, SolverHandles, Locals, V
    <3> QED  BY <3>2, <3>3 DEF HeapInvariant, HeldInv, InSolver, Held
  <2>3. ASSUME Returned
        PROVE  Unused(heap) = Blocks
    <3> SUFFICES ASSUME NEW b \in Blocks
                 PROVE  heap.counter[b] = 0
      BY DEF Unused
    <3>1. Held(heap) = {}
      BY <2>3 DEF HeapInvariant, HeldInv, Returned
    <3>2. Holders(heap, b) = {}
      BY <3>1, Arr2Assumption DEF Holders, Held
    <3> QED  BY <2>1, <3>2, FS_EmptySet DEF Good, Counted
  <2> QED  BY <2>1, <2>2, <2>3 DEF ArraysAreSafe, Good
<1> QED  BY <1>1, HeapInvariance, Invariance, PTL

(* The first solution that a lattice starts from has the size of its right   *)
(* side, for every size of picture and however often it is halved.           *)
THEOREM SolutionFits == Spec => []SolutionFitsLattice
<1>1. HeapInvariant /\ IInv => SolutionFitsLattice
  <2> SUFFICES ASSUME HeapInvariant, IInv, pc = "solve"
               PROVE  heap.dim[V("lattice_I")] = heap.dim[<<"Rho", level>>]
    BY DEF SolutionFitsLattice
  <2>1. level \in 0 .. Divides(size)
    BY DivideBounds DEF HeapInvariant, SizeInv, IInv, StateInv
  <2> QED  BY <2>1 DEF HeapInvariant, SizeInv
<1> QED  BY <1>1, HeapInvariance, Invariance, PTL

(* A refused compression returns false and leaves the bitmap as it was.      *)
THEOREM CancelLeaves == Spec => []CancelLeavesBitmap
<1>1. HeapInvariant => CancelLeavesBitmap
  BY DEF HeapInvariant, AnswerInv
<1> QED  BY <1>1, HeapInvariance, PTL
=============================================================================
