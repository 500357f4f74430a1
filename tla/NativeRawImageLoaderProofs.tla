--------------------- MODULE NativeRawImageLoaderProofs ---------------------
(* Proofs about the native methods and the LibRaw calls they make: for every *)
(* file, every listener and every allocation that fails, nothing is freed    *)
(* twice or left behind, Java gets a bitmap or an exception, a refusal is    *)
(* final, and the picture keeps the size and the memory its stages need.     *)
EXTENDS NativeRawImageLoader, FiniteSetTheorems, FunctionTheorems, TLAPS

-----------------------------------------------------------------------------
(* The inductive invariant.                                                  *)

\* A call gave up, and the native method has not noticed; or it has, and goes
\* to its end.
Failed == call \in {"idle", "open_fails"} /\ ret # "SUCCESS"

\* The last call succeeded, and the native method is about to make the next.
After(place) == pc = place /\ call = "idle" /\ ret = "SUCCESS"

\* The Windows build could not open the file, and what it returns is unset.
Unopened == build = "win32" /\ ~file.readable /\ method = "precise"

OpenCalls == {"open", "identify", "adopt", "open_fails"}
UnpackCalls == {"unpack", "load_raw", "unpacked"}
ReducedCalls == {"remove_zeroes", "scale_colors", "pre_interpolate"}
WholeCalls == {"vng", "ppg", "ahd", "ahd_rows", "mix_green", "fuji_rotate"}
ReadyCalls == {"convert_to_rgb", "stretch"}
ProcessCalls == {"process"} \cup ReducedCalls \cup WholeCalls \cup ReadyCalls

Raws == [flags : SUBSET (OPEN..THUMB_LOAD), inputInternal : BOOLEAN,
         size : [w : Nat, h : Nat, iw : Nat, ih : Nat], shrink : BOOLEAN, fuji : Nat, area : Nat,
         mixGreen : BOOLEAN, colors : 0..4, filters : BOOLEAN, half : BOOLEAN,
         threshold : BOOLEAN, listening : BOOLEAN, terminate : BOOLEAN, tiles : 0..MaxTiles,
         made : [w : Nat, h : Nat, colors : 0..4, copied : BOOLEAN]]

\* A call of the processor is made only by the method, and where, it belongs to.
PhaseInv ==
    /\ file \in Files /\ raw \in Raws
    /\ method \in {"precise", "description"}
    /\ call \in Stages
    /\ pc \in {"start", "opened", "unpacked", "processed", "thumb_unpacked", "made", "end",
              "returned", "crashed", "exited"}
    /\ call \in OpenCalls => pc = "opened"
    /\ call \in UnpackCalls => pc = "unpacked"
    /\ call \in ProcessCalls => pc = "processed"
    /\ call = "mem_image" => pc = "made" /\ method = "precise"
    /\ call = "unpack_thumb" => pc = "thumb_unpacked"
    /\ call = "mem_thumb" => pc = "made" /\ method = "description"
    /\ pc \in {"unpacked", "processed"} => method = "precise"
    /\ pc = "thumb_unpacked" => method = "description"

\* What the answers of the calls say of each other, of the bitmap and of the
\* exception.
ResultInv ==
    /\ refused \in BOOLEAN
    /\ pending \in {"none", "java", "LibRawException", "NoSuchMethodError"}
    /\ call \notin {"idle", "open_fails"} \/ pc = "start" => ret = "SUCCESS"
    /\ call = "open_fails" => ret # "SUCCESS"
    /\ handed # Nothing => pc \in {"end", "returned"} /\ ret = "SUCCESS"
    /\ pc \in {"end", "returned"} /\ handed = Nothing => ret # "SUCCESS" \/ Unopened
    /\ refused => \/ Failed /\ ret = "CANCELLED_BY_CALLBACK"
                  \/ call = "ahd_rows" /\ raw.terminate
    /\ pc # "returned" /\ pending # "none" => pending = "java" /\ refused
    /\ pc = "returned" => (pending # "none" <=> ret # "SUCCESS")

\* No stage has reported more than the number the next one reports.
ToldInv ==
    /\ told \in OPEN..THUMB_LOAD
    /\ call \in {"open", "identify"} \/ pc = "start" => told <= IDENTIFY
    /\ call \in {"adopt"} \cup UnpackCalls \/ After("opened") => told <= LOAD_RAW
    /\ call \in {"process", "remove_zeroes"} \/ After("unpacked") => told <= REMOVE_ZEROES
    /\ call = "scale_colors" => told <= SCALE_COLORS
    /\ call = "pre_interpolate" => told <= PRE_INTERPOLATE
    /\ call \in {"vng", "ppg", "ahd", "ahd_rows"} => told <= INTERPOLATE
    /\ call \in {"mix_green", "fuji_rotate"} => told <= FUJI_ROTATE
    /\ call = "convert_to_rgb" => told <= CONVERT_RGB
    /\ call = "stretch" => told <= STRETCH

ControlInv == PhaseInv /\ ResultInv /\ ToldInv

-----------------------------------------------------------------------------
\* The pointers to blocks of the memory manager.
Managed == Recycled \cup {"work1", "work2", "img"}

\* The pointers to blocks that their holder frees itself: once the processor
\* has adopted the stream, its input is one.
OwnAlways == {"stream", "buffer", "memimage"} \cup LoaderPointers

Own(r) == IF r.inputInternal THEN OwnAlways \cup {"input"} ELSE OwnAlways

Named(h, ps) == {h.at[p] : p \in ps} \ {NULL}

\* Every block that lives is in the manager's table or is held by one owner,
\* and no pointer of either kind dangles.
Accounted(h, own) ==
    /\ h \in Heaps /\ h.next > 0 /\ IsFiniteSet(h.mems)
    /\ \A b \in h.live : 0 < b /\ b < h.next
    /\ h.live = h.mems \cup Named(h, own)
    /\ h.mems \cap Named(h, own) = {}
    /\ \A p \in Managed : h.at[p] \in h.mems \cup {NULL}
    /\ \A p, q \in own : h.at[p] = h.at[q] /\ h.at[p] # NULL => p = q
    /\ \A p, q \in Managed : h.at[p] = h.at[q] /\ h.at[p] # NULL =>
           p = q \/ {p, q} = {"image", "raw_alloc"}

\* image points into raw_alloc.
Aliased(h) == h.at["image"] = h.at["raw_alloc"] /\ h.at["image"] # NULL

BlocksInv ==
    /\ Accounted(heap, Own(raw))
    /\ heap.twice => file.decoder = CanonSraw /\ Failed
    /\ Aliased(heap) => file.decoder = CanonSraw /\ (Failed \/ call \in {"load_raw", "unpacked"})

\* Which pointers hold nothing, where.
PointersInv ==
    /\ \A p \in {"work1", "work2", "img"} : heap.at[p] # NULL => p = "work1" /\ call = "ahd_rows"
    /\ heap.at["stream"] # NULL => call \in {"identify", "adopt", "open_fails"}
    /\ call \in {"identify", "adopt"} => heap.at["input"] = heap.at["stream"]
    /\ call \in OpenCalls \/ pc = "start" => ~raw.inputInternal
    /\ heap.at["buffer"] # NULL => ~file.intact /\ Failed
    /\ heap.at["memimage"] # NULL =>
           pc \in {"made", "end", "crashed", "exited"} /\ call = "idle" /\ ret = "SUCCESS"
    /\ After("made") => heap.at["memimage"] # NULL
    /\ \A p \in {"r", "g", "b"} : heap.at[p] # NULL <=> handed # Nothing
    /\ pc = "start" => heap = EmptyHeap
    /\ pc \in {"start", "end", "returned"} \/ heap.at["processor"] # NULL
    /\ heap.at["processor"] = NULL => heap.mems = {} /\ ~raw.inputInternal
    /\ pc = "returned" => \A p \in {"fb", "name", "oc", "memimage", "processor"} : heap.at[p] = NULL

\* The blocks that the stages have asked the memory manager for.
TableInv ==
    LET AtMost(n) == Cardinality(heap.mems) <= n
    IN  /\ call \in {"open", "identify"} => AtMost(0)
        /\ call \in {"adopt", "unpack", "unpack_thumb"} \/ After("opened") => AtMost(1)
        /\ call = "load_raw" => AtMost(3)
        /\ call \in {"unpacked", "process"} \/ After("unpacked") => AtMost(5)
        /\ call \in ReducedCalls => AtMost(6)
        /\ call \in {"vng", "ppg", "ahd"} => AtMost(7)
        /\ call \in {"ahd_rows", "mix_green", "fuji_rotate"} => AtMost(8)
        /\ call = "convert_to_rgb" => AtMost(9)
        /\ call = "stretch" => AtMost(11)

HeapInv == BlocksInv /\ PointersInv /\ TableInv

-----------------------------------------------------------------------------
\* A side of the picture once it is halved, if it is.
Side(n) == IF file.filters /\ raw.half THEN Half(n) ELSE n

ColoursLeft == IF file.colors = 4 THEN 3 ELSE file.colors

\* From identify to pre_interpolate, as the file says.
FoundInv ==
    \/ call \in {"adopt", "process"} \cup UnpackCalls \cup ReducedCalls
    \/ After("opened") \/ After("unpacked")
    =>  /\ raw.size.w = file.w /\ raw.size.h = file.h
        /\ raw.colors = file.colors /\ raw.filters = file.filters /\ raw.fuji = file.fuji

ReducedInv ==
    call \in ReducedCalls =>
        /\ raw.shrink <=> Shrinks(raw)
        /\ raw.size.iw = InnerSize(raw).iw /\ raw.size.ih = InnerSize(raw).ih
        /\ raw.area = raw.size.iw * raw.size.ih

WholeInv ==
    call \in WholeCalls =>
        /\ raw.size.w = Side(file.w) /\ raw.size.h = Side(file.h) /\ raw.area = Area(raw.size)
        /\ raw.fuji = file.fuji /\ (raw.shrink <=> file.filters /\ raw.half)
        /\ raw.mixGreen => file.colors = 3
        /\ raw.colors = IF raw.mixGreen /\ call # "fuji_rotate" THEN 4 ELSE file.colors

ReadyInv ==
    /\ call \in ReadyCalls \cup {"mem_image"} \/ After("processed") =>
           raw.size.h > 0 /\ raw.area = Area(raw.size)
    /\ call = "convert_to_rgb" => raw.colors = file.colors
    /\ call \in {"stretch", "mem_image"} \/ After("processed") => raw.colors = ColoursLeft
    /\ call \in ReadyCalls /\ file.fuji = 0 =>
           raw.size.w = Side(file.w) /\ raw.size.h = Side(file.h)
    /\ (call = "mem_image" \/ After("processed")) /\ file.fuji = 0 =>
           raw.size.w = Side(file.w) * file.aspect.w /\ raw.size.h = Side(file.h) * file.aspect.h
    /\ call \in WholeCalls \cup ReadyCalls \cup {"mem_image"} \/ After("processed") =>
           PRE_INTERPOLATE \in raw.flags

MadeInv ==
    /\ After("made") /\ method = "precise" =>
           /\ raw.made.copied /\ raw.made.colors = ColoursLeft
           /\ raw.made.w > 0 \/ raw.made.h > 0
           /\ file.fuji = 0 =>
                  {raw.made.w, raw.made.h} =
                      {Side(file.w) * file.aspect.w, Side(file.h) * file.aspect.h}
    /\ PictureIsWhole

PictureInv == FoundInv /\ ReducedInv /\ WholeInv /\ ReadyInv /\ MadeInv

IInv == ControlInv /\ HeapInv /\ PictureInv
-----------------------------------------------------------------------------
(* The heap.                                                                 *)

LEMMA PointerNames ==
    /\ Managed \subseteq Pointers /\ OwnAlways \subseteq Pointers /\ "input" \in Pointers
    /\ Managed \cap OwnAlways = {} /\ "input" \notin Managed /\ "input" \notin OwnAlways
BY LibRawAssumption, LoaderAssumption DEF Managed, OwnAlways, Recycled, LibRawPointers, LoaderPointers

Distinct(ps) == \A i, j \in 1 .. Len(ps) : ps[i] = ps[j] => i = j

LEMMA OneName ==
    ASSUME NEW p \in Pointers
    PROVE  <<p>> \in Seq(Pointers) /\ Distinct(<<p>>) /\ Len(<<p>>) = 1 /\ ToSet(<<p>>) = {p}
BY DEF Distinct, ToSet

LEMMA TwoNames ==
    ASSUME NEW p \in Pointers, NEW q \in Pointers, p # q
    PROVE  /\ <<p, q>> \in Seq(Pointers) /\ Distinct(<<p, q>>) /\ Len(<<p, q>>) = 2
           /\ ToSet(<<p, q>>) = {p, q}
BY DEF Distinct, ToSet

LEMMA ThreeNames ==
    ASSUME NEW p \in Pointers, NEW q \in Pointers, NEW r \in Pointers, p # q, p # r, q # r
    PROVE  /\ <<p, q, r>> \in Seq(Pointers) /\ Distinct(<<p, q, r>>) /\ Len(<<p, q, r>>) = 3
           /\ ToSet(<<p, q, r>>) = {p, q, r}
BY DEF Distinct, ToSet

\* The numbers that the next n blocks get.
Fresh(h, n) == h.next .. h.next + n - 1

(* Every pointer gets a block of its own, and every new block a pointer.     *)
LEMMA NewBlocks ==
    ASSUME NEW h \in Heaps, NEW ps \in Seq(Pointers), Distinct(ps)
    PROVE  /\ New(h, ps) \in Heaps
           /\ New(h, ps).live = h.live \cup Fresh(h, Len(ps))
           /\ New(h, ps).mems = h.mems /\ New(h, ps).twice = h.twice
           /\ New(h, ps).next = h.next + Len(ps)
           /\ \A p \in Pointers \ ToSet(ps) : New(h, ps).at[p] = h.at[p]
           /\ \A p \in ToSet(ps) : New(h, ps).at[p] \in Fresh(h, Len(ps))
           /\ \A p, q \in ToSet(ps) : New(h, ps).at[p] = New(h, ps).at[q] => p = q
           /\ \A b \in Fresh(h, Len(ps)) : \E p \in ToSet(ps) : New(h, ps).at[p] = b
<1> DEFINE g == New(h, ps)
           at == [p \in Pointers |->
                     IF p \in ToSet(ps) THEN h.next - 1 + Place(p, ps) ELSE h.at[p]]
<1>1. Len(ps) \in Nat /\ DOMAIN ps = 1 .. Len(ps) /\ h.next \in Nat
  BY DEF Heaps
<1>2. \A p \in ToSet(ps) : p \in Pointers /\ Place(p, ps) \in 1 .. Len(ps) /\ ps[Place(p, ps)] = p
  <2> TAKE p \in ToSet(ps)
  <2>1. PICK i \in DOMAIN ps : ps[i] = p
    BY DEF ToSet
  <2> QED  BY <1>1, <2>1 DEF Place
<1>3. \A i \in 1 .. Len(ps) : ps[i] \in ToSet(ps) /\ Place(ps[i], ps) = i
  <2> TAKE i \in 1 .. Len(ps)
  <2>1. ps[i] \in ToSet(ps)
    BY <1>1 DEF ToSet
  <2> QED  BY <1>2, <2>1 DEF Distinct
<1>4. g = [h EXCEPT !.live = h.live \cup Fresh(h, Len(ps)), !.next = h.next + Len(ps), !.at = at]
  BY DEF New, Fresh
<1>5. \A p \in ToSet(ps) : at[p] \in Fresh(h, Len(ps))
  BY <1>1, <1>2 DEF Fresh
<1>6. at \in [Pointers -> Nat]
  <2>1. \A p \in Pointers : at[p] \in Nat
    <3>1. Fresh(h, Len(ps)) \subseteq Nat
      BY <1>1 DEF Fresh
    <3>2. \A p \in Pointers : p \notin ToSet(ps) => at[p] = h.at[p]
      OBVIOUS
    <3> HIDE DEF at
    <3> QED  BY <1>5, <3>1, <3>2 DEF Heaps
  <2> QED  BY <2>1
<1>7. /\ g.live = h.live \cup Fresh(h, Len(ps)) /\ g.mems = h.mems /\ g.twice = h.twice
      /\ g.next = h.next + Len(ps) /\ g.at = at
  BY <1>4 DEF Heaps
<1>8. g \in Heaps
  <2>1. Fresh(h, Len(ps)) \subseteq Nat
    BY <1>1 DEF Fresh
  <2>2. g = [live |-> h.live \cup Fresh(h, Len(ps)), mems |-> h.mems, at |-> at,
             twice |-> h.twice, next |-> h.next + Len(ps)]
    BY <1>4 DEF Heaps
  <2> HIDE DEF at, g
  <2>3. h.live \cup Fresh(h, Len(ps)) \in SUBSET Nat /\ h.next + Len(ps) \in Nat
    BY <1>1, <2>1 DEF Heaps
  <2> QED  BY <1>6, <2>2, <2>3 DEF Heaps
<1>9. \A p, q \in ToSet(ps) : at[p] = at[q] => p = q
  BY <1>1, <1>2
<1>10. \A b \in Fresh(h, Len(ps)) : \E p \in ToSet(ps) : at[p] = b
  <2> TAKE b \in Fresh(h, Len(ps))
  <2>1. b - h.next + 1 \in 1 .. Len(ps) /\ h.next - 1 + (b - h.next + 1) = b
    BY <1>1 DEF Fresh
  <2>2. at[ps[b - h.next + 1]] = b
    BY <1>2, <1>3, <2>1
  <2> QED  BY <1>3, <2>1, <2>2
<1>11. \A p \in Pointers \ ToSet(ps) : at[p] = h.at[p]
  OBVIOUS
<1> HIDE DEF at
<1> QED  BY <1>5, <1>7, <1>8, <1>9, <1>10, <1>11

(* Owners that held nothing get blocks.                                      *)
LEMMA NewAccounted ==
    ASSUME NEW own \in SUBSET Pointers, own \cap Managed = {}, NEW h, Accounted(h, own),
           NEW ps \in Seq(Pointers), Distinct(ps), ToSet(ps) \subseteq own,
           \A p \in ToSet(ps) : h.at[p] = NULL
    PROVE  Accounted(New(h, ps), own)
<1> DEFINE g == New(h, ps)
           new == Fresh(h, Len(ps))
<1>1. h \in Heaps /\ h.next > 0 /\ Len(ps) \in Nat /\ h.next \in Nat
  BY DEF Accounted, Heaps
<1>2. /\ g \in Heaps /\ g.live = h.live \cup new /\ g.mems = h.mems /\ g.next = h.next + Len(ps)
      /\ \A p \in Pointers \ ToSet(ps) : g.at[p] = h.at[p]
      /\ \A p \in ToSet(ps) : g.at[p] \in new
      /\ \A p, q \in ToSet(ps) : g.at[p] = g.at[q] => p = q
      /\ \A b \in new : \E p \in ToSet(ps) : g.at[p] = b
  BY <1>1, NewBlocks
<1>3. \A b \in new : b >= h.next /\ b < g.next /\ b # NULL
  BY <1>1, <1>2 DEF Fresh, NULL
<1>4. \A b \in h.live : 0 < b /\ b < h.next /\ b \in Nat
  BY DEF Accounted, Heaps
<1>5. new \cap h.live = {}
  BY <1>1, <1>3, <1>4 DEF Fresh
<1> HIDE DEF g, new
<1>6. Named(g, own) = Named(h, own) \cup new
  BY <1>2, <1>3 DEF Named
<1>7. \A p \in own : h.at[p] = NULL \/ h.at[p] \in h.live
  BY DEF Accounted, Named
<1>8. \A p, q \in own : g.at[p] = g.at[q] /\ g.at[p] # NULL => p = q
  BY <1>2, <1>3, <1>5, <1>7 DEF Accounted
<1>9. \A p \in Managed : g.at[p] = h.at[p]
  BY <1>2, PointerNames
<1>10. \A b \in g.live : 0 < b /\ b < g.next
  BY <1>1, <1>2, <1>3, <1>4 DEF Fresh, new
<1>11. g.next > 0
  BY <1>1, <1>2
<1>12. g.live = g.mems \cup Named(g, own) /\ g.mems \cap Named(g, own) = {}
  BY <1>2, <1>5, <1>6 DEF Accounted
<1>13. /\ \A p \in Managed : g.at[p] \in g.mems \cup {NULL}
       /\ \A p, q \in Managed : g.at[p] = g.at[q] /\ g.at[p] # NULL =>
              p = q \/ {p, q} = {"image", "raw_alloc"}
  <2>1. \A p \in Managed : h.at[p] \in h.mems \cup {NULL}
    BY DEF Accounted
  <2>2. \A p, q \in Managed : h.at[p] = h.at[q] /\ h.at[p] # NULL =>
            p = q \/ {p, q} = {"image", "raw_alloc"}
    BY DEF Accounted
  <2>3. \A p \in Managed : g.at[p] \in g.mems \cup {NULL}
    BY <1>2, <1>9, <2>1
  <2>4. ASSUME NEW p \in Managed, NEW q \in Managed, g.at[p] = g.at[q], g.at[p] # NULL
        PROVE  p = q \/ {p, q} = {"image", "raw_alloc"}
    BY <1>9, <2>2, <2>4
  <2> QED  BY <2>3, <2>4
<1>14. g \in Heaps /\ IsFiniteSet(g.mems)
  BY <1>2 DEF Accounted
<1> QED  BY <1>8, <1>10, <1>11, <1>12, <1>13, <1>14 DEF Accounted, g

(* The manager's table takes the blocks in: it has room.                     *)
LEMMA MallocBlocks ==
    ASSUME NEW h \in Heaps, NEW ps \in Seq(Pointers), Distinct(ps), IsFiniteSet(h.mems),
           \A b \in h.mems : b < h.next,
           Cardinality(h.mems) + Len(ps) <= MSIZE
    PROVE  /\ Malloc(h, ps) \in Heaps
           /\ Malloc(h, ps).live = h.live \cup Fresh(h, Len(ps))
           /\ Malloc(h, ps).mems = h.mems \cup Fresh(h, Len(ps))
           /\ IsFiniteSet(Malloc(h, ps).mems)
           /\ Cardinality(Malloc(h, ps).mems) = Cardinality(h.mems) + Len(ps)
           /\ Malloc(h, ps).twice = h.twice
           /\ Malloc(h, ps).next = h.next + Len(ps)
           /\ Malloc(h, ps).at = New(h, ps).at
<1> DEFINE g == New(h, ps)
           new == Fresh(h, Len(ps))
<1>1. /\ g \in Heaps /\ g.live = h.live \cup new /\ g.mems = h.mems /\ g.twice = h.twice
      /\ g.next = h.next + Len(ps)
  BY NewBlocks
<1>2. h.next \in Nat /\ Len(ps) \in Nat /\ h.mems \subseteq Nat /\ Cardinality(h.mems) \in Nat /\ MSIZE \in Nat
  BY FS_CardinalityType, HeapAssumption DEF Heaps
<1> HIDE DEF g
<1>3. Malloc(h, ps) = [g EXCEPT !.mems = h.mems \cup new]
  <2>1. /\ Malloc(h, ps) = [g EXCEPT !.mems = IF Cardinality(g.mems) + Len(ps) > MSIZE THEN g.mems
                                              ELSE g.mems \cup new]
    BY DEF Malloc, g, Fresh
  <2>2. ~(Cardinality(g.mems) + Len(ps) > MSIZE)
    BY <1>1, <1>2
  <2> QED  BY <1>1, <2>1, <2>2
<1>4. new \subseteq Nat
  BY <1>2 DEF Fresh
<1>5. IsFiniteSet(new) /\ Cardinality(new) = Len(ps)
  <2> DEFINE a == h.next
             b == h.next + Len(ps) - 1
  <2>1. a \in Int /\ b \in Int /\ (a > b => Len(ps) = 0) /\ b - a + 1 = Len(ps)
    BY <1>2
  <2> HIDE DEF a, b
  <2>2. IsFiniteSet(a .. b) /\ Cardinality(a .. b) = IF a > b THEN 0 ELSE b - a + 1
    BY <2>1, FS_Interval
  <2> QED  BY <2>1, <2>2 DEF Fresh, a, b
<1>6. h.mems \cap new = {}
  BY <1>2 DEF Fresh
<1> HIDE DEF new
<1>7. /\ IsFiniteSet(h.mems \cup new)
      /\ Cardinality(h.mems \cup new) = Cardinality(h.mems) + Cardinality(new) - Cardinality(h.mems \cap new)
  BY <1>5, FS_Union
<1>8. Cardinality(h.mems \cup new) = Cardinality(h.mems) + Len(ps)
  <2>1. Cardinality(h.mems \cap new) = 0
    BY <1>6, FS_EmptySet
  <2> QED  BY <1>2, <1>5, <1>7, <2>1
<1>9. Malloc(h, ps) \in Heaps
  BY <1>1, <1>2, <1>3, <1>4 DEF Heaps
<1>10. /\ Malloc(h, ps).live = g.live /\ Malloc(h, ps).mems = h.mems \cup new
       /\ Malloc(h, ps).twice = g.twice /\ Malloc(h, ps).next = g.next /\ Malloc(h, ps).at = g.at
  BY <1>1, <1>3 DEF Heaps
<1> QED  BY <1>1, <1>7, <1>8, <1>9, <1>10 DEF new, g

LEMMA MallocAccounted ==
    ASSUME NEW own \in SUBSET Pointers, own \cap Managed = {}, NEW h, Accounted(h, own),
           NEW ps \in Seq(Pointers), Distinct(ps), ToSet(ps) \subseteq Managed,
           Cardinality(h.mems) + Len(ps) <= MSIZE
    PROVE  /\ Accounted(Malloc(h, ps), own)
           /\ \A p \in ToSet(ps) : Malloc(h, ps).at[p] \notin h.live \cup {NULL}
<1> DEFINE g == Malloc(h, ps)
           new == Fresh(h, Len(ps))
<1>1. h \in Heaps /\ h.next > 0 /\ Len(ps) \in Nat /\ h.next \in Nat /\ IsFiniteSet(h.mems)
  BY DEF Accounted, Heaps
<1>2. \A b \in h.live : 0 < b /\ b < h.next /\ b \in Nat
  BY DEF Accounted, Heaps
<1>3. h.mems \subseteq h.live
  BY DEF Accounted
<1>4. /\ g \in Heaps /\ g.live = h.live \cup new /\ g.mems = h.mems \cup new /\ IsFiniteSet(g.mems)
      /\ Cardinality(g.mems) = Cardinality(h.mems) + Len(ps)
      /\ g.twice = h.twice /\ g.next = h.next + Len(ps) /\ g.at = New(h, ps).at
  BY <1>1, <1>2, <1>3, MallocBlocks
<1>5. /\ \A p \in Pointers \ ToSet(ps) : g.at[p] = h.at[p]
      /\ \A p \in ToSet(ps) : g.at[p] \in new
      /\ \A p, q \in ToSet(ps) : g.at[p] = g.at[q] => p = q
  BY <1>1, <1>4, NewBlocks
<1>6. \A b \in new : b >= h.next /\ b < g.next /\ b # NULL
  BY <1>1, <1>4 DEF Fresh, NULL
<1>7. new \cap h.live = {}
  BY <1>1, <1>2, <1>6 DEF Fresh
<1>8. \A b \in g.live : 0 < b /\ b < g.next
  BY <1>1, <1>2, <1>4, <1>6 DEF Fresh
<1>9. g.next > 0
  BY <1>1, <1>4
<1> HIDE DEF g, new
<1>10. Named(g, own) = Named(h, own)
  BY <1>5, PointerNames DEF Named
<1>11. \A p \in own : g.at[p] = h.at[p]
  BY <1>5, PointerNames
<1>12. \A p \in Managed : g.at[p] \in g.mems \cup {NULL}
  BY <1>4, <1>5, PointerNames DEF Accounted
<1>13. \A p, q \in Managed : g.at[p] = g.at[q] /\ g.at[p] # NULL =>
          p = q \/ {p, q} = {"image", "raw_alloc"}
  <2> SUFFICES ASSUME NEW p \in Managed, NEW q \in Managed, g.at[p] = g.at[q], g.at[p] # NULL, p # q
               PROVE  {p, q} = {"image", "raw_alloc"}
    OBVIOUS
  <2>1. p \notin ToSet(ps) /\ q \notin ToSet(ps)
    BY <1>3, <1>5, <1>7, PointerNames DEF Accounted
  <2>2. h.at[p] = h.at[q] /\ h.at[p] # NULL
    BY <1>5, <2>1, PointerNames
  <2> QED  BY <2>2 DEF Accounted
<1>14. g.live = g.mems \cup Named(g, own) /\ g.mems \cap Named(g, own) = {}
  BY <1>4, <1>7, <1>10 DEF Accounted
<1>15. Accounted(g, own)
  BY <1>4, <1>8, <1>9, <1>11, <1>12, <1>13, <1>14 DEF Accounted
<1>16. \A p \in ToSet(ps) : g.at[p] \notin h.live \cup {NULL}
  BY <1>5, <1>6, <1>7
<1> QED  BY <1>4, <1>5, <1>15, <1>16 DEF g

LEMMA ForgetFields ==
    ASSUME NEW h \in Heaps, NEW ps
    PROVE  /\ Forget(h, ps) \in Heaps
           /\ Forget(h, ps).live = h.live /\ Forget(h, ps).mems = h.mems
           /\ Forget(h, ps).twice = h.twice /\ Forget(h, ps).next = h.next
           /\ \A p \in Pointers : Forget(h, ps).at[p] = IF p \in ps THEN NULL ELSE h.at[p]
<1> DEFINE at == [p \in Pointers |-> IF p \in ps THEN NULL ELSE h.at[p]]
<1>1. at \in [Pointers -> Nat]
  BY DEF Heaps, NULL
<1>2. \A p \in Pointers : at[p] = IF p \in ps THEN NULL ELSE h.at[p]
  OBVIOUS
<1>3. Forget(h, ps) = [h EXCEPT !.at = at]
  BY DEF Forget
<1> HIDE DEF at
<1> QED  BY <1>1, <1>2, <1>3 DEF Heaps

(* Pointers to blocks of the manager, or to somebody else's, are given up.   *)
LEMMA ForgetAccounted ==
    ASSUME NEW own \in SUBSET Pointers, own \cap Managed = {}, NEW h, Accounted(h, own),
           NEW ps, ps \cap own = {}
    PROVE  Accounted(Forget(h, ps), own)
<1> DEFINE g == Forget(h, ps)
<1>1. /\ g \in Heaps /\ g.live = h.live /\ g.mems = h.mems /\ g.next = h.next
      /\ \A p \in Pointers : g.at[p] = IF p \in ps THEN NULL ELSE h.at[p]
  BY ForgetFields DEF Accounted
<1> HIDE DEF g
<1>2. \A p \in own : g.at[p] = h.at[p]
  BY <1>1
<1>3. Named(g, own) = Named(h, own)
  BY <1>2 DEF Named
<1>4. \A p \in Managed : g.at[p] = NULL \/ g.at[p] = h.at[p]
  BY <1>1, PointerNames
<1>5. /\ \A p \in Managed : g.at[p] \in g.mems \cup {NULL}
      /\ \A p, q \in Managed : g.at[p] = g.at[q] /\ g.at[p] # NULL =>
             p = q \/ {p, q} = {"image", "raw_alloc"}
  BY <1>1, <1>4 DEF Accounted
<1>6. /\ g.next > 0 /\ IsFiniteSet(g.mems)
      /\ \A b \in g.live : 0 < b /\ b < g.next
      /\ g.live = g.mems \cup Named(g, own) /\ g.mems \cap Named(g, own) = {}
      /\ \A p, q \in own : g.at[p] = g.at[q] /\ g.at[p] # NULL => p = q
  BY <1>1, <1>2, <1>3 DEF Accounted
<1> QED  BY <1>1, <1>5, <1>6 DEF Accounted, g

LEMMA FreeFields ==
    ASSUME NEW h \in Heaps, NEW ps
    PROVE  LET gone == {h.at[p] : p \in ps} \ {NULL}
           IN  /\ Free(h, ps) \in Heaps
               /\ Free(h, ps).live = h.live \ gone /\ Free(h, ps).mems = h.mems \ gone
               /\ Free(h, ps).next = h.next
               /\ Free(h, ps).at = Forget(h, ps).at
               /\ Free(h, ps).twice =
                     (\/ h.twice \/ ~(gone \subseteq h.live)
                      \/ Cardinality(gone) < Cardinality({p \in ps : h.at[p] # NULL}))
<1> DEFINE gone == {h.at[p] : p \in ps} \ {NULL}
           twice == \/ h.twice \/ ~(gone \subseteq h.live)
                    \/ Cardinality(gone) < Cardinality({p \in ps : h.at[p] # NULL})
           g == Forget(h, ps)
<1>1. g \in Heaps /\ g.live = h.live /\ g.mems = h.mems /\ g.twice = h.twice /\ g.next = h.next
  BY ForgetFields
<1>2. Free(h, ps) = [g EXCEPT !.live = g.live \ gone, !.mems = g.mems \ gone,
                              !.twice = \/ g.twice \/ ~(gone \subseteq h.live)
                                        \/ Cardinality(gone) < Cardinality({p \in ps : h.at[p] # NULL})]
  BY DEF Free
<1>3. Free(h, ps) = [live |-> h.live \ gone, mems |-> h.mems \ gone, at |-> g.at,
                     twice |-> twice, next |-> h.next]
  <2> HIDE DEF g, gone
  <2> QED  BY <1>1, <1>2 DEF Heaps
<1>4. twice \in BOOLEAN
  OBVIOUS
<1> HIDE DEF g, twice, gone
<1>5. Free(h, ps) \in Heaps
  BY <1>1, <1>3, <1>4 DEF Heaps
<1> QED  BY <1>3, <1>5 DEF g, twice, gone

(* Where no two of the pointers hold one block, nothing is freed twice.      *)
LEMMA FreedApart ==
    ASSUME NEW h, NEW ps \in SUBSET Pointers,
           \A p, q \in ps : h.at[p] = h.at[q] /\ h.at[p] # NULL => p = q
    PROVE  Cardinality({h.at[p] : p \in ps} \ {NULL}) = Cardinality({p \in ps : h.at[p] # NULL})
<1> DEFINE held == {p \in ps : h.at[p] # NULL}
           gone == {h.at[p] : p \in ps} \ {NULL}
           f == [p \in held |-> h.at[p]]
<1>1. IsFiniteSet(held)
  BY FS_Subset, HeapAssumption
<1>2. f \in [held -> gone]
  OBVIOUS
<1>3. \A p, q \in held : f[p] = f[q] => p = q
  OBVIOUS
<1>4. \A b \in gone : \E p \in held : f[p] = b
  OBVIOUS
<1>5. f \in Bijection(held, gone)
  <2> HIDE DEF f, held, gone
  <2> QED  BY <1>2, <1>3, <1>4 DEF Bijection, Injection, Surjection, IsInjective
<1> HIDE DEF held, gone, f
<1>6. ExistsBijection(held, gone)
  BY <1>5 DEF ExistsBijection
<1>7. Cardinality(held) = Cardinality(gone)
  BY <1>1, <1>6, FS_Bijection
<1> QED  BY <1>7 DEF held, gone

LEMMA FreeAccounted ==
    ASSUME NEW own \in SUBSET Pointers, own \cap Managed = {}, NEW h, Accounted(h, own),
           NEW ps \in SUBSET (own \cup Managed),
           Aliased(h) => ("image" \in ps <=> "raw_alloc" \in ps)
    PROVE  /\ Accounted(Free(h, ps), own)
           /\ Cardinality(Free(h, ps).mems) <= Cardinality(h.mems)
           /\ \A p \in Pointers : Free(h, ps).at[p] = IF p \in ps THEN NULL ELSE h.at[p]
           /\ ~(Aliased(h) /\ "image" \in ps) => Free(h, ps).twice = h.twice
<1> DEFINE g == Free(h, ps)
           gone == {h.at[p] : p \in ps} \ {NULL}
<1>1. h \in Heaps /\ IsFiniteSet(h.mems) /\ ps \subseteq Pointers
  BY PointerNames DEF Accounted
<1>2. /\ g \in Heaps /\ g.live = h.live \ gone /\ g.mems = h.mems \ gone /\ g.next = h.next
      /\ g.at = Forget(h, ps).at
  BY <1>1, FreeFields
<1>3. g.twice = (\/ h.twice \/ ~(gone \subseteq h.live)
                 \/ Cardinality(gone) < Cardinality({p \in ps : h.at[p] # NULL}))
  BY <1>1, FreeFields
<1>4. \A p \in Pointers : g.at[p] = IF p \in ps THEN NULL ELSE h.at[p]
  BY <1>1, <1>2, ForgetFields
<1>5. IsFiniteSet(g.mems) /\ Cardinality(g.mems) <= Cardinality(h.mems)
  BY <1>1, <1>2, FS_Subset
<1>6. gone \subseteq h.live
  BY DEF Accounted, Named
<1> HIDE DEF g

\* Owners that stay, stay with their blocks.
<1>7. \A p \in own \ ps : h.at[p] \notin gone \/ h.at[p] = NULL
  <2> SUFFICES ASSUME NEW p \in own \ ps, NEW q \in ps, h.at[p] = h.at[q], h.at[p] # NULL
               PROVE  FALSE
    OBVIOUS
  <2>1. CASE q \in own
    BY <2>1 DEF Accounted
  <2>2. CASE q \in Managed
    BY <2>2 DEF Accounted, Named
  <2> QED  BY <2>1, <2>2
<1>8. \A p \in Managed \ ps : h.at[p] \notin gone \/ h.at[p] = NULL
  <2> SUFFICES ASSUME NEW p \in Managed \ ps, NEW q \in ps, h.at[p] = h.at[q], h.at[p] # NULL
               PROVE  FALSE
    OBVIOUS
  <2>1. CASE q \in own
    BY <2>1 DEF Accounted, Named
  <2>2. CASE q \in Managed
    <3>1. p # q /\ {p, q} = {"image", "raw_alloc"}
      BY <2>2 DEF Accounted
    <3> QED  BY <3>1 DEF Aliased
  <2> QED  BY <2>1, <2>2
<1>9. Named(g, own) = Named(h, own) \ gone
  <2>1. \A p \in own : g.at[p] = IF p \in ps THEN NULL ELSE h.at[p]
    BY <1>4
  <2>2. \A p \in own \cap ps : h.at[p] = NULL \/ h.at[p] \in gone
    OBVIOUS
  <2> HIDE DEF gone
  <2> QED  BY <1>7, <2>1, <2>2 DEF Named
<1>10. g.live = g.mems \cup Named(g, own) /\ g.mems \cap Named(g, own) = {}
  <2> HIDE DEF gone
  <2> QED  BY <1>2, <1>9 DEF Accounted
<1>11. \A p \in own \cup Managed : g.at[p] = NULL \/ g.at[p] = h.at[p]
  BY <1>4, PointerNames
<1>12. \A p \in Managed : g.at[p] \in g.mems \cup {NULL}
  <2> HIDE DEF gone
  <2> QED  BY <1>2, <1>4, <1>8, PointerNames DEF Accounted
<1>13. /\ \A p, q \in own : g.at[p] = g.at[q] /\ g.at[p] # NULL => p = q
       /\ \A p, q \in Managed : g.at[p] = g.at[q] /\ g.at[p] # NULL =>
              p = q \/ {p, q} = {"image", "raw_alloc"}
  BY <1>11 DEF Accounted
<1>14. Accounted(g, own)
  <2>1. g.next > 0 /\ \A b \in g.live : 0 < b /\ b < g.next
    BY <1>2 DEF Accounted
  <2> HIDE DEF gone
  <2> QED  BY <1>2, <1>5, <1>10, <1>12, <1>13, <2>1 DEF Accounted
<1>15. ASSUME ~(Aliased(h) /\ "image" \in ps)
       PROVE  g.twice = h.twice
  <2>1. \A p, q \in ps : h.at[p] = h.at[q] /\ h.at[p] # NULL => p = q
    <3> SUFFICES ASSUME NEW p \in ps, NEW q \in ps, h.at[p] = h.at[q], h.at[p] # NULL, p # q
                 PROVE  FALSE
      OBVIOUS
    <3>1. CASE p \in own /\ q \in own
      BY <3>1 DEF Accounted
    <3>2. CASE p \in own /\ q \in Managed
      BY <3>2 DEF Accounted, Named
    <3>3. CASE p \in Managed /\ q \in own
      BY <3>3 DEF Accounted, Named
    <3>4. CASE p \in Managed /\ q \in Managed
      <4>1. {p, q} = {"image", "raw_alloc"}
        BY <3>4 DEF Accounted
      <4> QED  BY <1>15, <4>1 DEF Aliased
    <3> QED  BY <3>1, <3>2, <3>3, <3>4
  <2>2. Cardinality(gone) = Cardinality({p \in ps : h.at[p] # NULL})
    BY <1>1, <2>1, FreedApart
  <2>3. IsFiniteSet({p \in ps : h.at[p] # NULL})
    BY <1>1, FS_Subset, HeapAssumption
  <2>4. ~(Cardinality(gone) < Cardinality({p \in ps : h.at[p] # NULL}))
    BY <2>2, <2>3, FS_CardinalityType
  <2> HIDE DEF gone
  <2>5. h.twice \in BOOLEAN /\ g.twice \in BOOLEAN
    BY <1>1, <1>2 DEF Heaps
  <2>6. CASE h.twice = TRUE
    BY <1>3, <2>6
  <2>7. CASE h.twice = FALSE
    BY <1>3, <1>6, <2>4, <2>7
  <2> QED  BY <2>5, <2>6, <2>7
<1> QED  BY <1>4, <1>5, <1>14, <1>15 DEF g

(* With every pointer to a managed block given up, the table can be emptied. *)
LEMMA CleanupAccounted ==
    ASSUME NEW own \in SUBSET Pointers, own \cap Managed = {}, NEW h, Accounted(h, own),
           \A p \in Managed : h.at[p] = NULL
    PROVE  /\ Accounted(Cleanup(h), own)
           /\ Cleanup(h).mems = {} /\ Cleanup(h).at = h.at /\ Cleanup(h).twice = h.twice
<1> DEFINE g == Cleanup(h)
           twice == h.twice \/ ~(h.mems \subseteq h.live)
<1>1. h \in Heaps /\ h.mems \subseteq h.live
  BY DEF Accounted
<1>2. twice = h.twice
  <2>1. h.twice \in BOOLEAN
    BY <1>1 DEF Heaps
  <2>2. CASE h.twice = TRUE
    BY <1>1, <2>2
  <2>3. CASE h.twice = FALSE
    BY <1>1, <2>3
  <2> QED  BY <2>1, <2>2, <2>3
<1>3. g = [live |-> h.live \ h.mems, mems |-> {}, at |-> h.at, twice |-> twice, next |-> h.next]
  <2>1. g = [h EXCEPT !.twice = twice, !.live = h.live \ h.mems, !.mems = {}]
    BY DEF Cleanup
  <2> HIDE DEF g, twice
  <2> QED  BY <1>1, <2>1 DEF Heaps
<1> HIDE DEF g, twice
<1>4. /\ g \in Heaps /\ g.live = h.live \ h.mems /\ g.mems = {} /\ g.at = h.at
      /\ g.twice = h.twice /\ g.next = h.next
  BY <1>1, <1>2, <1>3 DEF Heaps
<1>5. Named(g, own) = Named(h, own)
  BY <1>4 DEF Named
<1>6. /\ g.live = g.mems \cup Named(g, own) /\ g.mems \cap Named(g, own) = {}
      /\ g.next > 0 /\ IsFiniteSet(g.mems)
      /\ \A b \in g.live : 0 < b /\ b < g.next
  BY <1>4, <1>5, FS_EmptySet DEF Accounted
<1>7. /\ \A p, q \in own : g.at[p] = g.at[q] /\ g.at[p] # NULL => p = q
      /\ \A p \in Managed : g.at[p] = NULL
  BY <1>4 DEF Accounted
<1> QED  BY <1>4, <1>6, <1>7 DEF Accounted, g

(* An owner that holds nothing need not be one.                              *)
LEMMA OwnerLess ==
    ASSUME NEW own, NEW p, NEW h, Accounted(h, own \cup {p}), h.at[p] = NULL
    PROVE  Accounted(h, own)
<1>1. Named(h, own \cup {p}) = Named(h, own)
  BY DEF Named
<1> QED  BY <1>1 DEF Accounted

LEMMA OwnPointers ==
    ASSUME NEW r
    PROVE  Own(r) \in SUBSET Pointers /\ Own(r) \cap Managed = {}
BY PointerNames DEF Own

WorkPointers == {"work1", "work2", "img"}

LEMMA UnwoundAccounted ==
    ASSUME NEW h, NEW r, Accounted(h, Own(r))
    PROVE  /\ Accounted(Unwound(h), Own(r))
           /\ \A p \in Pointers : Unwound(h).at[p] = IF p \in WorkPointers THEN NULL ELSE h.at[p]
           /\ Unwound(h).mems = h.mems /\ Unwound(h).twice = h.twice
<1>1. WorkPointers \subseteq Managed /\ WorkPointers \cap Own(r) = {}
  BY OwnPointers DEF WorkPointers, Managed
<1> HIDE DEF WorkPointers
<1>2. Unwound(h) = Forget(h, WorkPointers)
  BY DEF Unwound, WorkPointers
<1>3. Accounted(Forget(h, WorkPointers), Own(r))
  BY <1>1, OwnPointers, ForgetAccounted
<1> QED  BY <1>2, <1>3, ForgetFields DEF Accounted

(* After recycle the processor's pointers hold nothing, the table is empty,  *)
(* and whoever else owns a block keeps it.                                   *)
LEMMA RecycleAccounted ==
    ASSUME raw \in Raws, NEW h, Accounted(h, Own(raw)), \A p \in WorkPointers : h.at[p] = NULL
    PROVE  /\ Accounted(Recycle(h), OwnAlways)
           /\ Recycle(h).mems = {}
           /\ \A p \in Pointers :
                  Recycle(h).at[p] = IF p \in Recycled \cup {"input"} THEN NULL ELSE h.at[p]
           /\ ~Aliased(h) => Recycle(h).twice = h.twice
<1> DEFINE own == Own(raw)
           mine == IF raw.inputInternal THEN Recycled \cup {"input"} ELSE Recycled
           f == Free(h, mine)
           g == IF raw.inputInternal THEN f ELSE Forget(f, {"input"})
<1>1. own \in SUBSET Pointers /\ own \cap Managed = {} /\ OwnAlways \in SUBSET Pointers
  BY OwnPointers, PointerNames
<1>2. mine \in SUBSET (own \cup Managed)
  BY DEF Own, Managed
<1>3. "image" \in mine /\ "raw_alloc" \in mine
  BY DEF Recycled
<1>4. Recycle(h) = Cleanup(g)
  BY DEF Recycle
<1> HIDE DEF own, mine
<1>5. /\ Accounted(f, own)
      /\ \A p \in Pointers : f.at[p] = IF p \in mine THEN NULL ELSE h.at[p]
      /\ ~Aliased(h) => f.twice = h.twice
  <2>1. Accounted(h, own)
    BY DEF own
  <2>2. /\ Accounted(Free(h, mine), own)
        /\ \A p \in Pointers : Free(h, mine).at[p] = IF p \in mine THEN NULL ELSE h.at[p]
        /\ ~(Aliased(h) /\ "image" \in mine) => Free(h, mine).twice = h.twice
    BY <1>1, <1>2, <1>3, <2>1, FreeAccounted
  <2> QED  BY <2>2
<1> HIDE DEF f
<1>6. /\ Accounted(g, own)
      /\ \A p \in Pointers : g.at[p] = IF p \in Recycled \cup {"input"} THEN NULL ELSE h.at[p]
      /\ g.twice = f.twice
  <2>1. CASE raw.inputInternal
    BY <1>5, <2>1 DEF mine
  <2>2. CASE ~raw.inputInternal
    <3>1. {"input"} \cap own = {}
      BY <2>2, PointerNames DEF own, Own
    <3>2. Accounted(Forget(f, {"input"}), own)
      BY <1>1, <1>5, <3>1, ForgetAccounted
    <3>3. \A p \in Pointers : g.at[p] = IF p \in {"input"} THEN NULL ELSE f.at[p]
      BY <1>5, <2>2, ForgetFields DEF Accounted
    <3>4. g.twice = f.twice
      BY <1>5, <2>2, ForgetFields DEF Accounted
    <3> QED  BY <1>5, <2>2, <3>2, <3>3, <3>4 DEF mine
  <2> QED  BY <2>1, <2>2
<1> HIDE DEF g
<1>7. \A p \in Managed : g.at[p] = NULL
  BY <1>6, PointerNames DEF Managed, WorkPointers
<1>8. /\ Accounted(Cleanup(g), own)
      /\ Cleanup(g).mems = {} /\ Cleanup(g).at = g.at /\ Cleanup(g).twice = g.twice
  BY <1>1, <1>6, <1>7, CleanupAccounted
<1>9. Accounted(Cleanup(g), OwnAlways)
  <2>1. CASE raw.inputInternal
    <3>1. Cleanup(g).at["input"] = NULL
      BY <1>6, <1>8, PointerNames
    <3> QED  BY <1>8, <2>1, <3>1, OwnerLess DEF own, Own
  <2>2. CASE ~raw.inputInternal
    BY <1>8, <2>2 DEF own, Own
  <2> QED  BY <2>1, <2>2
<1> QED  BY <1>4, <1>5, <1>6, <1>8, <1>9
-----------------------------------------------------------------------------
(* What a call may come to: it goes on, it gives up in an exception, or it   *)
(* quits with an error code before it has done anything.                     *)

Went(most, r, h, next) ==
    /\ call' = next /\ ret' = "SUCCESS" /\ raw' = r /\ heap' = h /\ file' = file
    /\ told <= told' /\ (told' = told \/ told' = most)
    /\ refused' = refused /\ pending' = pending

Gave(h) ==
    /\ call' = IF call = "identify" THEN "open_fails" ELSE "idle"
    /\ ret' # "SUCCESS" /\ file' = file
    /\ told <= told' /\ told' \in OPEN..THUMB_LOAD
    /\ refused' \in BOOLEAN /\ (refused' => ret' = "CANCELLED_BY_CALLBACK")
    /\ pending' \in {"none", "java"} /\ (pending' = "java" => refused')
    /\ \/ heap' = Unwound(h) /\ raw' = raw
       \/ heap' = Recycle(Unwound(h)) /\ raw' = RecycledRaw

Quit ==
    /\ call' \in {"idle", "open_fails"} /\ ret' # "SUCCESS"
    /\ UNCHANGED <<heap, file, raw, told, refused, pending>>

LEMMA Codes == Code("CANCELLED") = "CANCELLED_BY_CALLBACK" /\ \A e : Code(e) # "SUCCESS"
BY DEF Code

LEMMA Numbers ==
    /\ {OPEN, IDENTIFY, SIZE_ADJUST, LOAD_RAW, REMOVE_ZEROES, SCALE_COLORS, PRE_INTERPOLATE,
        INTERPOLATE, MIX_GREEN, MEDIAN_FILTER, FUJI_ROTATE, CONVERT_RGB, STRETCH, THUMB_LOAD}
           \subseteq OPEN..THUMB_LOAD
    /\ OPEN..THUMB_LOAD \subseteq Int
BY DEF OPEN, IDENTIFY, SIZE_ADJUST, LOAD_RAW, REMOVE_ZEROES, SCALE_COLORS, PRE_INTERPOLATE,
       INTERPOLATE, MIX_GREEN, MEDIAN_FILTER, FUJI_ROTATE, CONVERT_RGB, STRETCH, THUMB_LOAD

(* An exception, before which the listener was asked or was not.             *)
LEMMA ThrowOutcome ==
    ASSUME ControlInv, NEW e, NEW h, Throw(e, h), file' = file,
           told <= told', told' \in OPEN..THUMB_LOAD, refused' \in BOOLEAN,
           refused' => e = "CANCELLED",
           pending' \in {"none", "java"}, pending' = "java" => refused'
    PROVE  Gave(h)
BY Codes DEF Gave, Throw

(* Nobody has refused yet, where a call is on its way.                       *)
LEMMA Quiet ==
    ASSUME ControlInv, call \notin {"idle", "open_fails", "ahd_rows"}
    PROVE  /\ refused = FALSE /\ pending = "none" /\ ret = "SUCCESS"
           /\ told \in OPEN..THUMB_LOAD /\ told <= told
BY Numbers DEF ControlInv, PhaseInv, ResultInv, ToldInv, Failed, OpenCalls, UnpackCalls,
       ProcessCalls, ReducedCalls, WholeCalls, ReadyCalls, Stages

LEMMA Answered ==
    ASSUME ControlInv, call \notin {"idle", "open_fails", "ahd_rows"},
           NEW stage \in OPEN..THUMB_LOAD, told <= stage, NEW go \in BOOLEAN, Answer(stage, go)
    PROVE  /\ told <= told' /\ told' \in OPEN..THUMB_LOAD /\ (told' = told \/ told' = stage)
           /\ refused' \in BOOLEAN /\ pending' \in {"none", "java"}
           /\ pending' = "java" => refused'
           /\ go => refused' = refused /\ pending' = pending
BY Quiet DEF Answer

LEMMA StageOutcome ==
    ASSUME ControlInv, NEW at, at \notin {"idle", "open_fails", "ahd_rows"},
           NEW stage \in OPEN..THUMB_LOAD, told <= stage,
           NEW asked, NEW short, NEW r, NEW h, NEW next,
           Stage(at, stage, asked, short, r, h, next)
    PROVE  Went(stage, SetProcFlag(r, stage), h, next) \/ \E g \in asked \cup short : Gave(g)
<1>1. call = at /\ file' = file /\ ret = "SUCCESS"
  BY DEF Stage, ControlInv, ResultInv
<1>2. CASE /\ Answer(stage, TRUE) /\ raw' = SetProcFlag(r, stage) /\ heap' = h /\ call' = next
           /\ ret' = IF next = "idle" THEN "SUCCESS" ELSE ret
  BY <1>1, <1>2, Answered DEF Went
<1>3. CASE Answer(stage, FALSE) /\ \E a \in asked : Throw("CANCELLED", a)
  <2>1. PICK a \in asked : Throw("CANCELLED", a)
    BY <1>3
  <2>2. Gave(a)
    BY <1>1, <1>3, <2>1, Answered, ThrowOutcome
  <2> QED  BY <2>2
<1>4. CASE /\ Answer(stage, TRUE) \/ UNCHANGED <<told, refused, pending>>
           /\ \E s \in short : Throw("ALLOC", s)
  <2>1. PICK s \in short : Throw("ALLOC", s)
    BY <1>4
  <2>2. refused = FALSE /\ pending = "none" /\ told \in OPEN..THUMB_LOAD /\ told <= told
    BY <1>1, Quiet
  <2>3. told <= told' /\ told' \in OPEN..THUMB_LOAD /\ refused' = FALSE /\ pending' = "none"
    BY <1>1, <1>4, <2>2, Answered
  <2>4. Gave(s)
    BY <1>1, <2>1, <2>3, ThrowOutcome
  <2> QED  BY <2>4
<1> QED  BY <1>2, <1>3, <1>4 DEF Stage

(* An exception without a question.                                          *)
LEMMA ThrowQuietly ==
    ASSUME ControlInv, call \notin {"idle", "open_fails", "ahd_rows"},
           NEW e, NEW h, Throw(e, h), UNCHANGED <<file, told, refused, pending>>
    PROVE  Gave(h)
BY Quiet, ThrowOutcome

LEMMA StepOutcome ==
    ASSUME ControlInv, NEW at, at \notin {"idle", "open_fails"},
           NEW r, NEW h, NEW next, Step(at, r, h, next)
    PROVE  Went(told, r, h, next)
BY Numbers DEF Step, Went, ControlInv, ResultInv, ToldInv

LEMMA AcquireOutcome ==
    ASSUME ControlInv, NEW at, at \notin {"idle", "open_fails", "ahd_rows"},
           NEW r, NEW h, NEW next, Acquire(at, r, h, next)
    PROVE  Went(told, r, h, next) \/ Gave(heap)
BY StepOutcome, ThrowQuietly DEF Acquire

LEMMA RefuseOutcome ==
    ASSUME NEW at, NEW code, code # "SUCCESS", Refuse(at, code)
    PROVE  Quit
BY DEF Refuse, Return, Quit

LEMMA RecycledRaws ==
    ASSUME raw \in Raws
    PROVE  /\ RecycledRaw \in Raws /\ ~RecycledRaw.inputInternal /\ RecycledRaw.made = raw.made
           /\ RecycledRaw.half = raw.half /\ RecycledRaw.terminate = raw.terminate
<1>1. NoPicture \in [w : Nat, h : Nat, iw : Nat, ih : Nat]
  BY DEF NoPicture
<1> QED  BY <1>1 DEF RecycledRaw, Raws

(* A call that fails leaves its stage for "idle" or for the end of open.     *)
LEMMA FailedControl ==
    ASSUME ControlInv, call \notin {"idle", "open_fails"}, UNCHANGED <<file, loaderVars>>,
           call' = "idle" \/ (call' = "open_fails" /\ pc = "opened"),
           ret' # "SUCCESS", raw' \in Raws, told' \in OPEN..THUMB_LOAD,
           refused' \in BOOLEAN, refused' => ret' = "CANCELLED_BY_CALLBACK",
           pending' \in {"none", "java"}, pending' = "java" => refused'
    PROVE  ControlInv'
<1>1. PhaseInv'
  BY DEF ControlInv, PhaseInv, loaderVars, OpenCalls, UnpackCalls, ProcessCalls, ReducedCalls,
         WholeCalls, ReadyCalls, Stages
<1>2. pc \notin {"start", "end", "returned", "crashed", "exited"}
  BY DEF ControlInv, PhaseInv, OpenCalls, UnpackCalls, ProcessCalls, ReducedCalls,
         WholeCalls, ReadyCalls, Stages
<1>3. ResultInv'
  BY <1>2 DEF ControlInv, ResultInv, loaderVars, Failed
<1>4. ToldInv'
  BY <1>2 DEF ToldInv, After, loaderVars, UnpackCalls
<1> QED  BY <1>1, <1>3, <1>4 DEF ControlInv

(* No bitmap is handed over, and none was, while a call is on its way.       *)
LEMMA StillNoPicture ==
    ASSUME IInv, call \notin {"idle", "open_fails"}, UNCHANGED loaderVars
    PROVE  PictureIsWhole'
<1>1. handed' = Nothing
  BY DEF IInv, ControlInv, ResultInv, PhaseInv, loaderVars, OpenCalls, UnpackCalls, ProcessCalls,
         ReducedCalls, WholeCalls, ReadyCalls, Stages
<1> QED  BY <1>1 DEF PictureIsWhole, Nothing

LEMMA FailedPicture ==
    ASSUME IInv, call \notin {"idle", "open_fails"}, UNCHANGED <<file, loaderVars>>,
           call' \in {"idle", "open_fails"}, ret' # "SUCCESS"
    PROVE  PictureInv'
BY StillNoPicture DEF PictureInv, FoundInv, ReducedInv, WholeInv, ReadyInv, MadeInv, After,
   UnpackCalls, ReducedCalls, WholeCalls, ReadyCalls

(* What a call had made of the heap when it gave up can be cleaned up.       *)
Kept(h) ==
    /\ Accounted(h, Own(raw)) /\ h.twice = FALSE
    /\ Aliased(h) => file.decoder = CanonSraw
    /\ \A p \in OwnAlways \ {"buffer"} : h.at[p] = heap.at[p]

Lost(h) == Kept(h) /\ (h.at["buffer"] # NULL => ~file.intact)

LEMMA GaveHeap ==
    ASSUME IInv, call \notin {"idle", "adopt", "open_fails"}, UNCHANGED loaderVars,
           NEW h, Lost(h), Gave(h)
    PROVE  HeapInv'
<1> DEFINE u == Unwound(h)
<1>1. raw \in Raws /\ pc \notin {"start", "end", "returned", "crashed", "exited"}
  BY DEF IInv, ControlInv, PhaseInv, OpenCalls, UnpackCalls, ProcessCalls, ReducedCalls,
         WholeCalls, ReadyCalls, Stages
<1>2. /\ Accounted(u, Own(raw)) /\ u.twice = FALSE
      /\ \A p \in Pointers : u.at[p] = IF p \in WorkPointers THEN NULL ELSE h.at[p]
  BY UnwoundAccounted DEF Lost, Kept
<1>3. Aliased(u) => file.decoder = CanonSraw
  BY <1>2, PointerNames DEF Lost, Kept, Aliased, WorkPointers, Managed, Recycled
<1> HIDE DEF u
<1>4. /\ \A p \in OwnAlways \ {"buffer"} : u.at[p] = heap.at[p]
      /\ u.at["buffer"] # NULL => ~file.intact
      /\ \A p \in WorkPointers : u.at[p] = NULL
  BY <1>2, PointerNames DEF Lost, Kept, WorkPointers, OwnAlways, Managed, LoaderPointers
<1>5. Failed' /\ file' = file
  BY DEF Failed, Gave

\* Whatever becomes of the heap, its owners hold what they held.
<1>6. /\ Accounted(heap', Own(raw'))
      /\ heap'.twice => file.decoder = CanonSraw
      /\ Aliased(heap') => file.decoder = CanonSraw
      /\ \A p \in OwnAlways : heap'.at[p] = u.at[p]
      /\ \A p \in WorkPointers : heap'.at[p] = NULL
      /\ raw.inputInternal = FALSE => raw'.inputInternal = FALSE
  <2>1. CASE heap' = u /\ raw' = raw
    BY <1>2, <1>3, <1>4, <2>1
  <2>2. CASE heap' = Recycle(u) /\ raw' = RecycledRaw
    <3>1. /\ Accounted(heap', OwnAlways)
          /\ \A p \in Pointers : heap'.at[p] = IF p \in Recycled \cup {"input"} THEN NULL ELSE u.at[p]
          /\ ~Aliased(u) => heap'.twice = u.twice
      BY <1>1, <1>2, <1>4, <2>2, RecycleAccounted
    <3>2. Own(raw') = OwnAlways /\ raw'.inputInternal = FALSE
      BY <1>1, <2>2, RecycledRaws DEF Own, Raws
    <3>3. heap'.at["image"] = NULL
      BY <3>1, PointerNames DEF Recycled, Managed
    <3>4. \A p \in OwnAlways : heap'.at[p] = u.at[p]
      BY <3>1, PointerNames DEF Managed
    <3>5. \A p \in WorkPointers : heap'.at[p] = NULL
      BY <1>4, <3>1, PointerNames DEF WorkPointers, Managed
    <3> QED  BY <1>2, <1>3, <3>1, <3>2, <3>3, <3>4, <3>5 DEF Aliased
  <2> QED  BY <2>1, <2>2 DEF Gave, u
<1>7. BlocksInv'
  BY <1>5, <1>6 DEF BlocksInv
<1>8. \A p \in OwnAlways \ {"buffer"} : heap'.at[p] = heap.at[p]
  BY <1>4, <1>6
<1>9. PointersInv'
  <2>1. heap'.at["buffer"] # NULL => ~file.intact
    BY <1>4, <1>6 DEF OwnAlways
  <2>2. /\ heap'.at["stream"] # NULL => call = "identify"
        /\ heap'.at["memimage"] = NULL /\ heap'.at["processor"] # NULL
        /\ \A p \in {"r", "g", "b"} : heap'.at[p] # NULL <=> handed # Nothing
    BY <1>1, <1>8 DEF IInv, HeapInv, PointersInv, OwnAlways, LoaderPointers
  <2>3. call = "identify" => raw'.inputInternal = FALSE
    BY <1>1, <1>6 DEF IInv, HeapInv, PointersInv, OpenCalls, Raws
  <2> QED  BY <1>1, <1>5, <1>6, <2>1, <2>2, <2>3
           DEF PointersInv, Gave, loaderVars, After, Failed, WorkPointers, OpenCalls
<1>10. TableInv'
  BY DEF TableInv, Gave, After, ReducedCalls
<1> QED  BY <1>7, <1>9, <1>10 DEF HeapInv

LEMMA GaveInv ==
    ASSUME IInv, call \notin {"idle", "adopt", "open_fails"}, UNCHANGED loaderVars,
           NEW h, Lost(h), Gave(h)
    PROVE  IInv'
<1>1. raw' \in Raws
  BY RecycledRaws DEF Gave, IInv, ControlInv, PhaseInv
<1>2. call = "identify" => pc = "opened"
  BY DEF IInv, ControlInv, PhaseInv, OpenCalls
<1>3. ControlInv'
  <2>1. UNCHANGED <<file, loaderVars>>
    BY DEF Gave
  <2>2. call' = "idle" \/ (call' = "open_fails" /\ pc = "opened")
    BY <1>2 DEF Gave
  <2>3. ControlInv
    BY DEF IInv
  <2> QED  BY <1>1, <2>1, <2>2, <2>3, FailedControl DEF Gave
<1>4. PictureInv'
  BY FailedPicture DEF Gave
<1> QED  BY <1>3, <1>4, GaveHeap DEF IInv

LEMMA QuitInv ==
    ASSUME IInv, UNCHANGED loaderVars, Quit, call' = "open_fails" => call = "adopt",
           call \in {"open", "adopt", "unpack", "process", "unpack_thumb", "mem_image", "mem_thumb"},
           call = "adopt" => call' = "open_fails"
    PROVE  IInv'
<1>1. /\ refused = FALSE /\ pending = "none" /\ told \in OPEN..THUMB_LOAD
  BY Quiet DEF IInv
<1>2. ControlInv'
  <2>1. call = "adopt" => pc = "opened"
    BY DEF IInv, ControlInv, PhaseInv, OpenCalls
  <2>2. raw' \in Raws
    BY DEF Quit, IInv, ControlInv, PhaseInv
  <2>3. UNCHANGED <<file, loaderVars>>
    BY DEF Quit
  <2>4. ControlInv
    BY DEF IInv
  <2> QED  BY <1>1, <2>1, <2>2, <2>3, <2>4, FailedControl DEF Quit
<1>3. PictureInv'
  BY FailedPicture DEF Quit
<1>4. pc \notin {"start", "end", "returned", "crashed", "exited"}
  BY DEF IInv, ControlInv, PhaseInv, OpenCalls, UnpackCalls, ProcessCalls
<1>5. BlocksInv'
  BY DEF IInv, HeapInv, BlocksInv, Quit, Failed
<1>6. PointersInv'
  BY <1>4 DEF IInv, HeapInv, PointersInv, Quit, loaderVars, After, OpenCalls, Failed
<1>7. TableInv'
  BY DEF TableInv, Quit, After, ReducedCalls
<1> QED  BY <1>2, <1>3, <1>5, <1>6, <1>7 DEF IInv, HeapInv

LEMMA HeapLost ==
    ASSUME IInv, call \notin {"idle", "open_fails"}
    PROVE  Lost(heap)
BY DEF IInv, HeapInv, BlocksInv, PointersInv, Lost, Kept, Failed, Accounted, Heaps

LEMMA LostMalloc ==
    ASSUME NEW h, Lost(h), NEW ps \in Seq(Pointers), Distinct(ps), ToSet(ps) \subseteq Managed,
           ~({"image", "raw_alloc"} \subseteq ToSet(ps)),
           Cardinality(h.mems) + Len(ps) <= MSIZE
    PROVE  /\ Lost(Malloc(h, ps))
           /\ Cardinality(Malloc(h, ps).mems) = Cardinality(h.mems) + Len(ps)
           /\ \A p \in Pointers \ ToSet(ps) : Malloc(h, ps).at[p] = h.at[p]
           /\ \A p \in ToSet(ps) : Malloc(h, ps).at[p] \notin h.live \cup {NULL}
<1> DEFINE g == Malloc(h, ps)
           own == Own(raw)
<1>1. own \in SUBSET Pointers /\ own \cap Managed = {} /\ Accounted(h, own)
  BY OwnPointers DEF Lost, Kept
<1> HIDE DEF own
<1>2. /\ Accounted(g, own) /\ g.twice = h.twice
      /\ Cardinality(g.mems) = Cardinality(h.mems) + Len(ps)
      /\ \A p \in Pointers \ ToSet(ps) : g.at[p] = h.at[p]
      /\ \A p \in ToSet(ps) : g.at[p] \notin h.live \cup {NULL}
  <2>1. /\ h \in Heaps /\ IsFiniteSet(h.mems) /\ \A b \in h.mems : b < h.next
    BY <1>1 DEF Accounted
  <2>2. Accounted(g, own) /\ \A p \in ToSet(ps) : g.at[p] \notin h.live \cup {NULL}
    BY <1>1, MallocAccounted
  <2>3. /\ g.twice = h.twice /\ Cardinality(g.mems) = Cardinality(h.mems) + Len(ps)
        /\ g.at = New(h, ps).at
    BY <2>1, MallocBlocks
  <2>4. \A p \in Pointers \ ToSet(ps) : g.at[p] = h.at[p]
    BY <2>1, <2>3, NewBlocks
  <2> QED  BY <2>2, <2>3, <2>4
<1> HIDE DEF g
<1>3. Aliased(g) => Aliased(h)
  <2>1. "image" \in Managed /\ "raw_alloc" \in Managed
    BY DEF Managed, Recycled
  <2>2. \A p \in Managed : h.at[p] \in h.live \cup {NULL}
    BY <1>1 DEF Accounted
  <2> QED  BY <1>2, <2>1, <2>2, PointerNames DEF Aliased
<1>4. \A p \in OwnAlways : g.at[p] = h.at[p]
  BY <1>2, PointerNames
<1>5. Lost(g)
  BY <1>2, <1>3, <1>4 DEF Lost, Kept, own, OwnAlways
<1> QED  BY <1>2, <1>5 DEF g

(* The table has room for twelve.                                            *)
LEMMA LostMallocOne ==
    ASSUME NEW h, Lost(h), NEW p \in Managed, NEW n \in 0..11, Cardinality(h.mems) <= n
    PROVE  /\ Lost(Malloc(h, <<p>>)) /\ Cardinality(Malloc(h, <<p>>).mems) <= n + 1
           /\ \A q \in Pointers \ {p} : Malloc(h, <<p>>).at[q] = h.at[q]
           /\ Malloc(h, <<p>>).at[p] \notin h.live \cup {NULL}
<1> DEFINE ps == <<p>>
<1>1. ps \in Seq(Pointers) /\ Distinct(ps) /\ Len(ps) = 1 /\ ToSet(ps) = {p}
  BY PointerNames, OneName
<1> HIDE DEF ps
<1>2. Cardinality(h.mems) \in Nat
  BY FS_CardinalityType DEF Lost, Kept, Accounted
<1>3. Cardinality(h.mems) + Len(ps) <= MSIZE
  BY <1>1, <1>2, LibRawAssumption, HeapAssumption
<1>4. ~({"image", "raw_alloc"} \subseteq ToSet(ps)) /\ ToSet(ps) \subseteq Managed
  BY <1>1
<1>5. /\ Lost(Malloc(h, ps)) /\ Cardinality(Malloc(h, ps).mems) = Cardinality(h.mems) + Len(ps)
      /\ \A q \in Pointers \ ToSet(ps) : Malloc(h, ps).at[q] = h.at[q]
      /\ \A q \in ToSet(ps) : Malloc(h, ps).at[q] \notin h.live \cup {NULL}
  BY <1>1, <1>3, <1>4, LostMalloc
<1> QED  BY <1>1, <1>2, <1>5 DEF ps

LEMMA LostMallocTwo ==
    ASSUME NEW h, Lost(h), NEW p \in Managed, NEW q \in Managed, p # q,
           {p, q} # {"image", "raw_alloc"}, NEW n \in 0..10, Cardinality(h.mems) <= n
    PROVE  /\ Lost(Malloc(h, <<p, q>>)) /\ Cardinality(Malloc(h, <<p, q>>).mems) <= n + 2
           /\ \A x \in Pointers \ {p, q} : Malloc(h, <<p, q>>).at[x] = h.at[x]
<1> DEFINE ps == <<p, q>>
<1>1. ps \in Seq(Pointers) /\ Distinct(ps) /\ Len(ps) = 2 /\ ToSet(ps) = {p, q}
  BY PointerNames, TwoNames
<1> HIDE DEF ps
<1>2. Cardinality(h.mems) \in Nat
  BY FS_CardinalityType DEF Lost, Kept, Accounted
<1>3. Cardinality(h.mems) + Len(ps) <= MSIZE
  BY <1>1, <1>2, LibRawAssumption, HeapAssumption
<1>4. ~({"image", "raw_alloc"} \subseteq ToSet(ps)) /\ ToSet(ps) \subseteq Managed
  BY <1>1
<1>5. /\ Lost(Malloc(h, ps)) /\ Cardinality(Malloc(h, ps).mems) = Cardinality(h.mems) + Len(ps)
      /\ \A x \in Pointers \ ToSet(ps) : Malloc(h, ps).at[x] = h.at[x]
  BY <1>1, <1>3, <1>4, LostMalloc
<1> QED  BY <1>1, <1>2, <1>5 DEF ps

(* No block is freed that another pointer still holds.                       *)
LEMMA LostFree ==
    ASSUME NEW h, Kept(h), NEW ps \in SUBSET (Managed \cup {"buffer"}),
           Lost(h) \/ "buffer" \in ps,
           Aliased(h) => "image" \notin ps /\ "raw_alloc" \notin ps
    PROVE  /\ Lost(Free(h, ps))
           /\ Cardinality(Free(h, ps).mems) <= Cardinality(h.mems)
           /\ \A p \in Pointers : Free(h, ps).at[p] = IF p \in ps THEN NULL ELSE h.at[p]
<1> DEFINE g == Free(h, ps)
           own == Own(raw)
<1>1. own \in SUBSET Pointers /\ own \cap Managed = {} /\ Accounted(h, own)
  BY OwnPointers DEF Kept
<1>2. ps \in SUBSET (own \cup Managed)
  BY DEF Own, OwnAlways
<1> HIDE DEF own
<1>3. /\ Accounted(g, own)
      /\ Cardinality(g.mems) <= Cardinality(h.mems)
      /\ \A p \in Pointers : g.at[p] = IF p \in ps THEN NULL ELSE h.at[p]
      /\ g.twice = h.twice
  BY <1>1, <1>2, FreeAccounted
<1> HIDE DEF g
<1>4. Aliased(g) => Aliased(h)
  BY <1>3, PointerNames DEF Aliased, Managed, Recycled
<1>5. \A p \in OwnAlways \ {"buffer"} : g.at[p] = h.at[p]
  BY <1>3, PointerNames DEF Managed
<1>6. g.at["buffer"] # NULL => ~file.intact
  BY <1>3, PointerNames DEF Lost, OwnAlways
<1>7. Lost(g)
  BY <1>3, <1>4, <1>5, <1>6 DEF Lost, Kept, own
<1> QED  BY <1>3, <1>7 DEF g

\* Both are stages of one kind of call.
Along(here, next) ==
    \/ next = "idle"
    \/ here \in OpenCalls /\ next \in OpenCalls \ {"open_fails"}
    \/ here \in UnpackCalls /\ next \in UnpackCalls
    \/ here \in ProcessCalls /\ next \in ProcessCalls

LEMMA WentControl ==
    ASSUME ControlInv, call \notin {"idle", "open_fails"}, refused = FALSE, UNCHANGED loaderVars,
           NEW most \in OPEN..THUMB_LOAD, NEW r \in Raws, NEW h, NEW next, Went(most, r, h, next),
           Along(call, next)
    PROVE  /\ PhaseInv' /\ ResultInv' /\ told' \in OPEN..THUMB_LOAD
           /\ pc \notin {"start", "end", "returned", "crashed", "exited"}
<1>1. PhaseInv'
  BY DEF ControlInv, PhaseInv, Went, Along, loaderVars, OpenCalls, UnpackCalls, ProcessCalls,
         ReducedCalls, WholeCalls, ReadyCalls, Stages
<1>2. pc \notin {"start", "end", "returned", "crashed", "exited"}
  BY DEF ControlInv, PhaseInv, OpenCalls, UnpackCalls, ProcessCalls, ReducedCalls,
         WholeCalls, ReadyCalls, Stages
<1>3. ResultInv'
  BY <1>2 DEF ControlInv, ResultInv, Went, loaderVars, Along, OpenCalls, UnpackCalls, ProcessCalls,
              ReducedCalls, WholeCalls, ReadyCalls
<1>4. told' \in OPEN..THUMB_LOAD
  BY DEF Went, ControlInv, ToldInv
<1> QED  BY <1>1, <1>2, <1>3, <1>4

(* A stage of unpack, process or unpack_thumb that goes on.                  *)
LEMMA WentHeap ==
    ASSUME IInv, call \in UnpackCalls \cup ProcessCalls \cup {"unpack_thumb"}, UNCHANGED loaderVars,
           NEW most, NEW r, NEW h, NEW next, Went(most, r, h, next), next \notin OpenCalls,
           r.inputInternal = raw.inputInternal, Lost(h), h.at["buffer"] = NULL,
           Aliased(h) => next \in {"load_raw", "unpacked"},
           \A p \in WorkPointers : h.at[p] # NULL => p = "work1" /\ next = "ahd_rows"
    PROVE  BlocksInv' /\ PointersInv'
<1>1. pc \in {"unpacked", "processed", "thumb_unpacked"}
  BY DEF IInv, ControlInv, PhaseInv
<1>2. \A p \in OwnAlways : heap'.at[p] = heap.at[p]
  BY DEF Lost, Kept, Went, IInv, HeapInv, PointersInv, Failed, UnpackCalls, ProcessCalls, ReducedCalls,
         WholeCalls, ReadyCalls
<1>3. heap' = h /\ raw' = r /\ call' = next /\ file' = file /\ ret' = "SUCCESS"
  BY DEF Went
<1>4. BlocksInv'
  BY <1>3 DEF BlocksInv, Lost, Kept, Own
<1>5. call \notin {"identify", "adopt", "open_fails", "idle"}
  BY DEF UnpackCalls, ProcessCalls, ReducedCalls, WholeCalls, ReadyCalls
<1>6. PointersInv'
  BY <1>1, <1>2, <1>3, <1>5
     DEF IInv, HeapInv, PointersInv, loaderVars, OwnAlways, LoaderPointers, OpenCalls, After,
         WorkPointers
<1> QED  BY <1>4, <1>6
-----------------------------------------------------------------------------
(* open_file and open_buffer.                                                *)

LEMMA SetFields ==
    ASSUME NEW h \in Heaps, NEW p \in Pointers, NEW b \in Nat
    PROVE  LET g == [h EXCEPT !.at[p] = b]
           IN  /\ g \in Heaps
               /\ g.live = h.live /\ g.mems = h.mems /\ g.twice = h.twice /\ g.next = h.next
               /\ \A q \in Pointers : g.at[q] = IF q = p THEN b ELSE h.at[q]
BY DEF Heaps

LEMMA OpenRefusedInv ==
    ASSUME IInv, OpenRefused, UNCHANGED loaderVars
    PROVE  IInv' /\ told <= told'
<1>1. Quit /\ call = "open" /\ call' = "idle" /\ told' = told
  BY RefuseOutcome DEF OpenRefused, Refuse, Return
<1> QED  BY <1>1, QuitInv, Quiet DEF IInv

LEMMA OpenShortInv ==
    ASSUME IInv, OpenShort, UNCHANGED loaderVars
    PROVE  IInv' /\ told <= told'
<1>1. call = "open" /\ Gave(heap)
  BY ThrowQuietly DEF OpenShort, IInv
<1> QED  BY <1>1, HeapLost, GaveInv DEF Gave

LEMMA OpenHeap ==
    ASSUME IInv, Open, UNCHANGED loaderVars
    PROVE  HeapInv'
<1> DEFINE stream == New(heap, <<"stream">>)
           kept == Recycle(stream)
<1>1. /\ call = "open" /\ call' = "identify" /\ file' = file /\ ret' = ret /\ ret = "SUCCESS"
      /\ raw' = [RecycledRaw EXCEPT !.flags = {OPEN}]
      /\ heap' = [kept EXCEPT !.at["input"] = stream.at["stream"]]
  BY DEF Open, Step, IInv, ControlInv, ResultInv
<1>2. pc = "opened" /\ raw \in Raws /\ raw.inputInternal = FALSE
  BY <1>1 DEF IInv, ControlInv, PhaseInv, HeapInv, PointersInv, OpenCalls, Raws
<1>3. raw'.inputInternal = FALSE
  BY <1>1, <1>2, RecycledRaws DEF Raws
<1>4. Accounted(heap, OwnAlways) /\ heap.at["stream"] = NULL /\ Lost(heap)
  BY <1>1, <1>2, HeapLost DEF Own, IInv, HeapInv, BlocksInv, PointersInv
<1>5. "stream" \in OwnAlways /\ OwnAlways \cap Managed = {} /\ OwnAlways \in SUBSET Pointers
  BY PointerNames DEF OwnAlways
<1>6. /\ <<"stream">> \in Seq(Pointers) /\ Distinct(<<"stream">>) /\ Len(<<"stream">>) = 1
      /\ ToSet(<<"stream">>) = {"stream"}
  BY <1>5, OneName
<1>7. Accounted(stream, OwnAlways)
  BY <1>4, <1>5, <1>6, NewAccounted
<1>8. stream.twice = FALSE /\ \A p \in Pointers \ {"stream"} : stream.at[p] = heap.at[p]
  <2>1. heap \in Heaps /\ heap.twice = FALSE
    BY <1>4 DEF Accounted, Lost, Kept
  <2>2. /\ stream.twice = heap.twice
        /\ \A p \in Pointers \ ToSet(<<"stream">>) : stream.at[p] = heap.at[p]
    BY <1>6, <2>1, NewBlocks
  <2> QED  BY <1>6, <2>1, <2>2
<1> HIDE DEF stream
<1>9. /\ \A p \in WorkPointers : stream.at[p] = NULL
      /\ ~Aliased(stream)
  <2>1. \A p \in Managed : stream.at[p] = heap.at[p]
    BY <1>5, <1>8, PointerNames
  <2>2. ~Aliased(heap)
    BY <1>1 DEF IInv, HeapInv, BlocksInv, Failed
  <2> QED  BY <1>1, <2>1, <2>2 DEF Aliased, Managed, Recycled, WorkPointers, IInv, HeapInv, PointersInv
<1>10. Accounted(stream, Own(raw))
  BY <1>2, <1>7 DEF Own
<1>11. /\ Accounted(kept, OwnAlways) /\ kept.mems = {} /\ kept.twice = FALSE
       /\ \A p \in Pointers : kept.at[p] = IF p \in Recycled \cup {"input"} THEN NULL ELSE stream.at[p]
  BY <1>2, <1>8, <1>9, <1>10, RecycleAccounted
<1> HIDE DEF kept
<1>12. stream.at["stream"] \in Nat /\ "input" \in Pointers /\ kept \in Heaps
  BY <1>5, <1>7, <1>11, PointerNames DEF Accounted, Heaps
<1>13. /\ heap' \in Heaps
       /\ heap'.live = kept.live /\ heap'.mems = kept.mems /\ heap'.twice = kept.twice
       /\ heap'.next = kept.next
       /\ \A p \in Pointers : heap'.at[p] = IF p = "input" THEN stream.at["stream"] ELSE kept.at[p]
  BY <1>1, <1>12, SetFields
<1>14. \A p \in OwnAlways \cup Managed : heap'.at[p] = kept.at[p]
  BY <1>5, <1>13, PointerNames
<1>15. Named(heap', OwnAlways) = Named(kept, OwnAlways)
  BY <1>14 DEF Named
<1>16. Accounted(heap', OwnAlways)
  BY <1>11, <1>13, <1>14, <1>15 DEF Accounted
<1>17. BlocksInv'
  <2>1. heap'.at["image"] = NULL
    BY <1>11, <1>14, PointerNames DEF Managed, Recycled
  <2> QED  BY <1>3, <1>11, <1>13, <1>16, <2>1 DEF BlocksInv, Own, Aliased
<1>18. /\ \A p \in OwnAlways \ {"stream"} : heap'.at[p] = heap.at[p]
       /\ \A p \in WorkPointers : heap'.at[p] = NULL
       /\ heap'.at["input"] = heap'.at["stream"]
  <2>1. \A p \in OwnAlways : heap'.at[p] = stream.at[p]
    BY <1>5, <1>11, <1>14, PointerNames DEF Managed
  <2>2. \A p \in WorkPointers : heap'.at[p] = NULL
    BY <1>9, <1>11, <1>14, PointerNames DEF Managed, WorkPointers
  <2> QED  BY <1>5, <1>8, <1>12, <1>13, <2>1, <2>2
<1>19. PointersInv'
  BY <1>1, <1>2, <1>3, <1>18
     DEF IInv, HeapInv, PointersInv, loaderVars, OwnAlways, LoaderPointers, OpenCalls, After,
         WorkPointers, Failed
<1>20. TableInv'
  BY <1>1, <1>11, <1>13, FS_EmptySet DEF TableInv, After, ReducedCalls
<1> QED  BY <1>17, <1>19, <1>20 DEF HeapInv

LEMMA OpenInv ==
    ASSUME IInv, Open, UNCHANGED loaderVars
    PROVE  IInv' /\ told <= told'
<1> DEFINE r == [RecycledRaw EXCEPT !.flags = {OPEN}]
           h == [Recycle(New(heap, <<"stream">>)) EXCEPT !.at["input"] = New(heap, <<"stream">>).at["stream"]]
<1>1. call = "open" /\ Went(told, r, h, "identify") /\ r \in Raws /\ refused = FALSE
  <2>1. call = "open" /\ Step("open", r, h, "identify")
    BY DEF Open, Step
  <2>2. r \in Raws
    BY RecycledRaws, Numbers DEF Raws, IInv, ControlInv, PhaseInv
  <2> HIDE DEF r, h
  <2> QED  BY <2>1, <2>2, StepOutcome, Quiet DEF IInv
<1> HIDE DEF r, h
<1>2. /\ PhaseInv' /\ ResultInv' /\ told' \in OPEN..THUMB_LOAD
      /\ pc \notin {"start", "end", "returned", "crashed", "exited"}
  <2>1. ControlInv /\ told \in OPEN..THUMB_LOAD /\ Along("open", "identify")
    BY DEF IInv, ControlInv, ToldInv, Along, OpenCalls
  <2> QED  BY <1>1, <2>1, WentControl
<1>3. ToldInv'
  BY <1>1, <1>2 DEF ToldInv, Went, After, IInv, ControlInv, UnpackCalls
<1>4. PictureInv'
  BY <1>1, StillNoPicture DEF Went, PictureInv, FoundInv, ReducedInv, WholeInv, ReadyInv, MadeInv,
     After, UnpackCalls, ReducedCalls, WholeCalls, ReadyCalls
<1> QED  BY <1>1, <1>2, <1>3, <1>4, OpenHeap DEF IInv, ControlInv, Went

LEMMA FlagRaw ==
    ASSUME NEW r \in Raws, NEW stage \in OPEN..THUMB_LOAD
    PROVE  LET s == SetProcFlag(r, stage)
           IN  /\ s \in Raws
               /\ s.flags = r.flags \cup {stage} /\ s.inputInternal = r.inputInternal
               /\ s.size = r.size /\ s.shrink = r.shrink /\ s.fuji = r.fuji /\ s.area = r.area
               /\ s.mixGreen = r.mixGreen /\ s.colors = r.colors /\ s.filters = r.filters
               /\ s.half = r.half /\ s.threshold = r.threshold /\ s.terminate = r.terminate
               /\ s.made = r.made
BY DEF SetProcFlag, Raws

LEMMA FileTypes ==
    ASSUME IInv
    PROVE  /\ file \in PossibleFiles /\ raw \in Raws
           /\ file.colors \in {1, 3, 4} /\ file.filters \in BOOLEAN /\ file.fuji \in Nat
           /\ file.w \in Nat \ {0} /\ file.h \in Nat \ {0} /\ file.fuji < file.h
           /\ file.aspect.w \in Nat \ {0} /\ file.aspect.h \in Nat \ {0}
           /\ 1 \in {file.aspect.w, file.aspect.h}
BY LoaderAssumption DEF IInv, ControlInv, PhaseInv, PossibleFiles

\* What identify writes into the processor.
Identified ==
    [raw EXCEPT !.colors = file.colors, !.filters = file.filters, !.fuji = file.fuji,
                !.size = [NoPicture EXCEPT !.w = file.w, !.h = file.h]]

LEMMA IdentifyHeap ==
    ASSUME IInv, call = "identify", UNCHANGED loaderVars, NEW r, NEW h, Went(IDENTIFY, r, h, "adopt"),
           r.inputInternal = raw.inputInternal,
           h = IF file.profile THEN Malloc(heap, <<"profile">>) ELSE heap
    PROVE  HeapInv'
<1>1. pc = "opened" /\ Lost(heap) /\ raw.inputInternal = FALSE
  BY HeapLost DEF IInv, ControlInv, PhaseInv, HeapInv, PointersInv, OpenCalls, Raws
<1>2. Cardinality(heap.mems) <= 0 /\ Cardinality(heap.mems) \in Nat
  BY <1>1, FS_CardinalityType DEF IInv, HeapInv, TableInv, Lost, Kept, Accounted
<1>3. /\ Lost(h) /\ Cardinality(h.mems) <= 1
      /\ \A p \in Pointers \ Managed : h.at[p] = heap.at[p]
      /\ ~Aliased(h)
      /\ \A p \in WorkPointers : h.at[p] = NULL
  <2>1. ~Aliased(heap) /\ \A p \in WorkPointers : heap.at[p] = NULL
    BY DEF IInv, HeapInv, BlocksInv, PointersInv, Failed, WorkPointers
  <2>2. CASE ~file.profile
    BY <1>1, <1>2, <2>1, <2>2
  <2>3. CASE file.profile
    <3>1. "profile" \in Managed
      BY DEF Managed, Recycled
    <3>2. /\ Lost(h) /\ Cardinality(h.mems) <= 0 + 1
          /\ \A p \in Pointers \ {"profile"} : h.at[p] = heap.at[p]
      BY <1>1, <1>2, <2>3, <3>1, LostMallocOne
    <3>3. ~Aliased(h) /\ \A p \in WorkPointers : h.at[p] = NULL
      BY <2>1, <3>2, PointerNames DEF Aliased, Managed, Recycled, WorkPointers
    <3> QED  BY <3>1, <3>2, <3>3
  <2> QED  BY <2>2, <2>3
<1>4. heap' = h /\ raw' = r /\ call' = "adopt" /\ file' = file /\ ret' = "SUCCESS"
  BY DEF Went
<1>5. BlocksInv'
  BY <1>3, <1>4 DEF BlocksInv, Lost, Kept, Own
<1>6. \A p \in OwnAlways \cup {"input"} : heap'.at[p] = heap.at[p]
  BY <1>3, <1>4, PointerNames
<1>7. PointersInv'
  BY <1>1, <1>3, <1>4, <1>6
     DEF IInv, HeapInv, PointersInv, loaderVars, OwnAlways, LoaderPointers, OpenCalls, After,
         WorkPointers, Failed
<1>8. TableInv'
  BY <1>3, <1>4 DEF TableInv, After, ReducedCalls
<1> QED  BY <1>5, <1>7, <1>8 DEF HeapInv

LEMMA IdentifyInv ==
    ASSUME IInv, Identify, UNCHANGED loaderVars
    PROVE  IInv' /\ told <= told'
<1> DEFINE h == IF file.profile THEN Malloc(heap, <<"profile">>) ELSE heap
           r == SetProcFlag(Identified, IDENTIFY)
<1>1. call = "identify" /\ pc = "opened" /\ raw \in Raws /\ IDENTIFY \in OPEN..THUMB_LOAD
  BY Numbers DEF Identify, Stage, IInv, ControlInv, PhaseInv, OpenCalls
<1>2. Went(IDENTIFY, r, h, "adopt") \/ \E g \in {heap} \cup {heap} : Gave(g)
  <2>1. told <= IDENTIFY
    BY <1>1 DEF IInv, ControlInv, ToldInv
  <2>2. \A g : g \in {heap} \cup (IF file.profile THEN {heap} ELSE {}) => g \in {heap} \cup {heap}
    OBVIOUS
  <2>3. Stage("identify", IDENTIFY, {heap}, IF file.profile THEN {heap} ELSE {}, Identified, h, "adopt")
    BY DEF Identify, Identified
  <2> HIDE DEF h
  <2> QED  BY <1>1, <2>1, <2>2, <2>3, StageOutcome DEF IInv
<1>3. CASE \E g \in {heap} \cup {heap} : Gave(g)
  BY <1>1, <1>3, HeapLost, GaveInv DEF Gave
<1>4. CASE Went(IDENTIFY, r, h, "adopt")
  <2>1. /\ Identified \in Raws /\ Identified.inputInternal = raw.inputInternal
        /\ Identified.colors = file.colors /\ Identified.filters = file.filters
        /\ Identified.fuji = file.fuji
        /\ Identified.size.w = file.w /\ Identified.size.h = file.h
    <3> DEFINE size == [NoPicture EXCEPT !.w = file.w, !.h = file.h]
    <3>1. /\ size \in [w : Nat, h : Nat, iw : Nat, ih : Nat]
          /\ size.w = file.w /\ size.h = file.h
      <4>1. NoPicture \in [w : Nat, h : Nat, iw : Nat, ih : Nat]
        BY DEF NoPicture
      <4> QED  BY <4>1, FileTypes
    <3>2. Identified = [raw EXCEPT !.colors = file.colors, !.filters = file.filters,
                                   !.fuji = file.fuji, !.size = size]
      BY DEF Identified
    <3>3. file.colors \in 0..4 /\ file.filters \in BOOLEAN /\ file.fuji \in Nat
      BY FileTypes
    <3> HIDE DEF size
    <3> QED  BY <1>1, <3>1, <3>2, <3>3 DEF Raws
  <2>2. /\ r \in Raws /\ r.inputInternal = raw.inputInternal
        /\ r.colors = file.colors /\ r.filters = file.filters /\ r.fuji = file.fuji
        /\ r.size.w = file.w /\ r.size.h = file.h
    BY <1>1, <2>1, FlagRaw
  <2> HIDE DEF r
  <2>3. HeapInv'
    BY <1>1, <1>4, <2>2, IdentifyHeap
  <2> HIDE DEF h
  <2>4. refused = FALSE /\ ControlInv /\ Along("identify", "adopt")
    BY <1>1, Quiet DEF IInv, Along, OpenCalls
  <2>5. PhaseInv' /\ ResultInv' /\ told' \in OPEN..THUMB_LOAD
    BY <1>1, <1>4, <2>2, <2>4, WentControl
  <2>6. told' <= LOAD_RAW
    BY <1>1, <1>4 DEF Went, IInv, ControlInv, ToldInv, IDENTIFY, LOAD_RAW
  <2>7. ToldInv'
    BY <1>1, <1>4, <2>5, <2>6 DEF ToldInv, Went, After, loaderVars
  <2>8. PictureInv'
    BY <1>1, <1>4, <2>2, StillNoPicture DEF Went, PictureInv, FoundInv, ReducedInv, WholeInv,
       ReadyInv, MadeInv, After, UnpackCalls, ReducedCalls, WholeCalls, ReadyCalls
  <2> QED  BY <1>4, <2>3, <2>5, <2>7, <2>8 DEF IInv, ControlInv, Went
<1> QED  BY <1>2, <1>3, <1>4

(* The stream is the processor's input, and no more the client's.            *)
LEMMA AdoptAccounted ==
    ASSUME NEW h, Accounted(h, OwnAlways), h.at["input"] = h.at["stream"]
    PROVE  /\ Accounted(Forget(h, {"stream"}), OwnAlways \cup {"input"})
           /\ Forget(h, {"stream"}).mems = h.mems /\ Forget(h, {"stream"}).twice = h.twice
           /\ \A p \in Pointers : Forget(h, {"stream"}).at[p] = IF p = "stream" THEN NULL ELSE h.at[p]
<1> DEFINE g == Forget(h, {"stream"})
           own == OwnAlways \cup {"input"}
<1>1. /\ g \in Heaps /\ g.live = h.live /\ g.mems = h.mems /\ g.twice = h.twice /\ g.next = h.next
      /\ \A p \in Pointers : g.at[p] = IF p \in {"stream"} THEN NULL ELSE h.at[p]
  BY ForgetFields DEF Accounted
<1> HIDE DEF g
<1>2. /\ g.at["stream"] = NULL /\ g.at["input"] = h.at["stream"] /\ "stream" \in OwnAlways
      /\ \A p \in OwnAlways \ {"stream"} : g.at[p] = h.at[p]
      /\ \A p \in Managed : g.at[p] = h.at[p]
  BY <1>1, PointerNames DEF OwnAlways
<1>3. Named(g, own) = Named(h, OwnAlways)
  <2>1. \A b \in Named(g, own) : b \in Named(h, OwnAlways)
    BY <1>2 DEF Named
  <2>2. \A b \in Named(h, OwnAlways) : b \in Named(g, own)
    BY <1>2 DEF Named
  <2> QED  BY <2>1, <2>2
<1>4. \A p, q \in own : g.at[p] = g.at[q] /\ g.at[p] # NULL => p = q
  BY <1>2 DEF Accounted
<1>5. /\ \A p \in Managed : g.at[p] \in g.mems \cup {NULL}
      /\ \A p, q \in Managed : g.at[p] = g.at[q] /\ g.at[p] # NULL =>
             p = q \/ {p, q} = {"image", "raw_alloc"}
  BY <1>1, <1>2 DEF Accounted
<1>6. /\ g.next > 0 /\ IsFiniteSet(g.mems)
      /\ \A b \in g.live : 0 < b /\ b < g.next
      /\ g.live = g.mems \cup Named(g, own) /\ g.mems \cap Named(g, own) = {}
  BY <1>1, <1>3 DEF Accounted
<1> HIDE DEF own
<1>7. Accounted(g, own)
  BY <1>1, <1>4, <1>5, <1>6 DEF Accounted
<1> QED  BY <1>1, <1>7 DEF g, own

LEMMA InnerTypes ==
    ASSUME NEW r \in Raws
    PROVE  /\ InnerSize(r) \in [w : Nat, h : Nat, iw : Nat, ih : Nat]
           /\ InnerSize(r).w = r.size.w /\ InnerSize(r).h = r.size.h
           /\ InnerSize(r).iw = IF Shrinks(r) THEN Half(r.size.w) ELSE r.size.w
           /\ InnerSize(r).ih = IF Shrinks(r) THEN Half(r.size.h) ELSE r.size.h
           /\ Shrinks(r) \in BOOLEAN
<1>1. /\ r.size \in [w : Nat, h : Nat, iw : Nat, ih : Nat]
      /\ Half(r.size.w) \in Nat /\ Half(r.size.h) \in Nat
  BY DEF Raws, Half
<1>2. Shrinks(r) \in BOOLEAN
  BY DEF Shrinks
<1>3. CASE Shrinks(r)
  BY <1>1, <1>2, <1>3 DEF InnerSize
<1>4. CASE ~Shrinks(r)
  BY <1>1, <1>2, <1>4 DEF InnerSize
<1> QED  BY <1>3, <1>4

\* What the end of open_datastream makes of the processor.
Adopted ==
    [SetProcFlag(raw, SIZE_ADJUST) EXCEPT
        !.shrink = Shrinks(raw), !.size = InnerSize(raw), !.inputInternal = TRUE]

LEMMA AdoptHeap ==
    ASSUME IInv, call = "adopt", UNCHANGED loaderVars, NEW r,
           Went(told, r, Forget(heap, {"stream"}), "idle"), r.inputInternal = TRUE
    PROVE  HeapInv'
<1> DEFINE h == Forget(heap, {"stream"})
<1>1. /\ pc = "opened" /\ Lost(heap) /\ raw.inputInternal = FALSE
      /\ heap.at["input"] = heap.at["stream"]
  BY HeapLost DEF IInv, ControlInv, PhaseInv, HeapInv, PointersInv, OpenCalls, Raws
<1>2. Accounted(heap, OwnAlways)
  BY <1>1 DEF Lost, Kept, Own
<1>3. /\ Accounted(h, OwnAlways \cup {"input"})
      /\ h.mems = heap.mems /\ h.twice = heap.twice
      /\ \A p \in Pointers : h.at[p] = IF p = "stream" THEN NULL ELSE heap.at[p]
  BY <1>1, <1>2, AdoptAccounted
<1> HIDE DEF h
<1>4. heap' = h /\ raw' = r /\ call' = "idle" /\ file' = file /\ ret' = "SUCCESS"
  BY DEF Went, h
<1>5. ~Aliased(h) /\ \A p \in WorkPointers : h.at[p] = NULL
  <2>1. ~Aliased(heap) /\ \A p \in WorkPointers : heap.at[p] = NULL
    BY <1>1 DEF IInv, HeapInv, BlocksInv, PointersInv, Failed, WorkPointers
  <2> QED  BY <1>3, <2>1, PointerNames DEF Aliased, Managed, Recycled, WorkPointers
<1>6. BlocksInv'
  BY <1>1, <1>3, <1>4, <1>5 DEF BlocksInv, Lost, Kept, Own
<1>7. /\ \A p \in OwnAlways \ {"stream"} : heap'.at[p] = heap.at[p]
      /\ heap'.at["stream"] = NULL
  BY <1>3, <1>4, PointerNames DEF OwnAlways
<1>8. PointersInv'
  BY <1>1, <1>4, <1>5, <1>7
     DEF IInv, HeapInv, PointersInv, loaderVars, OwnAlways, LoaderPointers, OpenCalls, After,
         WorkPointers, Failed
<1>9. TableInv'
  BY <1>1, <1>3, <1>4 DEF IInv, HeapInv, TableInv, After, ReducedCalls, loaderVars
<1> QED  BY <1>6, <1>8, <1>9 DEF HeapInv

LEMMA AdoptInv ==
    ASSUME IInv, Adopt, UNCHANGED loaderVars
    PROVE  IInv' /\ told <= told'
<1> DEFINE h == Forget(heap, {"stream"})
<1>1. /\ call = "adopt" /\ pc = "opened" /\ raw \in Raws /\ SIZE_ADJUST \in OPEN..THUMB_LOAD
      /\ told \in OPEN..THUMB_LOAD /\ told <= told
  BY Numbers DEF Adopt, Step, IInv, ControlInv, PhaseInv, ToldInv, OpenCalls
<1>2. CASE ~file.supported
  <2>1. Quit /\ call' = "open_fails" /\ told' = told
    BY <1>2 DEF Adopt, Quit
  <2> QED  BY <1>1, <2>1, QuitInv
<1>3. CASE file.supported
  <2>1. Went(told, Adopted, h, "idle")
    <3>1. Step("adopt", Adopted, h, "idle")
      BY <1>3 DEF Adopt, Adopted
    <3> QED  BY <3>1, StepOutcome DEF IInv
  <2>2. /\ Adopted \in Raws /\ Adopted.inputInternal = TRUE
        /\ Adopted.size.w = raw.size.w /\ Adopted.size.h = raw.size.h
        /\ Adopted.colors = raw.colors /\ Adopted.filters = raw.filters /\ Adopted.fuji = raw.fuji
    <3> DEFINE r == SetProcFlag(raw, SIZE_ADJUST)
               size == InnerSize(raw)
               shrink == Shrinks(raw)
    <3>1. r \in Raws /\ r.colors = raw.colors /\ r.filters = raw.filters /\ r.fuji = raw.fuji
      BY <1>1, FlagRaw
    <3>2. /\ size \in [w : Nat, h : Nat, iw : Nat, ih : Nat] /\ shrink \in BOOLEAN
          /\ size.w = raw.size.w /\ size.h = raw.size.h
      BY <1>1, InnerTypes
    <3>3. Adopted = [r EXCEPT !.shrink = shrink, !.size = size, !.inputInternal = TRUE]
      BY DEF Adopted
    <3> HIDE DEF r, size, shrink
    <3> QED  BY <3>1, <3>2, <3>3 DEF Raws
  <2>3. HeapInv'
    BY <1>1, <2>1, <2>2, AdoptHeap
  <2> HIDE DEF h
  <2>4. refused = FALSE /\ ControlInv /\ Along("adopt", "idle")
    BY <1>1, Quiet DEF IInv, Along
  <2>5. PhaseInv' /\ ResultInv' /\ told' \in OPEN..THUMB_LOAD
    BY <1>1, <2>1, <2>2, <2>4, WentControl
  <2>6. ToldInv'
    <3>1. told' <= LOAD_RAW
      BY <1>1, <2>1 DEF Went, IInv, ControlInv, ToldInv
    <3> QED  BY <1>1, <2>1, <2>5, <3>1 DEF ToldInv, Went, After, loaderVars, UnpackCalls
  <2>7. PictureInv'
    BY <1>1, <2>1, <2>2, StillNoPicture DEF Went, PictureInv, FoundInv, ReducedInv, WholeInv,
       ReadyInv, MadeInv, After, UnpackCalls, ReducedCalls, WholeCalls, ReadyCalls, IInv, loaderVars
  <2> QED  BY <2>1, <2>3, <2>5, <2>6, <2>7 DEF IInv, ControlInv, Went
<1> QED  BY <1>2, <1>3

LEMMA OpenFailsInv ==
    ASSUME IInv, OpenFails, UNCHANGED loaderVars
    PROVE  IInv' /\ told <= told'
<1> DEFINE h == Free(heap, {"stream"})
<1>1. /\ call = "open_fails" /\ call' = "idle" /\ ret' = ret /\ heap' = h
      /\ raw' = [raw EXCEPT !.inputInternal = FALSE]
      /\ UNCHANGED <<file, told, refused, pending>>
  BY DEF OpenFails, Return
<1>2. /\ pc = "opened" /\ raw \in Raws /\ raw.inputInternal = FALSE /\ ret # "SUCCESS"
      /\ handed = Nothing /\ told <= told
  BY <1>1, Numbers
     DEF IInv, ControlInv, PhaseInv, ResultInv, ToldInv, HeapInv, PointersInv, OpenCalls, Raws
<1>3. raw' \in Raws /\ raw'.inputInternal = FALSE /\ raw'.made = raw.made /\ raw'.half = raw.half
  BY <1>1, <1>2 DEF Raws
<1>4. PhaseInv'
  BY <1>1, <1>2, <1>3 DEF IInv, ControlInv, PhaseInv, loaderVars, OpenCalls, UnpackCalls,
     ProcessCalls, ReducedCalls, WholeCalls, ReadyCalls, Stages
<1>5. ResultInv' /\ ToldInv'
  BY <1>1, <1>2 DEF IInv, ControlInv, ResultInv, ToldInv, Failed, After, loaderVars, UnpackCalls
<1>6. HeapInv'
  <2>1. Accounted(heap, OwnAlways)
    BY <1>2 DEF IInv, HeapInv, BlocksInv, Own
  <2> DEFINE ps == {"stream"}
  <2>2. ps \in SUBSET (OwnAlways \cup Managed) /\ "image" \notin ps /\ "raw_alloc" \notin ps
    BY DEF OwnAlways
  <2>3. /\ Accounted(h, OwnAlways) /\ h.twice = heap.twice
        /\ \A p \in Pointers : h.at[p] = IF p \in {"stream"} THEN NULL ELSE heap.at[p]
    <3>1. OwnAlways \in SUBSET Pointers /\ OwnAlways \cap Managed = {}
      BY PointerNames
    <3> HIDE DEF ps
    <3>2. /\ Accounted(Free(heap, ps), OwnAlways) /\ Free(heap, ps).twice = heap.twice
          /\ \A p \in Pointers : Free(heap, ps).at[p] = IF p \in ps THEN NULL ELSE heap.at[p]
      BY <2>1, <2>2, <3>1, FreeAccounted
    <3> QED  BY <3>2 DEF ps
  <2> HIDE DEF h
  <2>4. Aliased(h) => Aliased(heap)
    BY <2>3, PointerNames DEF Aliased, Managed, Recycled
  <2>5. BlocksInv'
    BY <1>1, <1>2, <1>3, <2>3, <2>4 DEF IInv, HeapInv, BlocksInv, Own, Failed
  <2>6. /\ \A p \in OwnAlways \ {"stream"} : heap'.at[p] = heap.at[p]
        /\ heap'.at["stream"] = NULL
        /\ \A p \in WorkPointers : heap'.at[p] = NULL
    <3>1. \A p \in WorkPointers : p \in Pointers /\ heap.at[p] = NULL
      BY <1>1, PointerNames DEF IInv, HeapInv, PointersInv, WorkPointers, Managed
    <3> QED  BY <1>1, <2>3, <3>1, PointerNames DEF OwnAlways
  <2>7. PointersInv'
    BY <1>1, <1>2, <1>3, <2>6
       DEF IInv, HeapInv, PointersInv, loaderVars, OwnAlways, LoaderPointers, OpenCalls, After,
           WorkPointers, Failed
  <2>8. TableInv'
    BY <1>1, <1>2 DEF TableInv, After, ReducedCalls
  <2> QED  BY <2>5, <2>7, <2>8 DEF HeapInv
<1>7. PictureInv'
  BY <1>1, <1>2 DEF PictureInv, FoundInv, ReducedInv, WholeInv, ReadyInv, MadeInv, PictureIsWhole,
     After, UnpackCalls, ReducedCalls, WholeCalls, ReadyCalls, loaderVars, Nothing
<1> QED  BY <1>1, <1>2, <1>4, <1>5, <1>6, <1>7 DEF IInv, ControlInv
-----------------------------------------------------------------------------
(* unpack.                                                                   *)

(* What is left to show of a stage that goes on.                             *)
LEMMA StageInv ==
    ASSUME IInv, call \in UnpackCalls \cup ProcessCalls \cup {"unpack_thumb"}, refused = FALSE,
           UNCHANGED loaderVars,
           NEW most \in OPEN..THUMB_LOAD, NEW r \in Raws, NEW h, NEW next, Went(most, r, h, next),
           next \notin OpenCalls, Along(call, next),
           r.inputInternal = raw.inputInternal, Lost(h), h.at["buffer"] = NULL,
           Aliased(h) => next \in {"load_raw", "unpacked"},
           \A p \in WorkPointers : h.at[p] # NULL => p = "work1" /\ next = "ahd_rows",
           told' \in OPEN..THUMB_LOAD => ToldInv',
           TableInv', FoundInv', ReducedInv', WholeInv', ReadyInv'
    PROVE  IInv' /\ told <= told'
<1>1. /\ pc \in {"unpacked", "processed", "thumb_unpacked"}
      /\ call \notin {"idle", "open_fails"}
  BY DEF IInv, ControlInv, PhaseInv, UnpackCalls, ProcessCalls, ReducedCalls, WholeCalls, ReadyCalls
<1>2. /\ PhaseInv' /\ ResultInv' /\ told' \in OPEN..THUMB_LOAD
  BY <1>1, WentControl DEF IInv
<1>3. BlocksInv' /\ PointersInv'
  BY WentHeap
<1>4. MadeInv'
  BY <1>1, StillNoPicture DEF MadeInv, After, loaderVars
<1> QED  BY <1>2, <1>3, <1>4 DEF IInv, ControlInv, HeapInv, PictureInv, Went

LEMMA AliasLost ==
    ASSUME NEW h, Lost(h), file.decoder = CanonSraw
    PROVE  LET g == [h EXCEPT !.at["image"] = h.at["raw_alloc"]]
           IN  /\ Lost(g) /\ g.mems = h.mems
               /\ \A p \in Pointers \ {"image"} : g.at[p] = h.at[p]
<1> DEFINE g == [h EXCEPT !.at["image"] = h.at["raw_alloc"]]
           own == Own(raw)
<1>1. Accounted(h, own) /\ h \in Heaps /\ h.at["raw_alloc"] \in Nat
  BY PointerNames DEF Lost, Kept, Accounted, Heaps, Managed, Recycled
<1>2. "image" \in Managed /\ "raw_alloc" \in Managed /\ "image" \in Pointers
  BY PointerNames DEF Managed, Recycled
<1>3. /\ g \in Heaps
      /\ g.live = h.live /\ g.mems = h.mems /\ g.twice = h.twice /\ g.next = h.next
      /\ \A p \in Pointers : g.at[p] = IF p = "image" THEN h.at["raw_alloc"] ELSE h.at[p]
  BY <1>1, <1>2, SetFields
<1> HIDE DEF g
<1>4. \A p \in own : g.at[p] = h.at[p]
  BY <1>2, <1>3, OwnPointers
<1>5. Named(g, own) = Named(h, own)
  BY <1>4 DEF Named
<1>6. \A p \in Managed : g.at[p] = IF p = "image" THEN h.at["raw_alloc"] ELSE h.at[p]
  BY <1>3, PointerNames
<1>7. /\ \A p \in Managed : g.at[p] \in g.mems \cup {NULL}
      /\ \A p, q \in Managed : g.at[p] = g.at[q] /\ g.at[p] # NULL =>
             p = q \/ {p, q} = {"image", "raw_alloc"}
  <2>1. \A p \in Managed : h.at[p] = h.at["raw_alloc"] /\ h.at[p] # NULL => p \in {"image", "raw_alloc"}
    BY <1>1, <1>2 DEF Accounted
  <2> QED  BY <1>1, <1>2, <1>3, <1>6, <2>1 DEF Accounted
<1>8. Accounted(g, own)
  <2> HIDE DEF own
  <2> QED  BY <1>1, <1>3, <1>4, <1>5, <1>7 DEF Accounted
<1>9. \A p \in OwnAlways : g.at[p] = h.at[p]
  BY <1>2, <1>3, PointerNames
<1>10. Lost(g)
  BY <1>3, <1>8, <1>9 DEF Lost, Kept, OwnAlways
<1> QED  BY <1>3, <1>10 DEF g

LEMMA Layouts ==
    ASSUME IInv
    PROVE  /\ DecoderLayout = "legacy" <=> file.decoder = CanonSraw
           /\ file.decoder.blocks \in {<<>>, <<"work1">>, <<"work1", "work2">>, <<"work1", "ph1_black">>}
<1>1. file.decoder \in Decoders
  BY FileTypes DEF PossibleFiles
<1>2. DecoderLayout = "legacy" <=> file.decoder.layout = "legacy"
  BY DEF DecoderLayout
<1>3. CanonSraw.layout = "legacy" /\ CanonSraw.blocks = <<"work1">>
  BY DEF CanonSraw
<1>4. CASE file.decoder # CanonSraw
  <2>1. file.decoder \in {LosslessJpeg, AdobeDngLj, AdobeDngNc, Pentax, Nikon, PhaseOneC, FujiLoadRaw}
    BY <1>1, <1>4 DEF Decoders
  <2>2. \A d \in {LosslessJpeg, AdobeDngLj, AdobeDngNc, Pentax, Nikon, PhaseOneC, FujiLoadRaw} :
           /\ d.layout \in {"flatfield", "either"}
           /\ d.blocks \in {<<>>, <<"work1">>, <<"work1", "work2">>, <<"work1", "ph1_black">>}
    BY DEF LosslessJpeg, AdobeDngLj, AdobeDngNc, Pentax, Nikon, PhaseOneC, FujiLoadRaw
  <2>3. file.decoder.layout # "legacy"
    BY <2>1, <2>2
  <2> QED  BY <1>2, <1>4, <2>1, <2>2, <2>3
<1> QED  BY <1>2, <1>3, <1>4

LEMMA RawAllocatedLost ==
    ASSUME IInv, call = "unpack"
    PROVE  /\ Lost(RawAllocated) /\ Cardinality(RawAllocated.mems) <= 3
           /\ \A p \in WorkPointers \cup {"buffer"} : RawAllocated.at[p] = NULL
<1> DEFINE m == IF file.metadata THEN Malloc(heap, <<"meta_data">>) ELSE heap
           a == Malloc(m, <<"raw_alloc">>)
<1>1. /\ Lost(heap) /\ Cardinality(heap.mems) <= 1 /\ Cardinality(heap.mems) \in Nat
      /\ \A p \in WorkPointers \cup {"buffer"} : heap.at[p] = NULL
  BY HeapLost, FS_CardinalityType
     DEF IInv, HeapInv, TableInv, PointersInv, Lost, Kept, Accounted, WorkPointers, Failed
<1>2. {"meta_data", "raw_alloc"} \subseteq Managed
  BY DEF Managed, Recycled
<1>3. /\ Lost(m) /\ Cardinality(m.mems) <= 2
      /\ \A p \in Pointers \ {"meta_data"} : m.at[p] = heap.at[p]
  <2>1. CASE file.metadata
    <3>1. /\ Lost(Malloc(heap, <<"meta_data">>)) /\ Cardinality(Malloc(heap, <<"meta_data">>).mems) <= 1 + 1
          /\ \A p \in Pointers \ {"meta_data"} : Malloc(heap, <<"meta_data">>).at[p] = heap.at[p]
      BY <1>1, <1>2, LostMallocOne
    <3> QED  BY <2>1, <3>1
  <2>2. CASE ~file.metadata
    BY <1>1, <2>2
  <2> QED  BY <2>1, <2>2
<1> HIDE DEF m
<1>4. /\ Lost(a) /\ Cardinality(a.mems) <= 2 + 1
      /\ \A p \in Pointers \ {"raw_alloc"} : a.at[p] = m.at[p]
  BY <1>2, <1>3, LostMallocOne
<1>5. RawAllocated = IF DecoderLayout = "legacy" THEN [a EXCEPT !.at["image"] = a.at["raw_alloc"]] ELSE a
  BY DEF RawAllocated, m
<1> HIDE DEF a
<1>6. /\ Lost(RawAllocated) /\ RawAllocated.mems = a.mems
      /\ \A p \in Pointers \ {"image"} : RawAllocated.at[p] = a.at[p]
  <2>1. CASE DecoderLayout = "legacy"
    BY <1>4, <1>5, <2>1, Layouts, AliasLost
  <2>2. CASE DecoderLayout # "legacy"
    BY <1>4, <1>5, <2>2
  <2> QED  BY <2>1, <2>2
<1>7. /\ WorkPointers \cup {"buffer"} \subseteq Pointers
      /\ {"meta_data", "raw_alloc", "image"} \cap (WorkPointers \cup {"buffer"}) = {}
  BY PointerNames DEF WorkPointers, Managed, OwnAlways
<1> QED  BY <1>1, <1>3, <1>4, <1>6, <1>7

LEMMA UnpackInv ==
    ASSUME IInv, Unpack, UNCHANGED loaderVars
    PROVE  IInv' /\ told <= told'
<1>1. /\ call = "unpack" /\ pc = "unpacked" /\ LOAD_RAW \in OPEN..THUMB_LOAD /\ told <= LOAD_RAW
      /\ told \in OPEN..THUMB_LOAD /\ told <= told /\ refused = FALSE /\ ret = "SUCCESS"
  <2>1. call = "unpack"
    BY DEF Unpack, Refuse
  <2> QED  BY <2>1, Numbers, Quiet DEF IInv, ControlInv, PhaseInv, ToldInv, UnpackCalls
<1>2. CASE Refuse("unpack", "OUT_OF_ORDER_CALL")
  BY <1>1, <1>2, RefuseOutcome, QuitInv DEF Quit, Refuse, Return
<1>3. CASE Gave(heap)
  BY <1>1, <1>3, HeapLost, GaveInv DEF Gave
<1>4. CASE Went(LOAD_RAW, raw, RawAllocated, "load_raw")
  <2>1. /\ Lost(RawAllocated) /\ Cardinality(RawAllocated.mems) <= 3
        /\ \A p \in WorkPointers : RawAllocated.at[p] = NULL
        /\ RawAllocated.at["buffer"] = NULL
    BY <1>1, RawAllocatedLost
  <2>2. TableInv'
    BY <1>4, <2>1 DEF TableInv, After, Went, ReducedCalls
  <2>3. told' \in OPEN..THUMB_LOAD => ToldInv'
    BY <1>1, <1>4 DEF ToldInv, After, Went, UnpackCalls, loaderVars
  <2>4. FoundInv' /\ ReducedInv' /\ WholeInv' /\ ReadyInv'
    BY <1>1, <1>4 DEF IInv, PictureInv, FoundInv, ReducedInv, WholeInv, ReadyInv, After, Went,
       UnpackCalls, ReducedCalls, WholeCalls, ReadyCalls
  <2>5. /\ raw \in Raws /\ call \in UnpackCalls /\ "load_raw" \notin OpenCalls
        /\ Along(call, "load_raw")
    BY <1>1 DEF IInv, ControlInv, PhaseInv, UnpackCalls, OpenCalls, Along
  <2> QED  BY <1>1, <1>4, <2>1, <2>2, <2>3, <2>4, <2>5, StageInv
<1>5. Refuse("unpack", "OUT_OF_ORDER_CALL") \/ Gave(heap) \/ Went(LOAD_RAW, raw, RawAllocated, "load_raw")
  <2>1. CASE Answer(LOAD_RAW, TRUE) /\ heap' = RawAllocated /\ call' = "load_raw" /\ UNCHANGED <<raw, ret, file>>
    BY <1>1, <2>1, Answered DEF Went, IInv
  <2>2. CASE Answer(LOAD_RAW, FALSE) /\ Throw("CANCELLED", heap) /\ UNCHANGED file
    BY <1>1, <2>2, Answered, ThrowOutcome DEF IInv
  <2>3. CASE Answer(LOAD_RAW, TRUE) /\ Throw("ALLOC", heap) /\ UNCHANGED file
    <3>1. told <= told' /\ told' \in OPEN..THUMB_LOAD /\ refused' = FALSE /\ pending' = pending
      BY <1>1, <2>3, Answered DEF IInv
    <3>2. pending = "none"
      BY <1>1, Quiet DEF IInv
    <3> QED  BY <2>3, <3>1, <3>2, ThrowOutcome DEF IInv
  <2> QED  BY <2>1, <2>2, <2>3 DEF Unpack
<1> QED  BY <1>2, <1>3, <1>4, <1>5

LEMMA DecodingLost ==
    ASSUME IInv, call = "load_raw"
    PROVE  /\ Lost(Decoding) /\ Cardinality(Decoding.mems) <= 5
           /\ \A p \in Pointers \ {"work1", "work2", "ph1_black"} : Decoding.at[p] = heap.at[p]
<1> DEFINE ps == file.decoder.blocks
<1>1. /\ Lost(heap) /\ Cardinality(heap.mems) <= 3 /\ Cardinality(heap.mems) \in Nat
  BY HeapLost, FS_CardinalityType DEF IInv, HeapInv, TableInv, Lost, Kept, Accounted
<1>2. {"work1", "work2", "ph1_black"} \subseteq Managed
  BY DEF Managed, Recycled
<1>3. CASE ps = <<>>
  <2>1. /\ ps \in Seq(Pointers) /\ Distinct(ps) /\ Len(ps) = 0 /\ ToSet(ps) = {}
    BY <1>3 DEF Distinct, ToSet
  <2>2. Cardinality(heap.mems) + Len(ps) <= MSIZE
    BY <1>1, <2>1, LibRawAssumption, HeapAssumption
  <2>3. ~({"image", "raw_alloc"} \subseteq ToSet(ps)) /\ ToSet(ps) \subseteq Managed
    BY <2>1
  <2> HIDE DEF ps
  <2>4. /\ Lost(Malloc(heap, ps)) /\ Cardinality(Malloc(heap, ps).mems) = Cardinality(heap.mems) + Len(ps)
        /\ \A p \in Pointers \ ToSet(ps) : Malloc(heap, ps).at[p] = heap.at[p]
    BY <1>1, <2>1, <2>2, <2>3, LostMalloc
  <2> QED  BY <1>1, <2>1, <2>4 DEF Decoding, ps
<1>4. CASE ps = <<"work1">>
  <2>1. /\ Lost(Malloc(heap, <<"work1">>)) /\ Cardinality(Malloc(heap, <<"work1">>).mems) <= 3 + 1
        /\ \A p \in Pointers \ {"work1"} : Malloc(heap, <<"work1">>).at[p] = heap.at[p]
    BY <1>1, <1>2, LostMallocOne
  <2>2. Decoding = Malloc(heap, <<"work1">>)
    BY <1>4 DEF Decoding
  <2>3. Cardinality(Decoding.mems) \in Nat
    BY <2>1, <2>2, FS_CardinalityType DEF Lost, Kept, Accounted
  <2> QED  BY <2>1, <2>2, <2>3
<1>5. ASSUME NEW q \in {"work2", "ph1_black"}, ps = <<"work1", q>>
      PROVE  /\ Lost(Decoding) /\ Cardinality(Decoding.mems) <= 5
             /\ \A p \in Pointers \ {"work1", "work2", "ph1_black"} : Decoding.at[p] = heap.at[p]
  <2> DEFINE w == "work1"
  <2>1. w \in Managed /\ q \in Managed /\ w # q /\ w \notin {"image", "raw_alloc"}
    BY <1>2
  <2> HIDE DEF w
  <2>2. {w, q} # {"image", "raw_alloc"} /\ 3 \in 0..10
    BY <2>1
  <2>3. /\ Lost(Malloc(heap, <<w, q>>)) /\ Cardinality(Malloc(heap, <<w, q>>).mems) <= 3 + 2
        /\ \A x \in Pointers \ {w, q} : Malloc(heap, <<w, q>>).at[x] = heap.at[x]
    BY <1>1, <2>1, <2>2, LostMallocTwo
  <2>4. Decoding = Malloc(heap, <<w, q>>)
    BY <1>5 DEF Decoding, w
  <2> QED  BY <1>5, <2>3, <2>4 DEF w
<1> QED  BY <1>3, <1>4, <1>5, Layouts

LEMMA ReadingKept ==
    ASSUME IInv, call = "load_raw"
    PROVE  /\ Kept(Reading) /\ Reading.mems = Decoding.mems
           /\ \A p \in Pointers \ {"buffer"} : Reading.at[p] = Decoding.at[p]
<1> DEFINE d == Decoding
           own == Own(raw)
           ps == <<"buffer">>
<1>1. Lost(d) /\ \A p \in Pointers \ {"work1", "work2", "ph1_black"} : d.at[p] = heap.at[p]
  BY DecodingLost
<1>2. "buffer" \in own /\ "buffer" \in OwnAlways /\ own \in SUBSET Pointers /\ own \cap Managed = {}
  BY OwnPointers DEF Own, OwnAlways
<1>3. d.at["buffer"] = NULL
  BY <1>1, <1>2 DEF IInv, HeapInv, PointersInv, Failed
<1>4. ps \in Seq(Pointers) /\ Distinct(ps) /\ Len(ps) = 1 /\ ToSet(ps) = {"buffer"}
  BY <1>2, OneName
<1>5. Accounted(d, own) /\ d \in Heaps
  BY <1>1 DEF Lost, Kept, Accounted
<1>6. Reading = IF file.decoder.buffer THEN New(d, ps) ELSE d
  BY DEF Reading
<1> HIDE DEF d, own, ps
<1>7. Accounted(New(d, ps), own)
  BY <1>2, <1>3, <1>4, <1>5, NewAccounted
<1>8. /\ New(d, ps).mems = d.mems /\ New(d, ps).twice = d.twice
      /\ \A p \in Pointers \ {"buffer"} : New(d, ps).at[p] = d.at[p]
  BY <1>4, <1>5, NewBlocks
<1>9. Kept(New(d, ps))
  <2>1. {"image", "raw_alloc"} \subseteq Pointers \ {"buffer"} /\ OwnAlways \subseteq Pointers
    BY PointerNames DEF Managed, Recycled
  <2> QED  BY <1>1, <1>7, <1>8, <2>1 DEF Lost, Kept, Aliased, own
<1>10. CASE file.decoder.buffer
  BY <1>6, <1>8, <1>9, <1>10 DEF d
<1>11. CASE ~file.decoder.buffer
  BY <1>1, <1>6, <1>11 DEF d, Lost
<1> QED  BY <1>10, <1>11

LEMMA LoadRawInv ==
    ASSUME IInv, LoadRaw, UNCHANGED loaderVars
    PROVE  IInv' /\ told <= told'
<1> DEFINE h == Free(Reading, {"buffer", "work1", "work2"})
<1>1. call = "load_raw" /\ pc = "unpacked" /\ refused = FALSE /\ told \in OPEN..THUMB_LOAD
  <2>1. call = "load_raw"
    BY DEF LoadRaw, Step
  <2> QED  BY <2>1, Quiet DEF IInv, ControlInv, PhaseInv, UnpackCalls
<1>2. Lost(heap) /\ Lost(Decoding) /\ (~file.intact => Lost(Reading))
  BY <1>1, HeapLost, DecodingLost, ReadingKept DEF Lost
<1>3. CASE file.intact /\ Step("load_raw", raw, h, "unpacked")
  <2>1. Went(told, raw, h, "unpacked")
    BY <1>3, StepOutcome DEF IInv
  <2>2. /\ Lost(h) /\ Cardinality(h.mems) <= 5
        /\ \A p \in WorkPointers \cup {"buffer"} : h.at[p] = NULL
    <3> DEFINE ps == {"buffer", "work1", "work2"}
    <3>1. ps \in SUBSET (Managed \cup {"buffer"}) /\ "image" \notin ps /\ "raw_alloc" \notin ps /\ "buffer" \in ps
      BY DEF Managed
    <3>2. Kept(Reading)
      BY <1>1, ReadingKept
    <3> HIDE DEF ps
    <3>3. /\ Lost(Free(Reading, ps)) /\ Cardinality(Free(Reading, ps).mems) <= Cardinality(Reading.mems)
          /\ \A p \in Pointers : Free(Reading, ps).at[p] = IF p \in ps THEN NULL ELSE Reading.at[p]
      BY <3>1, <3>2, LostFree
    <3>4. h = Free(Reading, ps)
      BY DEF ps
    <3>5. Cardinality(h.mems) \in Nat /\ Cardinality(Reading.mems) \in Nat
      BY <3>2, <3>3, <3>4, FS_CardinalityType DEF Lost, Kept, Accounted
    <3>6. Cardinality(h.mems) <= 5
      BY <1>1, <3>3, <3>4, <3>5, DecodingLost, ReadingKept
    <3>7. heap.at["img"] = NULL /\ {"img", "work1", "work2", "buffer"} \subseteq Pointers
      BY <1>1, PointerNames DEF IInv, HeapInv, PointersInv, Managed, OwnAlways
    <3>8. h.at["img"] = NULL
      BY <1>1, <3>3, <3>4, <3>7, DecodingLost, ReadingKept DEF ps
    <3> QED  BY <3>3, <3>4, <3>6, <3>7, <3>8 DEF ps, WorkPointers
  <2> HIDE DEF h
  <2>3. TableInv'
    BY <2>1, <2>2 DEF TableInv, After, Went, ReducedCalls
  <2>4. told' \in OPEN..THUMB_LOAD => ToldInv'
    BY <1>1, <2>1 DEF IInv, ControlInv, ToldInv, After, Went, UnpackCalls, loaderVars
  <2>5. FoundInv' /\ ReducedInv' /\ WholeInv' /\ ReadyInv'
    BY <1>1, <2>1 DEF IInv, PictureInv, FoundInv, ReducedInv, WholeInv, ReadyInv, After, Went,
       UnpackCalls, ReducedCalls, WholeCalls, ReadyCalls
  <2>6. /\ raw \in Raws /\ call \in UnpackCalls /\ "unpacked" \notin OpenCalls
        /\ Along(call, "unpacked")
    BY <1>1 DEF IInv, ControlInv, PhaseInv, UnpackCalls, OpenCalls, Along
  <2>7. h.at["buffer"] = NULL /\ (Aliased(h) => "unpacked" \in {"load_raw", "unpacked"})
    BY <2>2
  <2>8. \A p \in WorkPointers : h.at[p] # NULL => p = "work1" /\ "unpacked" = "ahd_rows"
    BY <2>2
  <2> QED  BY <1>1, <2>1, <2>2, <2>3, <2>4, <2>5, <2>6, <2>7, <2>8, StageInv
<1>4. CASE \E g : Gave(g) /\ Lost(g)
  BY <1>1, <1>4, GaveInv DEF Gave
<1>5. ASSUME NEW e, NEW g, Throw(e, g), Lost(g), UNCHANGED <<file, told, refused, pending>>
      PROVE  Gave(g) /\ Lost(g)
  BY <1>1, <1>5, ThrowQuietly DEF IInv
<1> QED  BY <1>2, <1>3, <1>4, <1>5 DEF LoadRaw

LEMMA UnpackedInv ==
    ASSUME IInv, Unpacked, UNCHANGED loaderVars
    PROVE  IInv' /\ told <= told'
<1> DEFINE h == IF DecoderLayout = "legacy" THEN Forget(heap, {"image"}) ELSE heap
           r == SetProcFlag(raw, LOAD_RAW)
<1>1. /\ call = "unpacked" /\ pc = "unpacked" /\ refused = FALSE /\ told \in OPEN..THUMB_LOAD
      /\ told <= LOAD_RAW /\ LOAD_RAW \in OPEN..THUMB_LOAD /\ raw \in Raws
  <2>1. call = "unpacked"
    BY DEF Unpacked, Stage
  <2> QED  BY <2>1, Quiet, Numbers DEF IInv, ControlInv, PhaseInv, ToldInv, UnpackCalls
<1>2. /\ Lost(h) /\ ~Aliased(h) /\ h.mems = heap.mems
      /\ \A p \in WorkPointers \cup {"buffer"} : h.at[p] = NULL
  <2>1. /\ Lost(heap) /\ Accounted(heap, Own(raw)) /\ heap \in Heaps
        /\ \A p \in WorkPointers \cup {"buffer"} : p \in Pointers /\ heap.at[p] = NULL
    BY <1>1, HeapLost, PointerNames
       DEF Lost, Kept, Accounted, IInv, HeapInv, PointersInv, WorkPointers, Failed, Managed, OwnAlways
  <2>2. CASE DecoderLayout = "legacy"
    <3>1. {"image"} \cap Own(raw) = {} /\ "image" \in Pointers /\ "raw_alloc" \in Pointers
      BY PointerNames, OwnPointers DEF Managed, Recycled
    <3>2. Accounted(Forget(heap, {"image"}), Own(raw))
      BY <2>1, <3>1, OwnPointers, ForgetAccounted
    <3>3. /\ h.mems = heap.mems /\ h.twice = heap.twice
          /\ \A p \in Pointers : h.at[p] = IF p \in {"image"} THEN NULL ELSE heap.at[p]
      BY <2>1, <2>2, ForgetFields
    <3>4. Accounted(h, Own(raw))
      BY <2>2, <3>2
    <3> HIDE DEF h
    <3>5. ~Aliased(h)
      BY <3>1, <3>3 DEF Aliased
    <3>6. \A p \in OwnAlways : h.at[p] = heap.at[p]
      BY <3>3, PointerNames DEF Managed, Recycled
    <3>7. Lost(h)
      BY <2>1, <3>3, <3>4, <3>5, <3>6 DEF Lost, Kept, OwnAlways
    <3> QED  BY <2>1, <3>3, <3>5, <3>7
  <2>3. CASE DecoderLayout # "legacy"
    <3>1. ~Aliased(heap)
      BY <2>3, Layouts DEF IInv, HeapInv, BlocksInv
    <3> QED  BY <2>1, <2>3, <3>1
  <2> QED  BY <2>2, <2>3
<1>3. Went(LOAD_RAW, r, h, "idle") \/ \E g \in {h} \cup {} : Gave(g)
  <2>1. Stage("unpacked", LOAD_RAW, {h}, {}, raw, h, "idle")
    BY DEF Unpacked
  <2> HIDE DEF h
  <2> QED  BY <1>1, <2>1, StageOutcome DEF IInv
<1> HIDE DEF h
<1>4. CASE \E g \in {h} \cup {} : Gave(g)
  BY <1>1, <1>2, <1>4, GaveInv DEF Gave
<1>5. CASE Went(LOAD_RAW, r, h, "idle")
  <2>1. /\ r \in Raws /\ r.inputInternal = raw.inputInternal /\ r.size = raw.size
        /\ r.colors = raw.colors /\ r.filters = raw.filters /\ r.fuji = raw.fuji
    BY <1>1, FlagRaw
  <2> HIDE DEF r
  <2>2. TableInv'
    BY <1>1, <1>2, <1>5 DEF IInv, HeapInv, TableInv, After, Went, ReducedCalls, loaderVars
  <2>3. told' \in OPEN..THUMB_LOAD => ToldInv'
    BY <1>1, <1>5 DEF ToldInv, After, Went, UnpackCalls, loaderVars, LOAD_RAW, REMOVE_ZEROES,
       OPEN, THUMB_LOAD
  <2>4. FoundInv' /\ ReducedInv' /\ WholeInv' /\ ReadyInv'
    BY <1>1, <1>5, <2>1 DEF IInv, PictureInv, FoundInv, ReducedInv, WholeInv, ReadyInv, After, Went,
       UnpackCalls, ReducedCalls, WholeCalls, ReadyCalls, loaderVars
  <2>5. call \in UnpackCalls /\ "idle" \notin OpenCalls /\ Along(call, "idle")
    BY <1>1 DEF UnpackCalls, OpenCalls, Along
  <2> QED  BY <1>1, <1>2, <1>5, <2>1, <2>2, <2>3, <2>4, <2>5, StageInv
<1> QED  BY <1>3, <1>4, <1>5

-----------------------------------------------------------------------------
(* dcraw_process.                                                            *)

LEMMA ProcessHeap ==
    ASSUME IInv, call \in ProcessCalls
    PROVE  /\ Lost(heap) /\ ~Aliased(heap) /\ heap.at["buffer"] = NULL
           /\ Cardinality(heap.mems) \in Nat
           /\ pc = "processed" /\ raw \in Raws /\ ret = "SUCCESS"
           /\ told \in OPEN..THUMB_LOAD /\ told <= told
           /\ call # "ahd_rows" =>
                 refused = FALSE /\ pending = "none" /\ \A p \in WorkPointers : heap.at[p] = NULL
<1>1. call \notin {"idle", "open_fails", "load_raw", "unpacked"}
  BY DEF ProcessCalls, ReducedCalls, WholeCalls, ReadyCalls
<1>2. /\ Lost(heap) /\ ~Aliased(heap) /\ heap.at["buffer"] = NULL
  BY <1>1, HeapLost DEF IInv, HeapInv, BlocksInv, PointersInv, Failed
<1>3. Cardinality(heap.mems) \in Nat
  BY <1>2, FS_CardinalityType DEF Lost, Kept, Accounted
<1>4. /\ pc = "processed" /\ raw \in Raws /\ ret = "SUCCESS"
      /\ told \in OPEN..THUMB_LOAD /\ told <= told
  BY <1>1, Numbers DEF IInv, ControlInv, PhaseInv, ResultInv, ToldInv
<1>5. call # "ahd_rows" =>
          refused = FALSE /\ pending = "none" /\ \A p \in WorkPointers : heap.at[p] = NULL
  BY <1>1, Quiet DEF IInv, HeapInv, PointersInv, WorkPointers
<1> QED  BY <1>2, <1>3, <1>4, <1>5

(* A stage of dcraw_process goes on or gives up.                             *)
LEMMA ProcessInv ==
    ASSUME IInv, call \in ProcessCalls \ {"ahd_rows"}, UNCHANGED loaderVars,
           NEW most \in OPEN..THUMB_LOAD, NEW r \in Raws, NEW h,
           NEW next \in ProcessCalls \cup {"idle"},
           r.inputInternal = raw.inputInternal, Lost(h), ~Aliased(h), h.at["buffer"] = NULL,
           \A p \in WorkPointers : h.at[p] # NULL => p = "work1" /\ next = "ahd_rows",
           Went(most, r, h, next) \/ \E g : Gave(g) /\ Lost(g),
           Went(most, r, h, next) =>
               /\ told' \in OPEN..THUMB_LOAD => ToldInv'
               /\ TableInv' /\ FoundInv' /\ ReducedInv' /\ WholeInv' /\ ReadyInv'
    PROVE  IInv' /\ told <= told'
<1>1. call \notin {"idle", "adopt", "open_fails"} /\ refused = FALSE
  BY ProcessHeap DEF ProcessCalls, ReducedCalls, WholeCalls, ReadyCalls
<1>2. CASE \E g : Gave(g) /\ Lost(g)
  BY <1>1, <1>2, GaveInv DEF Gave
<1>3. CASE Went(most, r, h, next)
  <2>1. next \notin OpenCalls /\ Along(call, next)
    BY DEF Along, OpenCalls, ProcessCalls, ReducedCalls, WholeCalls, ReadyCalls
  <2>2. TableInv' /\ FoundInv' /\ ReducedInv' /\ WholeInv' /\ ReadyInv'
    BY <1>3
  <2>3. told' \in OPEN..THUMB_LOAD => ToldInv'
    BY <1>3
  <2> QED  BY <1>1, <1>3, <2>1, <2>2, <2>3, StageInv
<1> QED  BY <1>2, <1>3

(* The size of the reduced picture depends on what a flag leaves alone.      *)
LEMMA InnerKept ==
    ASSUME NEW r \in Raws, NEW s \in Raws, s.size = r.size, s.filters = r.filters,
           s.half = r.half, s.threshold = r.threshold
    PROVE  /\ Shrinks(s) = Shrinks(r)
           /\ InnerSize(s).iw = InnerSize(r).iw /\ InnerSize(s).ih = InnerSize(r).ih
<1>1. Shrinks(s) = Shrinks(r)
  BY DEF Shrinks
<1> QED  BY <1>1, InnerTypes

LEMMA RemoveZeroesInv ==
    ASSUME IInv, RemoveZeroes, UNCHANGED loaderVars
    PROVE  IInv' /\ told <= told'
<1> DEFINE r == SetProcFlag(raw, REMOVE_ZEROES)
<1>1. /\ call = "remove_zeroes" /\ call \in ProcessCalls \ {"ahd_rows"}
      /\ REMOVE_ZEROES \in OPEN..THUMB_LOAD /\ told <= REMOVE_ZEROES
  BY Numbers DEF RemoveZeroes, Stage, ProcessCalls, ReducedCalls, IInv, ControlInv, ToldInv
<1>2. /\ r \in Raws /\ r.inputInternal = raw.inputInternal /\ r.size = raw.size
      /\ r.shrink = raw.shrink /\ r.fuji = raw.fuji /\ r.area = raw.area
      /\ r.colors = raw.colors /\ r.filters = raw.filters /\ raw \in Raws
      /\ Shrinks(r) = Shrinks(raw)
      /\ InnerSize(r).iw = InnerSize(raw).iw /\ InnerSize(r).ih = InnerSize(raw).ih
  BY <1>1, ProcessHeap, FlagRaw, InnerKept
<1> HIDE DEF r
<1>3. Went(REMOVE_ZEROES, r, heap, "scale_colors") \/ \E g : Gave(g) /\ Lost(g)
  <2>1. Stage("remove_zeroes", REMOVE_ZEROES, {heap}, {}, raw, heap, "scale_colors")
    BY DEF RemoveZeroes
  <2> QED  BY <1>1, <2>1, StageOutcome, ProcessHeap DEF IInv, r
<1>4. ASSUME Went(REMOVE_ZEROES, r, heap, "scale_colors")
      PROVE  /\ told' \in OPEN..THUMB_LOAD => ToldInv'
             /\ TableInv' /\ FoundInv' /\ ReducedInv' /\ WholeInv' /\ ReadyInv'
  <2>1. told' \in OPEN..THUMB_LOAD => ToldInv'
    <3>1. told' <= SCALE_COLORS
      BY <1>1, <1>4, ProcessHeap DEF Went, REMOVE_ZEROES, SCALE_COLORS, OPEN, THUMB_LOAD
    <3> QED  BY <1>1, <1>4, <3>1, ProcessHeap DEF ToldInv, After, Went, UnpackCalls, loaderVars
  <2>2. TableInv'
    BY <1>1, <1>4 DEF IInv, HeapInv, TableInv, After, Went, ReducedCalls
  <2>3. FoundInv' /\ WholeInv' /\ ReadyInv'
    BY <1>1, <1>2, <1>4 DEF IInv, PictureInv, FoundInv, WholeInv, ReadyInv, After, Went,
       UnpackCalls, ReducedCalls, WholeCalls, ReadyCalls
  <2>4. ReducedInv'
    BY <1>1, <1>2, <1>4 DEF IInv, PictureInv, ReducedInv, Went, ReducedCalls
  <2> QED  BY <2>1, <2>2, <2>3, <2>4
<1>5. "scale_colors" \in ProcessCalls \cup {"idle"}
  BY DEF ProcessCalls, ReducedCalls
<1> QED  BY <1>1, <1>2, <1>3, <1>4, <1>5, ProcessHeap, ProcessInv

LEMMA ScaleColorsInv ==
    ASSUME IInv, ScaleColors, UNCHANGED loaderVars
    PROVE  IInv' /\ told <= told'
<1> DEFINE r == SetProcFlag(raw, SCALE_COLORS)
           short == IF raw.threshold THEN {heap} ELSE {}
<1>1. /\ call = "scale_colors" /\ call \in ProcessCalls \ {"ahd_rows"}
      /\ SCALE_COLORS \in OPEN..THUMB_LOAD /\ told <= SCALE_COLORS
  BY Numbers DEF ScaleColors, Stage, ProcessCalls, ReducedCalls, IInv, ControlInv, ToldInv
<1>2. /\ r \in Raws /\ r.inputInternal = raw.inputInternal /\ r.size = raw.size
      /\ r.shrink = raw.shrink /\ r.fuji = raw.fuji /\ r.area = raw.area
      /\ r.colors = raw.colors /\ r.filters = raw.filters /\ raw \in Raws
      /\ Shrinks(r) = Shrinks(raw)
      /\ InnerSize(r).iw = InnerSize(raw).iw /\ InnerSize(r).ih = InnerSize(raw).ih
  BY <1>1, ProcessHeap, FlagRaw, InnerKept
<1> HIDE DEF r
<1>3. Went(SCALE_COLORS, r, heap, "pre_interpolate") \/ \E g : Gave(g) /\ Lost(g)
  <2>1. Stage("scale_colors", SCALE_COLORS, {heap}, short, raw, heap, "pre_interpolate")
    BY DEF ScaleColors
  <2>2. \A g \in {heap} \cup short : g = heap
    OBVIOUS
  <2> HIDE DEF short
  <2>3. Went(SCALE_COLORS, r, heap, "pre_interpolate") \/ \E g \in {heap} \cup short : Gave(g)
    BY <1>1, <2>1, StageOutcome DEF IInv, r
  <2> QED  BY <1>1, <2>2, <2>3, ProcessHeap
<1>4. ASSUME Went(SCALE_COLORS, r, heap, "pre_interpolate")
      PROVE  /\ told' \in OPEN..THUMB_LOAD => ToldInv'
             /\ TableInv' /\ FoundInv' /\ ReducedInv' /\ WholeInv' /\ ReadyInv'
  <2>1. told' \in OPEN..THUMB_LOAD => ToldInv'
    <3>1. told' <= PRE_INTERPOLATE
      BY <1>1, <1>4, ProcessHeap DEF Went, SCALE_COLORS, PRE_INTERPOLATE, OPEN, THUMB_LOAD
    <3> QED  BY <1>1, <1>4, <3>1, ProcessHeap DEF ToldInv, After, Went, UnpackCalls, loaderVars
  <2>2. TableInv'
    BY <1>1, <1>4 DEF IInv, HeapInv, TableInv, After, Went, ReducedCalls
  <2>3. FoundInv' /\ WholeInv' /\ ReadyInv'
    BY <1>1, <1>2, <1>4 DEF IInv, PictureInv, FoundInv, WholeInv, ReadyInv, After, Went,
       UnpackCalls, ReducedCalls, WholeCalls, ReadyCalls
  <2>4. ReducedInv'
    BY <1>1, <1>2, <1>4 DEF IInv, PictureInv, ReducedInv, Went, ReducedCalls
  <2> QED  BY <2>1, <2>2, <2>3, <2>4
<1>5. "pre_interpolate" \in ProcessCalls \cup {"idle"}
  BY DEF ProcessCalls, ReducedCalls
<1> QED  BY <1>1, <1>2, <1>3, <1>4, <1>5, ProcessHeap, ProcessInv

LEMMA Raw2ImageInv ==
    ASSUME IInv, Raw2Image, UNCHANGED loaderVars
    PROVE  IInv' /\ told <= told'
<1> DEFINE size == InnerSize(raw)
           shrink == Shrinks(raw)
           r == [raw EXCEPT !.shrink = shrink, !.size = size, !.area = size.iw * size.ih]
           h == Malloc(heap, <<"image">>)
           next == IF file.zeroIsBad THEN "remove_zeroes" ELSE "scale_colors"
<1>1. /\ call = "process" /\ call \in ProcessCalls \ {"ahd_rows"}
      /\ Cardinality(heap.mems) <= 5
  BY DEF Raw2Image, Refuse, Acquire, Step, ProcessCalls, IInv, HeapInv, TableInv
<1>2. CASE Refuse("process", "OUT_OF_ORDER_CALL")
  BY <1>1, <1>2, ProcessHeap, RefuseOutcome, QuitInv DEF Quit, Refuse, Return
<1>3. CASE Acquire("process", r, h, next)
  <2>1. /\ r \in Raws /\ r.inputInternal = raw.inputInternal
        /\ r.shrink = Shrinks(raw) /\ r.area = r.size.iw * r.size.ih
        /\ r.size.w = raw.size.w /\ r.size.h = raw.size.h
        /\ r.size.iw = InnerSize(raw).iw /\ r.size.ih = InnerSize(raw).ih
        /\ r.colors = raw.colors /\ r.filters = raw.filters /\ r.fuji = raw.fuji
        /\ r.half = raw.half /\ r.threshold = raw.threshold
    <3>1. /\ size \in [w : Nat, h : Nat, iw : Nat, ih : Nat] /\ shrink \in BOOLEAN
          /\ size.w = raw.size.w /\ size.h = raw.size.h /\ raw \in Raws
      BY <1>1, ProcessHeap, InnerTypes
    <3> DEFINE area == size.iw * size.ih
    <3>2. area \in Nat
      BY <3>1
    <3>3. r = [raw EXCEPT !.shrink = shrink, !.size = size, !.area = area]
      OBVIOUS
    <3> HIDE DEF size, shrink, area, r
    <3> QED  BY <3>1, <3>2, <3>3 DEF Raws, size, shrink, area
  <2>2. Shrinks(r) = Shrinks(raw) /\ InnerSize(r).iw = r.size.iw /\ InnerSize(r).ih = r.size.ih
    <3>1. Shrinks(r) = Shrinks(raw) /\ raw \in Raws
      BY <1>1, <2>1, ProcessHeap DEF Shrinks
    <3> HIDE DEF r
    <3> QED  BY <2>1, <3>1, InnerTypes
  <2>3. next \in ReducedCalls /\ next # "pre_interpolate" /\ next \in ProcessCalls \cup {"idle"}
    BY DEF ReducedCalls, ProcessCalls
  <2> HIDE DEF r, next
  <2>4. /\ Lost(h) /\ Cardinality(h.mems) <= 5 + 1
        /\ h.at["buffer"] = NULL /\ ~Aliased(h)
        /\ \A p \in WorkPointers : h.at[p] = NULL
    <3>1. "image" \in Managed /\ 5 \in 0..11
      BY DEF Managed, Recycled
    <3> DEFINE name == "image"
    <3> HIDE DEF name
    <3>2. /\ Lost(Malloc(heap, <<name>>)) /\ Cardinality(Malloc(heap, <<name>>).mems) <= 5 + 1
          /\ \A q \in Pointers \ {name} : Malloc(heap, <<name>>).at[q] = heap.at[q]
          /\ Malloc(heap, <<name>>).at[name] \notin heap.live \cup {NULL}
      BY <1>1, <3>1, ProcessHeap, LostMallocOne DEF name
    <3>3. h = Malloc(heap, <<name>>)
      BY DEF name
    <3> HIDE DEF h
    <3>4. /\ WorkPointers \cup {"buffer", "raw_alloc"} \subseteq Pointers \ {"image"}
          /\ heap.at["raw_alloc"] \in heap.live \cup {NULL}
      BY <1>1, ProcessHeap, PointerNames
         DEF WorkPointers, Managed, Recycled, OwnAlways, Lost, Kept, Accounted
    <3> QED  BY <1>1, <3>2, <3>3, <3>4, ProcessHeap DEF Aliased, name
  <2> HIDE DEF h
  <2>5. Went(told, r, h, next) \/ \E g : Gave(g) /\ Lost(g)
    BY <1>1, <1>3, AcquireOutcome, ProcessHeap DEF IInv
  <2>6. ASSUME Went(told, r, h, next)
        PROVE  /\ told' \in OPEN..THUMB_LOAD => ToldInv'
               /\ TableInv' /\ FoundInv' /\ ReducedInv' /\ WholeInv' /\ ReadyInv'
    <3>1. told' \in OPEN..THUMB_LOAD => ToldInv'
      <4>1. told' <= REMOVE_ZEROES /\ told' <= SCALE_COLORS
        BY <1>1, <2>6, ProcessHeap DEF Went, IInv, ControlInv, ToldInv, REMOVE_ZEROES, SCALE_COLORS,
           OPEN, THUMB_LOAD
      <4> QED  BY <1>1, <2>3, <2>6, <4>1, ProcessHeap
               DEF ToldInv, After, Went, UnpackCalls, ReducedCalls, loaderVars
    <3>2. TableInv'
      BY <2>3, <2>4, <2>6 DEF TableInv, After, Went, ReducedCalls
    <3>3. FoundInv' /\ WholeInv' /\ ReadyInv'
      BY <1>1, <2>1, <2>3, <2>6 DEF IInv, PictureInv, FoundInv, WholeInv, ReadyInv, After, Went,
         UnpackCalls, ReducedCalls, WholeCalls, ReadyCalls
    <3>4. ReducedInv'
      BY <2>1, <2>2, <2>3, <2>6 DEF ReducedInv, Went
    <3> QED  BY <3>1, <3>2, <3>3, <3>4
  <2> QED  BY <1>1, <2>1, <2>3, <2>4, <2>5, <2>6, ProcessHeap, ProcessInv
<1> QED  BY <1>2, <1>3 DEF Raw2Image

LEMMA HandOver ==
    ASSUME NEW h \in Heaps, "image" \in Pointers, "img" \in Pointers, NEW b \in Nat
    PROVE  LET g == [h EXCEPT !.at["image"] = b, !.at["img"] = NULL]
           IN  /\ g \in Heaps
               /\ g.live = h.live /\ g.mems = h.mems /\ g.twice = h.twice /\ g.next = h.next
               /\ g.at["image"] = b /\ g.at["img"] = NULL
               /\ \A q \in Pointers \ {"image", "img"} : g.at[q] = h.at[q]
<1>1. NULL \in Nat
  BY DEF NULL
<1> QED  BY <1>1 DEF Heaps

(* A new picture takes the place of the old one.                             *)
LEMMA ReplacedLost ==
    ASSUME IInv, call \in ProcessCalls \ {"ahd_rows"}, NEW n \in 0..11, Cardinality(heap.mems) <= n
    PROVE  /\ Lost(Malloc(heap, <<"img">>)) /\ Lost(Replaced)
           /\ Cardinality(Replaced.mems) <= n + 1
           /\ ~Aliased(Replaced) /\ Replaced.at["buffer"] = NULL
           /\ \A p \in WorkPointers : Replaced.at[p] = NULL
<1> DEFINE m == Malloc(heap, <<"img">>)
           f == Free(m, {"image"})
           g == [f EXCEPT !.at["image"] = m.at["img"], !.at["img"] = NULL]
           own == Own(raw)
<1>1. /\ {"image", "img", "raw_alloc"} \subseteq Managed /\ Managed \subseteq Pointers
      /\ WorkPointers \cup {"buffer"} \subseteq Pointers \ {"image"}
  BY PointerNames DEF Managed, Recycled, WorkPointers, OwnAlways
<1>2. /\ Lost(m) /\ Cardinality(m.mems) <= n + 1
      /\ \A q \in Pointers \ {"img"} : m.at[q] = heap.at[q]
      /\ m.at["img"] \notin heap.live \cup {NULL}
  <2> DEFINE name == "img"
  <2>1. name \in Managed
    BY <1>1
  <2> HIDE DEF name
  <2>2. /\ Lost(Malloc(heap, <<name>>)) /\ Cardinality(Malloc(heap, <<name>>).mems) <= n + 1
        /\ \A q \in Pointers \ {name} : Malloc(heap, <<name>>).at[q] = heap.at[q]
        /\ Malloc(heap, <<name>>).at[name] \notin heap.live \cup {NULL}
    BY <2>1, ProcessHeap, LostMallocOne
  <2>3. m = Malloc(heap, <<name>>)
    BY DEF name
  <2> QED  BY <2>2, <2>3 DEF name
<1> HIDE DEF m
<1>3. ~Aliased(m)
  BY <1>1, <1>2, ProcessHeap DEF Aliased
<1>4. /\ Lost(f) /\ Cardinality(f.mems) <= Cardinality(m.mems)
      /\ \A p \in Pointers : f.at[p] = IF p \in {"image"} THEN NULL ELSE m.at[p]
  <2> DEFINE ps == {"image"}
  <2>1. ps \in SUBSET (Managed \cup {"buffer"})
    BY <1>1
  <2> HIDE DEF ps
  <2>2. /\ Lost(Free(m, ps)) /\ Cardinality(Free(m, ps).mems) <= Cardinality(m.mems)
        /\ \A p \in Pointers : Free(m, ps).at[p] = IF p \in ps THEN NULL ELSE m.at[p]
    BY <1>2, <1>3, <2>1, LostFree DEF Lost
  <2> QED  BY <2>2 DEF ps
<1> HIDE DEF f
<1>5. Accounted(f, own) /\ f \in Heaps /\ m.at["img"] \in Nat /\ m \in Heaps
  BY <1>1, <1>2, <1>4 DEF Lost, Kept, Accounted, Heaps
<1>6. /\ g \in Heaps
      /\ g.live = f.live /\ g.mems = f.mems /\ g.twice = f.twice /\ g.next = f.next
      /\ g.at["image"] = m.at["img"] /\ g.at["img"] = NULL
      /\ \A q \in Pointers \ {"image", "img"} : g.at[q] = f.at[q]
  <2> DEFINE b == m.at["img"]
             gb == [f EXCEPT !.at["image"] = b, !.at["img"] = NULL]
  <2>1. b \in Nat /\ "image" \in Pointers /\ "img" \in Pointers
    BY <1>1, <1>5
  <2> HIDE DEF b
  <2>2. /\ gb \in Heaps
        /\ gb.live = f.live /\ gb.mems = f.mems /\ gb.twice = f.twice /\ gb.next = f.next
        /\ gb.at["image"] = b /\ gb.at["img"] = NULL
        /\ \A q \in Pointers \ {"image", "img"} : gb.at[q] = f.at[q]
    BY <1>5, <2>1, HandOver
  <2>3. g = gb
    BY DEF b
  <2> HIDE DEF g, gb
  <2> QED  BY <2>2, <2>3 DEF b
<1>7. Replaced = g
  BY DEF Replaced, m, f
<1> HIDE DEF g
<1>8. f.at["img"] = m.at["img"] /\ f.at["image"] = NULL
  BY <1>1, <1>4
<1>9. \A p \in own : g.at[p] = f.at[p]
  BY <1>1, <1>6, OwnPointers
<1>10. Named(g, own) = Named(f, own)
  BY <1>9 DEF Named
<1>11. \A p \in Managed : g.at[p] \in g.mems \cup {NULL}
  BY <1>1, <1>5, <1>6, <1>8 DEF Accounted
<1>12. \A p, q \in Managed : g.at[p] = g.at[q] /\ g.at[p] # NULL => p = q \/ {p, q} = {"image", "raw_alloc"}
  <2>1. \A q \in Managed : f.at[q] = f.at["img"] /\ f.at[q] # NULL => q = "img" \/ {q, "img"} = {"image", "raw_alloc"}
    BY <1>1, <1>5 DEF Accounted
  <2>2. \A q \in Managed : f.at[q] = f.at["img"] /\ f.at[q] # NULL => q = "img"
    BY <2>1
  <2>3. \A p, q \in Managed \ {"image", "img"} : f.at[p] = f.at[q] /\ f.at[p] # NULL => p = q
    BY <1>1, <1>5 DEF Accounted
  <2> QED  BY <1>1, <1>6, <1>8, <2>2, <2>3
<1>13. Accounted(g, own)
  <2> HIDE DEF own
  <2> QED  BY <1>5, <1>6, <1>9, <1>10, <1>11, <1>12 DEF Accounted
<1>14. \A p \in OwnAlways : g.at[p] = f.at[p]
  BY <1>1, <1>6, PointerNames
<1>15. ~Aliased(g) /\ \A p \in Pointers \ {"image", "img"} : g.at[p] = heap.at[p]
  <2>1. \A p \in Pointers \ {"image", "img"} : g.at[p] = heap.at[p]
    BY <1>2, <1>4, <1>6
  <2>2. heap.at["raw_alloc"] \in heap.live \cup {NULL}
    BY <1>1, ProcessHeap DEF Lost, Kept, Accounted
  <2> QED  BY <1>1, <1>2, <1>6, <2>1, <2>2 DEF Aliased
<1>16. Lost(g)
  BY <1>4, <1>6, <1>13, <1>14, <1>15 DEF Lost, Kept, OwnAlways
<1>17. Cardinality(g.mems) <= n + 1
  <2>1. Cardinality(m.mems) \in Nat /\ Cardinality(f.mems) \in Nat
    BY <1>2, <1>4, FS_CardinalityType DEF Lost, Kept, Accounted
  <2> QED  BY <1>2, <1>4, <1>6, <2>1
<1>18. g.at["buffer"] = NULL /\ \A p \in WorkPointers : g.at[p] = NULL
  BY <1>1, <1>6, <1>15, ProcessHeap DEF WorkPointers
<1> QED  BY <1>2, <1>7, <1>15, <1>16, <1>17, <1>18 DEF m

LEMMA NewSides ==
    ASSUME NEW r \in Raws, NEW a \in Nat, NEW b \in Nat
    PROVE  [r EXCEPT !.size.w = a, !.size.h = b] =
               [r EXCEPT !.size = [w |-> a, h |-> b, iw |-> r.size.iw, ih |-> r.size.ih]]
<1> DEFINE size == [r.size EXCEPT !.w = a, !.h = b]
<1>1. r.size \in [w : Nat, h : Nat, iw : Nat, ih : Nat]
  BY DEF Raws
<1>2. size = [w |-> a, h |-> b, iw |-> r.size.iw, ih |-> r.size.ih]
  <2> DEFINE z == r.size
             y == [z EXCEPT !.w = a, !.h = b]
  <2>1. z \in [w : Nat, h : Nat, iw : Nat, ih : Nat]
    BY <1>1
  <2> HIDE DEF z
  <2>2. y \in [w : Nat, h : Nat, iw : Nat, ih : Nat] /\ y.w = a /\ y.h = b /\ y.iw = z.iw /\ y.ih = z.ih
    BY <2>1
  <2> HIDE DEF y
  <2>3. y = [w |-> a, h |-> b, iw |-> z.iw, ih |-> z.ih]
    BY <2>2
  <2> QED  BY <2>3 DEF y, z
<1>3. [r EXCEPT !.size.w = a, !.size.h = b] = [r EXCEPT !.size = size]
  BY DEF Raws
<1> HIDE DEF size
<1> QED  BY <1>2, <1>3

(* The picture and its memory once its size is the one that stays.           *)
LEMMA WholePicture ==
    ASSUME IInv, call = "pre_interpolate", NEW r, r = SetProcFlag(Separated(Resized), PRE_INTERPOLATE)
    PROVE  /\ r \in Raws /\ r.inputInternal = raw.inputInternal /\ r.half = raw.half
           /\ r.size.w = Side(file.w) /\ r.size.h = Side(file.h) /\ r.area = Area(r.size)
           /\ r.fuji = file.fuji /\ (r.shrink <=> file.filters /\ raw.half)
           /\ r.mixGreen => file.colors = 3
           /\ r.colors = IF r.mixGreen THEN 4 ELSE file.colors
           /\ PRE_INTERPOLATE \in r.flags
<1> DEFINE s == Resized
           mix == s.filters /\ s.colors = 3 /\ s.half
           t == Separated(s)
<1>1. raw \in Raws /\ raw.size \in [w : Nat, h : Nat, iw : Nat, ih : Nat]
  BY ProcessHeap DEF ProcessCalls, ReducedCalls, Raws
<1>2. /\ raw.size.w = file.w /\ raw.size.h = file.h /\ raw.colors = file.colors
      /\ raw.filters = file.filters /\ raw.fuji = file.fuji
      /\ raw.shrink = Shrinks(raw) /\ raw.area = raw.size.iw * raw.size.ih
      /\ raw.size.iw = IF Shrinks(raw) THEN Half(file.w) ELSE file.w
      /\ raw.size.ih = IF Shrinks(raw) THEN Half(file.h) ELSE file.h
  <2>1. raw.shrink \in BOOLEAN /\ Shrinks(raw) \in BOOLEAN
    BY <1>1, InnerTypes DEF Raws
  <2> QED  BY <1>1, <2>1, InnerTypes DEF IInv, PictureInv, FoundInv, ReducedInv, ReducedCalls
<1>3. /\ s \in Raws /\ s.inputInternal = raw.inputInternal /\ s.half = raw.half
      /\ s.fuji = raw.fuji /\ s.colors = raw.colors /\ s.filters = raw.filters
      /\ s.flags = raw.flags
      /\ s.size.w = Side(file.w) /\ s.size.h = Side(file.h) /\ s.area = Area(s.size)
      /\ (s.shrink <=> file.filters /\ raw.half)
  <2>1. CASE ~raw.shrink
    <3>1. ~Shrinks(raw) /\ ~(file.filters /\ raw.half) /\ s = raw
      BY <1>2, <2>1 DEF Shrinks, Resized
    <3> QED  BY <1>1, <1>2, <2>1, <3>1 DEF Side, Area
  <2>2. CASE raw.shrink /\ raw.half
    <3> DEFINE size == [w |-> raw.size.iw, h |-> raw.size.ih, iw |-> raw.size.iw, ih |-> raw.size.ih]
    <3>1. s = [raw EXCEPT !.size = size]
      <4> DEFINE a == raw.size.iw
                 b == raw.size.ih
      <4>1. a \in Nat /\ b \in Nat
        BY <1>1
      <4>2. s = [raw EXCEPT !.size.w = a, !.size.h = b]
        BY <2>2 DEF Resized
      <4> HIDE DEF a, b, s
      <4>3. s = [raw EXCEPT !.size = [w |-> a, h |-> b, iw |-> raw.size.iw, ih |-> raw.size.ih]]
        BY <1>1, <4>1, <4>2, NewSides
      <4> QED  BY <4>3 DEF a, b
    <3>2. file.filters /\ raw.filters /\ Shrinks(raw)
      BY <1>2, <2>2 DEF Shrinks
    <3>3. size \in [w : Nat, h : Nat, iw : Nat, ih : Nat] /\ size.w = raw.size.iw /\ size.h = raw.size.ih
      BY <1>1
    <3> HIDE DEF size, s
    <3>4. /\ s \in Raws /\ s.inputInternal = raw.inputInternal /\ s.half = raw.half
          /\ s.fuji = raw.fuji /\ s.colors = raw.colors /\ s.filters = raw.filters
          /\ s.flags = raw.flags /\ s.shrink = raw.shrink /\ s.area = raw.area
          /\ s.size = size
      BY <1>1, <3>1, <3>3 DEF Raws
    <3> QED  BY <1>2, <2>2, <3>2, <3>3, <3>4 DEF Side, Area
  <2>3. CASE raw.shrink /\ ~raw.half
    <3> DEFINE area == Area(raw.size)
    <3>1. area \in Nat
      BY <1>1 DEF Area
    <3>2. s = [raw EXCEPT !.shrink = FALSE, !.area = area]
      BY <2>3 DEF Resized
    <3> HIDE DEF area, s
    <3>3. /\ s \in Raws /\ s.inputInternal = raw.inputInternal /\ s.half = raw.half
          /\ s.fuji = raw.fuji /\ s.colors = raw.colors /\ s.filters = raw.filters
          /\ s.flags = raw.flags /\ s.shrink = FALSE /\ s.area = area
          /\ s.size = raw.size
      BY <1>1, <3>1, <3>2 DEF Raws
    <3> QED  BY <1>2, <2>3, <3>3 DEF Side, area
  <2>4. raw.shrink \in BOOLEAN /\ raw.half \in BOOLEAN
    BY <1>1 DEF Raws
  <2> QED  BY <2>1, <2>2, <2>3, <2>4
<1> HIDE DEF s
<1>4. /\ t \in Raws /\ t.inputInternal = s.inputInternal /\ t.half = s.half
      /\ t.fuji = s.fuji /\ t.flags = s.flags /\ t.size = s.size /\ t.area = s.area
      /\ t.shrink = s.shrink
      /\ t.mixGreen = mix /\ t.colors = IF mix THEN 4 ELSE s.colors
  <2> DEFINE colors == IF mix THEN 4 ELSE s.colors
             filters == s.filters /\ ~s.half
  <2>1. mix \in BOOLEAN /\ colors \in 0..4 /\ filters \in BOOLEAN
    BY <1>3 DEF Raws
  <2>2. t = [s EXCEPT !.mixGreen = mix, !.colors = colors, !.filters = filters]
    BY <1>3 DEF Separated, Raws
  <2> HIDE DEF mix, colors, filters, t
  <2>3. /\ t \in Raws /\ t.inputInternal = s.inputInternal /\ t.half = s.half
        /\ t.fuji = s.fuji /\ t.flags = s.flags /\ t.size = s.size /\ t.area = s.area
        /\ t.shrink = s.shrink /\ t.mixGreen = mix /\ t.colors = colors
    BY <1>3, <2>1, <2>2 DEF Raws
  <2> QED  BY <2>3 DEF colors
<1>5. r = SetProcFlag(t, PRE_INTERPOLATE) /\ PRE_INTERPOLATE \in OPEN..THUMB_LOAD
  BY Numbers DEF s
<1>6. mix => file.colors = 3
  BY <1>2, <1>3
<1> HIDE DEF mix, t
<1>7. /\ r \in Raws /\ r.flags = t.flags \cup {PRE_INTERPOLATE} /\ r.inputInternal = t.inputInternal
      /\ r.size = t.size /\ r.shrink = t.shrink /\ r.fuji = t.fuji /\ r.area = t.area
      /\ r.mixGreen = t.mixGreen /\ r.colors = t.colors /\ r.half = t.half
  BY <1>4, <1>5, FlagRaw
<1> QED  BY <1>2, <1>3, <1>4, <1>6, <1>7

LEMMA PreInterpolateInv ==
    ASSUME IInv, PreInterpolate, UNCHANGED loaderVars
    PROVE  IInv' /\ told <= told'
<1> DEFINE grown == raw.shrink /\ ~raw.half
           h == IF grown THEN Replaced ELSE heap
           short == IF grown THEN {heap} ELSE {}
           s == Separated(Resized)
           r == SetProcFlag(s, PRE_INTERPOLATE)
           next == Demosaic(s)
<1>1. /\ call = "pre_interpolate" /\ call \in ProcessCalls \ {"ahd_rows"}
      /\ PRE_INTERPOLATE \in OPEN..THUMB_LOAD /\ told <= PRE_INTERPOLATE
      /\ Cardinality(heap.mems) <= 6
  BY Numbers DEF PreInterpolate, Stage, ProcessCalls, ReducedCalls, IInv, ControlInv, ToldInv,
     HeapInv, TableInv
<1>2. next \in {"mix_green", "vng", "ppg", "ahd"}
  BY DEF Demosaic
<1>3. /\ r \in Raws /\ r.inputInternal = raw.inputInternal /\ r.half = raw.half
      /\ r.size.w = Side(file.w) /\ r.size.h = Side(file.h) /\ r.area = Area(r.size)
      /\ r.fuji = file.fuji /\ (r.shrink <=> file.filters /\ raw.half)
      /\ r.mixGreen => file.colors = 3
      /\ r.colors = IF r.mixGreen THEN 4 ELSE file.colors
      /\ PRE_INTERPOLATE \in r.flags
  BY <1>1, WholePicture
<1>4. Stage("pre_interpolate", PRE_INTERPOLATE, {heap, h}, short, s, h, next)
  BY DEF PreInterpolate
<1>5. /\ Lost(h) /\ Cardinality(h.mems) <= 7 /\ ~Aliased(h) /\ h.at["buffer"] = NULL
      /\ \A p \in WorkPointers : h.at[p] = NULL
      /\ \A g \in {heap, h} \cup short : Lost(g)
  <2>1. /\ Lost(Replaced) /\ Cardinality(Replaced.mems) <= 6 + 1
        /\ ~Aliased(Replaced) /\ Replaced.at["buffer"] = NULL
        /\ \A p \in WorkPointers : Replaced.at[p] = NULL
    BY <1>1, ReplacedLost
  <2>2. Lost(heap) /\ ~Aliased(heap) /\ heap.at["buffer"] = NULL /\ Cardinality(heap.mems) <= 7
    BY <1>1, ProcessHeap
  <2>3. \A p \in WorkPointers : heap.at[p] = NULL
    BY <1>1, ProcessHeap
  <2>4. short \subseteq {heap}
    OBVIOUS
  <2> HIDE DEF grown, short
  <2> QED  BY <2>1, <2>2, <2>3, <2>4
<1>6. r = SetProcFlag(s, PRE_INTERPOLATE)
  OBVIOUS
<1> HIDE DEF h, short, s, r, next
<1>7. Went(PRE_INTERPOLATE, r, h, next) \/ \E g : Gave(g) /\ Lost(g)
  <2>1. Went(PRE_INTERPOLATE, r, h, next) \/ \E g \in {heap, h} \cup short : Gave(g)
    BY <1>1, <1>4, <1>6, StageOutcome DEF IInv
  <2> QED  BY <1>5, <2>1
<1>8. ASSUME Went(PRE_INTERPOLATE, r, h, next)
      PROVE  /\ told' \in OPEN..THUMB_LOAD => ToldInv'
             /\ TableInv' /\ FoundInv' /\ ReducedInv' /\ WholeInv' /\ ReadyInv'
  <2>1. told' \in OPEN..THUMB_LOAD => ToldInv'
    <3>1. told' <= INTERPOLATE /\ told' <= FUJI_ROTATE
      BY <1>1, <1>8, ProcessHeap DEF Went, PRE_INTERPOLATE, INTERPOLATE, FUJI_ROTATE, OPEN, THUMB_LOAD
    <3> QED  BY <1>1, <1>2, <1>8, <3>1, ProcessHeap DEF ToldInv, After, Went, UnpackCalls, loaderVars
  <2>2. TableInv'
    <3>1. Cardinality(h.mems) \in Nat
      BY <1>5, FS_CardinalityType DEF Lost, Kept, Accounted
    <3> QED  BY <1>2, <1>5, <1>8, <3>1 DEF TableInv, After, Went, ReducedCalls
  <2>3. FoundInv' /\ ReducedInv'
    BY <1>2, <1>8 DEF FoundInv, ReducedInv, After, Went, UnpackCalls, ReducedCalls
  <2>4. WholeInv'
    BY <1>2, <1>3, <1>8 DEF WholeInv, Went, Side
  <2>5. ReadyInv'
    BY <1>2, <1>3, <1>8 DEF ReadyInv, Went, After, ReadyCalls
  <2> QED  BY <2>1, <2>2, <2>3, <2>4, <2>5
<1>9. next \in ProcessCalls \cup {"idle"}
  BY <1>2 DEF ProcessCalls, WholeCalls
<1>10. \A p \in WorkPointers : h.at[p] # NULL => p = "work1" /\ next = "ahd_rows"
  BY <1>5
<1> QED  BY <1>1, <1>3, <1>5, <1>7, <1>8, <1>9, <1>10, ProcessInv

(* From one stage that works on the whole picture to another.                *)
LEMMA WholeKept ==
    ASSUME IInv, call \in WholeCalls \ {"mix_green", "fuji_rotate"}, NEW most, NEW r, NEW h,
           NEW next \in {"ahd_rows", "mix_green"}, Went(most, r, h, next),
           r.size = raw.size, r.area = raw.area, r.fuji = raw.fuji, r.shrink = raw.shrink,
           r.mixGreen = raw.mixGreen, r.colors = raw.colors, r.half = raw.half,
           raw.flags \subseteq r.flags
    PROVE  FoundInv' /\ ReducedInv' /\ WholeInv' /\ ReadyInv'
<1>1. FoundInv' /\ ReducedInv'
  BY DEF FoundInv, ReducedInv, After, Went, UnpackCalls, ReducedCalls
<1>2. WholeInv'
  BY DEF WholeInv, Went, Side, WholeCalls, IInv, PictureInv
<1>3. ReadyInv'
  BY DEF ReadyInv, Went, After, ReadyCalls, WholeCalls, IInv, PictureInv
<1> QED  BY <1>1, <1>2, <1>3

LEMMA VngInv ==
    ASSUME IInv, Vng, UNCHANGED loaderVars
    PROVE  IInv' /\ told <= told'
<1> DEFINE r == SetProcFlag(raw, INTERPOLATE)
           one == Malloc(heap, <<"work1">>)
           two == Malloc(heap, <<"work1", "work2">>)
<1>1. /\ call = "vng" /\ call \in ProcessCalls \ {"ahd_rows"} /\ call \in WholeCalls
      /\ INTERPOLATE \in OPEN..THUMB_LOAD /\ told <= INTERPOLATE
      /\ Cardinality(heap.mems) <= 7
  BY Numbers DEF Vng, Stage, ProcessCalls, WholeCalls, IInv, ControlInv, ToldInv, HeapInv, TableInv
<1>2. /\ r \in Raws /\ r.inputInternal = raw.inputInternal /\ r.size = raw.size
      /\ r.shrink = raw.shrink /\ r.fuji = raw.fuji /\ r.area = raw.area
      /\ r.colors = raw.colors /\ r.mixGreen = raw.mixGreen /\ r.half = raw.half
      /\ raw.flags \subseteq r.flags
  BY <1>1, ProcessHeap, FlagRaw
<1>3. Lost(heap) /\ Lost(one) /\ Lost(two)
  <2> DEFINE v == "work1"
             w == "work2"
  <2>1. v \in Managed /\ w \in Managed /\ v # w /\ v \notin {"image", "raw_alloc"}
    BY DEF Managed
  <2>2. one = Malloc(heap, <<v>>) /\ two = Malloc(heap, <<v, w>>)
    OBVIOUS
  <2> HIDE DEF v, w, one, two
  <2>3. {v, w} # {"image", "raw_alloc"} /\ 7 \in 0..10 /\ 7 \in 0..11 /\ Lost(heap)
    BY <1>1, <2>1, ProcessHeap
  <2>4. Lost(Malloc(heap, <<v>>))
    BY <1>1, <2>1, <2>3, LostMallocOne
  <2>5. Lost(Malloc(heap, <<v, w>>))
    BY <1>1, <2>1, <2>3, LostMallocTwo
  <2> QED  BY <2>2, <2>3, <2>4, <2>5
<1>4. Stage("vng", INTERPOLATE, {heap, two}, {heap, one}, raw, heap, "mix_green")
  BY DEF Vng
<1>5. r = SetProcFlag(raw, INTERPOLATE)
  OBVIOUS
<1> HIDE DEF r, one, two
<1>6. Went(INTERPOLATE, r, heap, "mix_green") \/ \E g : Gave(g) /\ Lost(g)
  <2>1. Went(INTERPOLATE, r, heap, "mix_green") \/ \E g \in {heap, two} \cup {heap, one} : Gave(g)
    BY <1>1, <1>4, <1>5, StageOutcome DEF IInv
  <2> QED  BY <1>3, <2>1
<1>7. ASSUME Went(INTERPOLATE, r, heap, "mix_green")
      PROVE  /\ told' \in OPEN..THUMB_LOAD => ToldInv'
             /\ TableInv' /\ FoundInv' /\ ReducedInv' /\ WholeInv' /\ ReadyInv'
  <2>1. told' \in OPEN..THUMB_LOAD => ToldInv'
    <3>1. told' <= FUJI_ROTATE
      BY <1>1, <1>7, ProcessHeap DEF Went, INTERPOLATE, FUJI_ROTATE, OPEN, THUMB_LOAD
    <3> QED  BY <1>1, <1>7, <3>1, ProcessHeap DEF ToldInv, After, Went, UnpackCalls, loaderVars
  <2>2. TableInv'
    BY <1>1, <1>7, ProcessHeap DEF TableInv, After, Went, ReducedCalls
  <2>3. FoundInv' /\ ReducedInv' /\ WholeInv' /\ ReadyInv'
    BY <1>1, <1>2, <1>7, WholeKept
  <2> QED  BY <2>1, <2>2, <2>3
<1>8. "mix_green" \in ProcessCalls \cup {"idle"}
  BY DEF ProcessCalls, WholeCalls
<1> QED  BY <1>1, <1>2, <1>6, <1>7, <1>8, ProcessHeap, ProcessInv

LEMMA PpgInv ==
    ASSUME IInv, Ppg, UNCHANGED loaderVars
    PROVE  IInv' /\ told <= told'
<1> DEFINE r == SetProcFlag(raw, INTERPOLATE)
<1>1. /\ call = "ppg" /\ call \in ProcessCalls \ {"ahd_rows"} /\ call \in WholeCalls
      /\ INTERPOLATE \in OPEN..THUMB_LOAD /\ told <= INTERPOLATE
      /\ Cardinality(heap.mems) <= 7
  BY Numbers DEF Ppg, Stage, ProcessCalls, WholeCalls, IInv, ControlInv, ToldInv, HeapInv, TableInv
<1>2. /\ r \in Raws /\ r.inputInternal = raw.inputInternal /\ r.size = raw.size
      /\ r.shrink = raw.shrink /\ r.fuji = raw.fuji /\ r.area = raw.area
      /\ r.colors = raw.colors /\ r.mixGreen = raw.mixGreen /\ r.half = raw.half
      /\ raw.flags \subseteq r.flags
  BY <1>1, ProcessHeap, FlagRaw
<1>3. Went(INTERPOLATE, r, heap, "mix_green") \/ \E g : Gave(g) /\ Lost(g)
  <2>1. Stage("ppg", INTERPOLATE, {heap}, {}, raw, heap, "mix_green")
    BY DEF Ppg
  <2> QED  BY <1>1, <2>1, StageOutcome, ProcessHeap DEF IInv
<1> HIDE DEF r
<1>4. ASSUME Went(INTERPOLATE, r, heap, "mix_green")
      PROVE  /\ told' \in OPEN..THUMB_LOAD => ToldInv'
             /\ TableInv' /\ FoundInv' /\ ReducedInv' /\ WholeInv' /\ ReadyInv'
  <2>1. told' \in OPEN..THUMB_LOAD => ToldInv'
    <3>1. told' <= FUJI_ROTATE
      BY <1>1, <1>4, ProcessHeap DEF Went, INTERPOLATE, FUJI_ROTATE, OPEN, THUMB_LOAD
    <3> QED  BY <1>1, <1>4, <3>1, ProcessHeap DEF ToldInv, After, Went, UnpackCalls, loaderVars
  <2>2. TableInv'
    BY <1>1, <1>4, ProcessHeap DEF TableInv, After, Went, ReducedCalls
  <2>3. FoundInv' /\ ReducedInv' /\ WholeInv' /\ ReadyInv'
    BY <1>1, <1>2, <1>4, WholeKept
  <2> QED  BY <2>1, <2>2, <2>3
<1>5. "mix_green" \in ProcessCalls \cup {"idle"}
  BY DEF ProcessCalls, WholeCalls
<1> QED  BY <1>1, <1>2, <1>3, <1>4, <1>5, ProcessHeap, ProcessInv

LEMMA AhdBufferInv ==
    ASSUME IInv, AhdBuffer, UNCHANGED loaderVars
    PROVE  IInv' /\ told <= told'
<1> DEFINE r == [raw EXCEPT !.terminate = FALSE, !.tiles = 0]
           h == Malloc(heap, <<"work1">>)
<1>1. /\ call = "ahd" /\ call \in ProcessCalls \ {"ahd_rows"} /\ call \in WholeCalls
      /\ told <= INTERPOLATE /\ Cardinality(heap.mems) <= 7
  BY DEF AhdBuffer, Acquire, Step, ProcessCalls, WholeCalls, IInv, ControlInv, ToldInv, HeapInv, TableInv
<1>2. /\ r \in Raws /\ r.inputInternal = raw.inputInternal /\ r.size = raw.size
      /\ r.shrink = raw.shrink /\ r.fuji = raw.fuji /\ r.area = raw.area
      /\ r.colors = raw.colors /\ r.mixGreen = raw.mixGreen /\ r.half = raw.half
      /\ raw.flags \subseteq r.flags
  <2>1. raw \in Raws /\ 0 \in 0..MaxTiles
    BY <1>1, ProcessHeap, LibRawAssumption
  <2> QED  BY <2>1 DEF Raws
<1>3. /\ Lost(h) /\ Cardinality(h.mems) <= 8 /\ ~Aliased(h) /\ h.at["buffer"] = NULL
      /\ \A p \in WorkPointers : h.at[p] # NULL => p = "work1"
  <2> DEFINE v == "work1"
  <2>1. /\ v \in Managed /\ {"image", "raw_alloc", "buffer"} \subseteq Pointers \ {v}
        /\ WorkPointers \subseteq Pointers
    BY PointerNames DEF Managed, Recycled, OwnAlways, WorkPointers
  <2>2. h = Malloc(heap, <<v>>)
    OBVIOUS
  <2> HIDE DEF v, h
  <2>3. /\ Lost(Malloc(heap, <<v>>)) /\ Cardinality(Malloc(heap, <<v>>).mems) <= 7 + 1
        /\ \A q \in Pointers \ {v} : Malloc(heap, <<v>>).at[q] = heap.at[q]
    BY <1>1, <2>1, ProcessHeap, LostMallocOne
  <2>4. ~Aliased(h) /\ h.at["buffer"] = NULL
    BY <1>1, <2>1, <2>2, <2>3, ProcessHeap DEF Aliased
  <2>5. \A p \in WorkPointers : h.at[p] # NULL => p = v
    BY <1>1, <2>1, <2>2, <2>3, ProcessHeap
  <2> QED  BY <2>2, <2>3, <2>4, <2>5 DEF v
<1>4. Acquire("ahd", r, h, "ahd_rows")
  BY DEF AhdBuffer
<1> HIDE DEF r, h
<1>5. Went(told, r, h, "ahd_rows") \/ \E g : Gave(g) /\ Lost(g)
  BY <1>1, <1>4, AcquireOutcome, ProcessHeap DEF IInv
<1>6. ASSUME Went(told, r, h, "ahd_rows")
      PROVE  /\ told' \in OPEN..THUMB_LOAD => ToldInv'
             /\ TableInv' /\ FoundInv' /\ ReducedInv' /\ WholeInv' /\ ReadyInv'
  <2>1. told' \in OPEN..THUMB_LOAD => ToldInv'
    BY <1>1, <1>6, ProcessHeap DEF ToldInv, After, Went, UnpackCalls, loaderVars
  <2>2. TableInv'
    BY <1>3, <1>6 DEF TableInv, After, Went, ReducedCalls
  <2>3. FoundInv' /\ ReducedInv' /\ WholeInv' /\ ReadyInv'
    BY <1>1, <1>2, <1>6, WholeKept
  <2> QED  BY <2>1, <2>2, <2>3
<1>7. "ahd_rows" \in ProcessCalls \cup {"idle"} /\ told \in OPEN..THUMB_LOAD
  BY <1>1, ProcessHeap DEF ProcessCalls, WholeCalls
<1>8. \A p \in WorkPointers : h.at[p] # NULL => p = "work1" /\ "ahd_rows" = "ahd_rows"
  BY <1>3
<1> QED  BY <1>1, <1>2, <1>3, <1>5, <1>6, <1>7, <1>8, ProcessInv

(* A refusal stays noted until the rows are over.                            *)
LEMMA AhdRowInv ==
    ASSUME IInv, AhdRow, UNCHANGED loaderVars
    PROVE  IInv' /\ told <= told'
<1>1. /\ call = "ahd_rows" /\ call \in ProcessCalls /\ call \in WholeCalls
      /\ UNCHANGED <<heap, file, call, ret>> /\ raw.tiles < MaxTiles
      /\ told <= INTERPOLATE /\ INTERPOLATE \in OPEN..THUMB_LOAD
  BY Numbers DEF AhdRow, ProcessCalls, WholeCalls, IInv, ControlInv, ToldInv
<1>2. PICK go \in BOOLEAN :
        /\ Answer(INTERPOLATE, go)
        /\ raw' = [raw EXCEPT !.terminate = @ \/ ~go, !.tiles = @ + 1]
  BY DEF AhdRow
<1>3. pc = "processed" /\ raw \in Raws /\ ret = "SUCCESS"
  BY <1>1, ProcessHeap
<1>4. /\ raw' \in Raws /\ raw'.inputInternal = raw.inputInternal /\ raw'.size = raw.size
      /\ raw'.shrink = raw.shrink /\ raw'.fuji = raw.fuji /\ raw'.area = raw.area
      /\ raw'.colors = raw.colors /\ raw'.mixGreen = raw.mixGreen /\ raw'.half = raw.half
      /\ raw'.flags = raw.flags /\ raw'.made = raw.made
      /\ raw'.terminate = (raw.terminate \/ ~go)
  <2> DEFINE terminate == raw.terminate \/ ~go
             tiles == raw.tiles + 1
  <2>1. terminate \in BOOLEAN /\ tiles \in 0..MaxTiles
    BY <1>1, <1>3, LibRawAssumption DEF Raws
  <2>2. raw' = [raw EXCEPT !.terminate = terminate, !.tiles = tiles]
    BY <1>2
  <2> HIDE DEF terminate, tiles
  <2>3. /\ raw' \in Raws /\ raw'.inputInternal = raw.inputInternal /\ raw'.size = raw.size
        /\ raw'.shrink = raw.shrink /\ raw'.fuji = raw.fuji /\ raw'.area = raw.area
        /\ raw'.colors = raw.colors /\ raw'.mixGreen = raw.mixGreen /\ raw'.half = raw.half
        /\ raw'.flags = raw.flags /\ raw'.made = raw.made
        /\ raw'.terminate = terminate
    BY <1>3, <2>1, <2>2 DEF Raws
  <2> QED  BY <2>3 DEF terminate
<1>5. refused => raw.terminate
  BY <1>1 DEF IInv, ControlInv, ResultInv, Failed
<1>6. /\ refused \in BOOLEAN /\ pending \in {"none", "java"}
      /\ pending = "java" => refused
      /\ told \in OPEN..THUMB_LOAD
  BY <1>1, <1>3 DEF IInv, ControlInv, ResultInv, ToldInv
<1>7. /\ told' \in OPEN..THUMB_LOAD /\ told <= told' /\ told' <= INTERPOLATE
      /\ refused' \in BOOLEAN /\ (refused' => raw'.terminate)
      /\ pending' \in {"none", "java"} /\ (pending' = "java" => refused')
  <2>1. raw.terminate \in BOOLEAN
    BY <1>3 DEF Raws
  <2>2. told \in Int /\ INTERPOLATE \in Int
    BY <1>1, <1>6, Numbers
  <2>3. CASE ~raw.listening
    BY <1>1, <1>2, <1>4, <1>5, <1>6, <2>1, <2>2, <2>3 DEF Answer
  <2>4. CASE raw.listening
    <3>1. /\ told' = INTERPOLATE /\ refused' = (refused \/ ~go)
          /\ IF go THEN pending' = pending ELSE pending' \in {pending, "java"}
      BY <1>2, <2>4 DEF Answer
    <3>2. told' \in OPEN..THUMB_LOAD /\ told <= told' /\ told' <= INTERPOLATE
      BY <1>1, <2>2, <3>1
    <3>3. CASE go = TRUE
      BY <1>4, <1>5, <1>6, <2>1, <3>1, <3>2, <3>3
    <3>4. CASE go = FALSE
      BY <1>4, <1>5, <1>6, <2>1, <3>1, <3>2, <3>4
    <3> QED  BY <3>3, <3>4
  <2> QED  BY <2>3, <2>4
<1>8. PhaseInv'
  BY <1>1, <1>4 DEF IInv, ControlInv, PhaseInv, loaderVars
<1>9. ResultInv'
  BY <1>1, <1>3, <1>7 DEF IInv, ControlInv, ResultInv, loaderVars
<1>10. ToldInv'
  BY <1>1, <1>3, <1>7 DEF ToldInv, After, UnpackCalls, loaderVars
<1>11. HeapInv'
  <2>1. BlocksInv'
    BY <1>1, <1>4 DEF IInv, HeapInv, BlocksInv, Own, Failed
  <2>2. PointersInv'
    BY <1>1, <1>4 DEF IInv, HeapInv, PointersInv, Failed, After, loaderVars
  <2>3. TableInv'
    BY <1>1 DEF IInv, HeapInv, TableInv, After, loaderVars
  <2> QED  BY <2>1, <2>2, <2>3 DEF HeapInv
<1>12. PictureInv'
  <2>1. FoundInv' /\ ReducedInv'
    BY <1>1 DEF FoundInv, ReducedInv, After, UnpackCalls, ReducedCalls
  <2>2. WholeInv'
    BY <1>1, <1>4 DEF WholeInv, Side, WholeCalls, IInv, PictureInv
  <2>3. ReadyInv'
    BY <1>1, <1>4 DEF ReadyInv, After, ReadyCalls, WholeCalls, IInv, PictureInv
  <2>4. MadeInv'
    BY <1>1, <1>3, StillNoPicture DEF MadeInv, After, loaderVars
  <2> QED  BY <2>1, <2>2, <2>3, <2>4 DEF PictureInv
<1> QED  BY <1>7, <1>8, <1>9, <1>10, <1>11, <1>12 DEF IInv, ControlInv

LEMMA AhdEndsInv ==
    ASSUME IInv, AhdEnds, UNCHANGED loaderVars
    PROVE  IInv' /\ told <= told'
<1> DEFINE h == Free(heap, {"work1"})
           r == SetProcFlag(raw, INTERPOLATE)
<1>1. /\ call = "ahd_rows" /\ call \in ProcessCalls /\ call \in WholeCalls
      /\ told <= INTERPOLATE /\ INTERPOLATE \in OPEN..THUMB_LOAD
      /\ Cardinality(heap.mems) <= 8
  BY Numbers DEF AhdEnds, Step, ProcessCalls, WholeCalls, IInv, ControlInv, ToldInv, HeapInv, TableInv
<1>2. /\ Lost(h) /\ Cardinality(h.mems) <= 8 /\ ~Aliased(h) /\ h.at["buffer"] = NULL
      /\ \A p \in WorkPointers : h.at[p] = NULL
  <2> DEFINE ps == {"work1"}
  <2>1. /\ ps \in SUBSET (Managed \cup {"buffer"}) /\ {"image", "raw_alloc", "buffer"} \cap ps = {}
        /\ {"image", "raw_alloc", "buffer"} \cup WorkPointers \subseteq Pointers
        /\ \A p \in WorkPointers : heap.at[p] # NULL => p \in ps
    BY PointerNames DEF Managed, Recycled, OwnAlways, WorkPointers, IInv, HeapInv, PointersInv
  <2> HIDE DEF ps
  <2>2. /\ Lost(Free(heap, ps)) /\ Cardinality(Free(heap, ps).mems) <= Cardinality(heap.mems)
        /\ \A p \in Pointers : Free(heap, ps).at[p] = IF p \in ps THEN NULL ELSE heap.at[p]
    BY <1>1, <2>1, ProcessHeap, LostFree DEF Lost
  <2>3. Cardinality(Free(heap, ps).mems) \in Nat /\ Cardinality(heap.mems) \in Nat
    BY <1>1, <2>2, ProcessHeap, FS_CardinalityType DEF Lost, Kept, Accounted
  <2>4. h = Free(heap, ps)
    BY DEF ps
  <2> HIDE DEF h
  <2> QED  BY <1>1, <2>1, <2>2, <2>3, <2>4, ProcessHeap DEF Aliased
<1> HIDE DEF h
<1>3. CASE raw.terminate
  <2>1. Throw("CANCELLED", h) /\ UNCHANGED <<file, told, refused, pending>>
    BY <1>3 DEF AhdEnds, h
  <2>2. /\ refused \in BOOLEAN /\ pending \in {"none", "java"} /\ (pending = "java" => refused)
        /\ told \in OPEN..THUMB_LOAD /\ told <= told
    BY <1>1, ProcessHeap DEF IInv, ControlInv, ResultInv
  <2>3. Gave(h)
    BY <2>1, <2>2, ThrowOutcome DEF IInv
  <2> QED  BY <1>1, <1>2, <2>3, GaveInv DEF Gave
<1>4. CASE ~raw.terminate
  <2>1. Step("ahd_rows", r, h, "mix_green")
    BY <1>4 DEF AhdEnds, h
  <2>2. /\ r \in Raws /\ r.inputInternal = raw.inputInternal /\ r.size = raw.size
        /\ r.shrink = raw.shrink /\ r.fuji = raw.fuji /\ r.area = raw.area
        /\ r.colors = raw.colors /\ r.mixGreen = raw.mixGreen /\ r.half = raw.half
        /\ raw.flags \subseteq r.flags
    BY <1>1, ProcessHeap, FlagRaw
  <2> HIDE DEF r
  <2>3. Went(told, r, h, "mix_green") /\ told \in OPEN..THUMB_LOAD
    BY <1>1, <2>1, StepOutcome, ProcessHeap DEF IInv
  <2>4. refused = FALSE
    BY <1>1, <1>4 DEF IInv, ControlInv, ResultInv, Failed
  <2>5. \A p \in WorkPointers : h.at[p] # NULL => p = "work1" /\ "mix_green" = "ahd_rows"
    BY <1>2
  <2>6. told' \in OPEN..THUMB_LOAD => ToldInv'
    <3>1. told' <= FUJI_ROTATE
      BY <1>1, <2>3, ProcessHeap DEF Went, INTERPOLATE, FUJI_ROTATE, OPEN, THUMB_LOAD
    <3> QED  BY <1>1, <2>3, <3>1, ProcessHeap DEF ToldInv, After, Went, UnpackCalls, loaderVars
  <2>7. TableInv'
    BY <1>2, <2>3 DEF TableInv, After, Went, ReducedCalls
  <2>8. FoundInv' /\ ReducedInv' /\ WholeInv' /\ ReadyInv'
    BY <1>1, <2>2, <2>3, WholeKept
  <2>9. "mix_green" \notin OpenCalls /\ Along(call, "mix_green")
    BY <1>1 DEF OpenCalls, Along, ProcessCalls, WholeCalls
  <2> QED  BY <1>1, <1>2, <2>2, <2>3, <2>4, <2>5, <2>6, <2>7, <2>8, <2>9, StageInv
<1> QED  BY <1>3, <1>4, ProcessHeap, <1>1 DEF Raws

LEMMA MixGreenInv ==
    ASSUME IInv, MixGreen, UNCHANGED loaderVars
    PROVE  IInv' /\ told <= told'
<1> DEFINE q == [raw EXCEPT !.colors = 3]
           s == IF raw.mixGreen THEN SetProcFlag(q, MIX_GREEN) ELSE raw
           r == IF s.colors = 3 THEN SetProcFlag(s, MEDIAN_FILTER) ELSE s
<1>1. /\ call = "mix_green" /\ call \in ProcessCalls \ {"ahd_rows"} /\ call \in WholeCalls
      /\ told <= FUJI_ROTATE /\ Cardinality(heap.mems) <= 8
      /\ MIX_GREEN \in OPEN..THUMB_LOAD /\ MEDIAN_FILTER \in OPEN..THUMB_LOAD
  BY Numbers DEF MixGreen, Step, ProcessCalls, WholeCalls, IInv, ControlInv, ToldInv, HeapInv, TableInv
<1>2. Step("mix_green", r, heap, "fuji_rotate")
  BY DEF MixGreen
<1>3. /\ s \in Raws /\ s.inputInternal = raw.inputInternal /\ s.size = raw.size
      /\ s.shrink = raw.shrink /\ s.fuji = raw.fuji /\ s.area = raw.area
      /\ s.mixGreen = raw.mixGreen /\ s.half = raw.half
      /\ raw.flags \subseteq s.flags
      /\ s.colors = IF raw.mixGreen THEN 3 ELSE raw.colors
  <2>1. raw \in Raws
    BY <1>1, ProcessHeap
  <2>2. /\ q \in Raws /\ q.inputInternal = raw.inputInternal /\ q.size = raw.size
        /\ q.shrink = raw.shrink /\ q.fuji = raw.fuji /\ q.area = raw.area
        /\ q.mixGreen = raw.mixGreen /\ q.half = raw.half /\ q.flags = raw.flags /\ q.colors = 3
    BY <2>1 DEF Raws
  <2> HIDE DEF q
  <2>3. CASE raw.mixGreen
    BY <1>1, <2>2, <2>3, FlagRaw
  <2>4. CASE ~raw.mixGreen
    BY <2>1, <2>4
  <2> QED  BY <2>3, <2>4
<1> HIDE DEF s
<1>4. /\ r \in Raws /\ r.inputInternal = raw.inputInternal /\ r.size = raw.size
      /\ r.shrink = raw.shrink /\ r.fuji = raw.fuji /\ r.area = raw.area
      /\ r.mixGreen = raw.mixGreen /\ r.half = raw.half
      /\ raw.flags \subseteq r.flags
      /\ r.colors = IF raw.mixGreen THEN 3 ELSE raw.colors
  <2>1. CASE s.colors = 3
    BY <1>1, <1>3, <2>1, FlagRaw
  <2>2. CASE s.colors # 3
    BY <1>3, <2>2
  <2> QED  BY <2>1, <2>2
<1> HIDE DEF r
<1>5. Went(told, r, heap, "fuji_rotate") /\ told \in OPEN..THUMB_LOAD
  BY <1>1, <1>2, StepOutcome, ProcessHeap DEF IInv
<1>6. /\ told' \in OPEN..THUMB_LOAD => ToldInv'
      /\ TableInv' /\ FoundInv' /\ ReducedInv' /\ WholeInv' /\ ReadyInv'
  <2>1. told' \in OPEN..THUMB_LOAD => ToldInv'
    BY <1>1, <1>5, ProcessHeap DEF ToldInv, After, Went, UnpackCalls, loaderVars
  <2>2. TableInv'
    BY <1>1, <1>5, ProcessHeap DEF TableInv, After, Went, ReducedCalls
  <2>3. FoundInv' /\ ReducedInv'
    BY <1>5 DEF FoundInv, ReducedInv, After, Went, UnpackCalls, ReducedCalls
  <2>4. WholeInv'
    BY <1>1, <1>4, <1>5 DEF WholeInv, Went, Side, WholeCalls, IInv, PictureInv
  <2>5. ReadyInv'
    BY <1>1, <1>4, <1>5 DEF ReadyInv, Went, After, ReadyCalls, WholeCalls, IInv, PictureInv
  <2> QED  BY <2>1, <2>2, <2>3, <2>4, <2>5
<1>7. "fuji_rotate" \in ProcessCalls \cup {"idle"}
  BY DEF ProcessCalls, WholeCalls
<1> QED  BY <1>1, <1>4, <1>5, <1>6, <1>7, ProcessHeap, ProcessInv

LEMMA Sides ==
    ASSUME IInv
    PROVE  /\ Side(file.w) \in Nat /\ Side(file.w) > 0
           /\ Side(file.h) \in Nat /\ Side(file.h) > 0
           /\ Side(file.h) = IF file.filters /\ raw.half THEN (file.h + 1) \div 2 ELSE file.h
<1>1. file.w \in Nat /\ file.w > 0 /\ file.h \in Nat /\ file.h > 0
  BY FileTypes
<1>2. (file.w + 1) \div 2 \in Nat /\ (file.w + 1) \div 2 > 0
  BY <1>1
<1>3. (file.h + 1) \div 2 \in Nat /\ (file.h + 1) \div 2 > 0
  BY <1>1
<1> QED  BY <1>1, <1>2, <1>3 DEF Side, Half

(* A rotated picture has a side: fuji_width columns are less than its height. *)
LEMMA RotatedSize ==
    ASSUME NEW fuji \in Nat, fuji > 0, NEW high \in Nat, fuji < high, NEW half \in BOOLEAN,
           NEW f, f = IF half THEN fuji \div 2 ELSE fuji - 1,
           NEW h, h = IF half THEN (high + 1) \div 2 ELSE high
    PROVE  Diagonal(f) \in Nat /\ Diagonal(h - f) \in Nat /\ Diagonal(h - f) > 0
<1>1. f \in Nat /\ h \in Nat /\ h - f >= 1
  <2>1. CASE half
    BY <2>1
  <2>2. CASE ~half
    BY <2>2
  <2> QED  BY <2>1, <2>2
<1>2. \A n \in Nat : (n * 99) \div 70 \in Nat
  OBVIOUS
<1>3. \A n \in Nat : n >= 1 => (n * 99) \div 70 > 0
  OBVIOUS
<1>4. h - f \in Nat
  BY <1>1
<1> QED  BY <1>1, <1>2, <1>3, <1>4 DEF Diagonal

LEMMA FujiRotateInv ==
    ASSUME IInv, FujiRotate, UNCHANGED loaderVars
    PROVE  IInv' /\ told <= told'
<1>1. /\ call = "fuji_rotate" /\ call \in ProcessCalls \ {"ahd_rows"} /\ call \in WholeCalls
      /\ FUJI_ROTATE \in OPEN..THUMB_LOAD /\ told <= FUJI_ROTATE
      /\ Cardinality(heap.mems) <= 8
  BY Numbers DEF FujiRotate, Step, Stage, ProcessCalls, WholeCalls, IInv, ControlInv, ToldInv,
     HeapInv, TableInv
<1>2. /\ raw.size.w = Side(file.w) /\ raw.size.h = Side(file.h) /\ raw.area = Area(raw.size)
      /\ raw.fuji = file.fuji /\ (raw.shrink <=> file.filters /\ raw.half)
      /\ raw.colors = file.colors /\ PRE_INTERPOLATE \in raw.flags
      /\ raw \in Raws
  BY <1>1, ProcessHeap DEF IInv, PictureInv, WholeInv, ReadyInv
<1>3. "convert_to_rgb" \in ProcessCalls \cup {"idle"} /\ told \in OPEN..THUMB_LOAD
  BY <1>1, ProcessHeap DEF ProcessCalls, ReadyCalls
<1>4. ASSUME NEW most \in OPEN..THUMB_LOAD, most <= FUJI_ROTATE, NEW r \in Raws, NEW h,
             r.inputInternal = raw.inputInternal, r.size.h > 0, r.area = Area(r.size),
             r.colors = file.colors, r.half = raw.half, PRE_INTERPOLATE \in r.flags,
             file.fuji = 0 => r.size.w = Side(file.w) /\ r.size.h = Side(file.h),
             Lost(h), ~Aliased(h), h.at["buffer"] = NULL, Cardinality(h.mems) <= 9,
             \A p \in WorkPointers : h.at[p] = NULL,
             Went(most, r, h, "convert_to_rgb") \/ \E g : Gave(g) /\ Lost(g)
      PROVE  IInv' /\ told <= told'
  <2>1. ASSUME Went(most, r, h, "convert_to_rgb")
        PROVE  /\ told' \in OPEN..THUMB_LOAD => ToldInv'
               /\ TableInv' /\ FoundInv' /\ ReducedInv' /\ WholeInv' /\ ReadyInv'
    <3>1. told' \in OPEN..THUMB_LOAD => ToldInv'
      <4>1. told' <= CONVERT_RGB
        BY <1>1, <1>3, <1>4, <2>1 DEF Went, FUJI_ROTATE, CONVERT_RGB, OPEN, THUMB_LOAD
      <4> QED  BY <1>1, <2>1, <4>1, ProcessHeap DEF ToldInv, After, Went, UnpackCalls, loaderVars
    <3>2. TableInv'
      BY <1>4, <2>1 DEF TableInv, After, Went, ReducedCalls
    <3>3. FoundInv' /\ ReducedInv' /\ WholeInv'
      BY <2>1 DEF FoundInv, ReducedInv, WholeInv, After, Went, UnpackCalls, ReducedCalls, WholeCalls
    <3>4. ReadyInv'
      BY <1>4, <2>1 DEF ReadyInv, Went, After, ReadyCalls, Side
    <3> QED  BY <3>1, <3>2, <3>3, <3>4
  <2>2. \A p \in WorkPointers : h.at[p] # NULL => p = "work1" /\ "convert_to_rgb" = "ahd_rows"
    BY <1>4
  <2> QED  BY <1>1, <1>3, <1>4, <2>1, <2>2, ProcessInv
<1>5. CASE raw.fuji = 0
  <2> DEFINE r == SetProcFlag(raw, FUJI_ROTATE)
  <2>1. Step("fuji_rotate", r, heap, "convert_to_rgb")
    BY <1>5 DEF FujiRotate
  <2>2. /\ r \in Raws /\ r.inputInternal = raw.inputInternal /\ r.size = raw.size
        /\ r.area = raw.area /\ r.colors = raw.colors /\ r.half = raw.half
        /\ PRE_INTERPOLATE \in r.flags
    BY <1>1, <1>2, FlagRaw
  <2> HIDE DEF r
  <2>3. Went(told, r, heap, "convert_to_rgb")
    BY <1>1, <2>1, StepOutcome DEF IInv
  <2>4. r.size.h > 0 /\ Cardinality(heap.mems) <= 9
    BY <1>1, <1>2, <2>2, Sides, ProcessHeap
  <2> QED  BY <1>1, <1>2, <1>3, <2>2, <2>3, <2>4, <1>4, ProcessHeap
<1>6. CASE raw.fuji # 0
  <2> DEFINE f == IF raw.shrink THEN raw.fuji \div 2 ELSE raw.fuji - 1
             a == Diagonal(f)
             b == Diagonal(raw.size.h - f)
             size == [raw.size EXCEPT !.w = a, !.h = b]
             area == Area(size)
             s == [raw EXCEPT !.size = size, !.area = area, !.fuji = 0]
             r == SetProcFlag(s, FUJI_ROTATE)
             grown == Malloc(heap, <<"img">>)
  <2>1. Stage("fuji_rotate", FUJI_ROTATE, {grown, Replaced}, {heap}, s, Replaced, "convert_to_rgb")
    BY <1>6 DEF FujiRotate
  <2>2. a \in Nat /\ b \in Nat /\ b > 0
    <3> DEFINE half == file.filters /\ raw.half
    <3>1. /\ file.fuji \in Nat /\ file.fuji > 0 /\ file.h \in Nat /\ file.fuji < file.h
          /\ half \in BOOLEAN
      BY <1>2, <1>6, FileTypes
    <3>2. f = IF half THEN file.fuji \div 2 ELSE file.fuji - 1
      BY <1>2
    <3>3. raw.size.h = IF half THEN (file.h + 1) \div 2 ELSE file.h
      BY <1>2, Sides
    <3> HIDE DEF f, half
    <3> QED  BY <3>1, <3>2, <3>3, RotatedSize
  <2> HIDE DEF f, a, b
  <2>3. size \in [w : Nat, h : Nat, iw : Nat, ih : Nat] /\ size.h = b
    <3>1. raw.size \in [w : Nat, h : Nat, iw : Nat, ih : Nat]
      BY <1>2 DEF Raws
    <3> QED  BY <2>2, <3>1
  <2> HIDE DEF size
  <2>4. area \in Nat
    BY <2>3 DEF Area
  <2> HIDE DEF area
  <2>5. /\ s \in Raws /\ s.inputInternal = raw.inputInternal /\ s.size = size
        /\ s.area = area /\ s.colors = raw.colors /\ s.half = raw.half /\ s.flags = raw.flags
    BY <1>2, <2>3, <2>4 DEF Raws
  <2>6. r = SetProcFlag(s, FUJI_ROTATE)
    OBVIOUS
  <2> HIDE DEF s, r
  <2>7. /\ r \in Raws /\ r.inputInternal = raw.inputInternal /\ r.size = size
        /\ r.area = area /\ r.colors = raw.colors /\ r.half = raw.half
        /\ PRE_INTERPOLATE \in r.flags
    BY <1>1, <1>2, <2>5, <2>6, FlagRaw
  <2>8. /\ Lost(grown) /\ Lost(Replaced) /\ Cardinality(Replaced.mems) <= 8 + 1
        /\ ~Aliased(Replaced) /\ Replaced.at["buffer"] = NULL
        /\ \A p \in WorkPointers : Replaced.at[p] = NULL
    BY <1>1, ReplacedLost
  <2>9. Went(FUJI_ROTATE, r, Replaced, "convert_to_rgb") \/ \E g : Gave(g) /\ Lost(g)
    <3> HIDE DEF grown
    <3>1. Went(FUJI_ROTATE, r, Replaced, "convert_to_rgb") \/ \E g \in {grown, Replaced} \cup {heap} : Gave(g)
      BY <1>1, <2>1, <2>6, StageOutcome DEF IInv
    <3> QED  BY <1>1, <2>8, <3>1, ProcessHeap
  <2>10. r.size.h > 0 /\ r.area = Area(r.size) /\ r.colors = file.colors /\ file.fuji # 0
    BY <1>2, <1>6, <2>2, <2>3, <2>7 DEF area
  <2>11. Cardinality(Replaced.mems) <= 9 /\ FUJI_ROTATE <= FUJI_ROTATE
    BY <2>8 DEF FUJI_ROTATE
  <2> QED  BY <1>1, <2>7, <2>8, <2>9, <2>10, <2>11, <1>4
<1> QED  BY <1>5, <1>6

LEMMA ConvertToRgbInv ==
    ASSUME IInv, ConvertToRgb, UNCHANGED loaderVars
    PROVE  IInv' /\ told <= told'
<1> DEFINE counted == Malloc(heap, <<"histogram">>)
           h == IF raw.colors = 1 THEN counted ELSE Malloc(counted, <<"oprof">>)
           colors == IF raw.colors = 4 THEN 3 ELSE raw.colors
           s == [raw EXCEPT !.colors = colors]
           r == SetProcFlag(s, CONVERT_RGB)
<1>1. /\ call = "convert_to_rgb" /\ call \in ProcessCalls \ {"ahd_rows"} /\ call \in ReadyCalls
      /\ CONVERT_RGB \in OPEN..THUMB_LOAD /\ told <= CONVERT_RGB
      /\ Cardinality(heap.mems) <= 9
  BY Numbers DEF ConvertToRgb, Stage, ProcessCalls, ReadyCalls, IInv, ControlInv, ToldInv,
     HeapInv, TableInv
<1>2. /\ raw.size.h > 0 /\ raw.area = Area(raw.size) /\ raw.colors = file.colors
      /\ PRE_INTERPOLATE \in raw.flags /\ raw \in Raws
      /\ file.fuji = 0 => raw.size.w = Side(file.w) /\ raw.size.h = Side(file.h)
  BY <1>1, ProcessHeap DEF IInv, PictureInv, ReadyInv
<1>3. Stage("convert_to_rgb", CONVERT_RGB, {counted, h}, {heap, counted}, s, h, "stretch")
  BY DEF ConvertToRgb
<1>4. /\ r \in Raws /\ r.inputInternal = raw.inputInternal /\ r.size = raw.size
      /\ r.area = raw.area /\ r.half = raw.half /\ PRE_INTERPOLATE \in r.flags
      /\ r.colors = ColoursLeft
  <2>1. colors \in 0..4 /\ colors = ColoursLeft
    BY <1>2 DEF ColoursLeft, Raws
  <2> HIDE DEF colors
  <2>2. /\ s \in Raws /\ s.inputInternal = raw.inputInternal /\ s.size = raw.size
        /\ s.area = raw.area /\ s.half = raw.half /\ s.flags = raw.flags /\ s.colors = colors
    BY <1>2, <2>1 DEF Raws
  <2> HIDE DEF s
  <2> QED  BY <1>1, <1>2, <2>1, <2>2, FlagRaw
<1>5. /\ Lost(counted) /\ Lost(h) /\ Cardinality(h.mems) <= 11 /\ ~Aliased(h)
      /\ h.at["buffer"] = NULL /\ \A p \in WorkPointers : h.at[p] = NULL
  <2> DEFINE v == "histogram"
             w == "oprof"
  <2>1. /\ v \in Managed /\ w \in Managed
        /\ {"image", "raw_alloc", "buffer"} \cup WorkPointers \subseteq Pointers \ {v, w}
    BY PointerNames DEF Managed, Recycled, OwnAlways, WorkPointers
  <2>2. /\ counted = Malloc(heap, <<v>>)
        /\ h = IF raw.colors = 1 THEN counted ELSE Malloc(counted, <<w>>)
    OBVIOUS
  <2> HIDE DEF v, w, counted, h
  <2>3. /\ Lost(counted) /\ Cardinality(counted.mems) <= 9 + 1
        /\ \A q \in Pointers \ {v} : counted.at[q] = heap.at[q]
    BY <1>1, <2>1, <2>2, ProcessHeap, LostMallocOne
  <2>4. /\ Lost(Malloc(counted, <<w>>)) /\ Cardinality(Malloc(counted, <<w>>).mems) <= 10 + 1
        /\ \A q \in Pointers \ {w} : Malloc(counted, <<w>>).at[q] = counted.at[q]
    BY <2>1, <2>3, LostMallocOne
  <2>5. Cardinality(counted.mems) \in Nat
    BY <2>3, FS_CardinalityType DEF Lost, Kept, Accounted
  <2>6. /\ Lost(h) /\ Cardinality(h.mems) <= 11
        /\ \A q \in Pointers \ {v, w} : h.at[q] = heap.at[q]
    <3>1. CASE raw.colors = 1
      BY <2>2, <2>3, <2>5, <3>1
    <3>2. CASE raw.colors # 1
      <4>1. h = Malloc(counted, <<w>>)
        BY <2>2, <3>2
      <4>2. Cardinality(h.mems) \in Nat
        BY <2>4, <4>1, FS_CardinalityType DEF Lost, Kept, Accounted
      <4>3. Lost(h) /\ Cardinality(h.mems) <= 11
        BY <2>4, <4>1, <4>2
      <4>4. \A q \in Pointers \ {v, w} : h.at[q] = heap.at[q]
        BY <2>3, <2>4, <4>1
      <4> QED  BY <4>3, <4>4
    <3> QED  BY <3>1, <3>2
  <2>7. ~Aliased(h) /\ h.at["buffer"] = NULL /\ \A p \in WorkPointers : h.at[p] = NULL
    BY <1>1, <2>1, <2>6, ProcessHeap DEF Aliased
  <2> QED  BY <2>3, <2>6, <2>7
<1>6. r = SetProcFlag(s, CONVERT_RGB)
  OBVIOUS
<1> HIDE DEF counted, h, s, r
<1>7. Went(CONVERT_RGB, r, h, "stretch") \/ \E g : Gave(g) /\ Lost(g)
  <2>1. Went(CONVERT_RGB, r, h, "stretch") \/ \E g \in {counted, h} \cup {heap, counted} : Gave(g)
    BY <1>1, <1>3, <1>6, StageOutcome DEF IInv
  <2> QED  BY <1>1, <1>5, <2>1, ProcessHeap
<1>8. ASSUME Went(CONVERT_RGB, r, h, "stretch")
      PROVE  /\ told' \in OPEN..THUMB_LOAD => ToldInv'
             /\ TableInv' /\ FoundInv' /\ ReducedInv' /\ WholeInv' /\ ReadyInv'
  <2>1. told' \in OPEN..THUMB_LOAD => ToldInv'
    <3>1. told' <= STRETCH
      BY <1>1, <1>8, ProcessHeap DEF Went, CONVERT_RGB, STRETCH, OPEN, THUMB_LOAD
    <3> QED  BY <1>1, <1>8, <3>1, ProcessHeap DEF ToldInv, After, Went, UnpackCalls, loaderVars
  <2>2. TableInv'
    BY <1>5, <1>8 DEF TableInv, After, Went, ReducedCalls
  <2>3. FoundInv' /\ ReducedInv' /\ WholeInv'
    BY <1>8 DEF FoundInv, ReducedInv, WholeInv, After, Went, UnpackCalls, ReducedCalls, WholeCalls
  <2>4. ReadyInv'
    BY <1>2, <1>4, <1>8 DEF ReadyInv, Went, After, ReadyCalls, WholeCalls, Side, ColoursLeft
  <2> QED  BY <2>1, <2>2, <2>3, <2>4
<1>9. "stretch" \in ProcessCalls \cup {"idle"}
  BY DEF ProcessCalls, ReadyCalls
<1>10. \A p \in WorkPointers : h.at[p] # NULL => p = "work1" /\ "stretch" = "ahd_rows"
  BY <1>5
<1> QED  BY <1>1, <1>4, <1>5, <1>7, <1>8, <1>9, <1>10, ProcessInv

LEMMA StretchInv ==
    ASSUME IInv, Stretch, UNCHANGED loaderVars
    PROVE  IInv' /\ told <= told'
<1>1. /\ call = "stretch" /\ call \in ProcessCalls \ {"ahd_rows"} /\ call \in ReadyCalls
      /\ STRETCH \in OPEN..THUMB_LOAD /\ told <= STRETCH
      /\ Cardinality(heap.mems) <= 11
  BY Numbers DEF Stretch, Step, Stage, ProcessCalls, ReadyCalls, IInv, ControlInv, ToldInv,
     HeapInv, TableInv
<1>2. /\ raw.size.h > 0 /\ raw.area = Area(raw.size) /\ raw.colors = ColoursLeft
      /\ PRE_INTERPOLATE \in raw.flags /\ raw \in Raws
      /\ file.fuji = 0 => raw.size.w = Side(file.w) /\ raw.size.h = Side(file.h)
  BY <1>1, ProcessHeap DEF IInv, PictureInv, ReadyInv
<1>3. /\ "idle" \in ProcessCalls \cup {"idle"} /\ told \in OPEN..THUMB_LOAD
      /\ pc = "processed" /\ pc' = "processed"
  BY <1>1, ProcessHeap DEF loaderVars
<1>4. ASSUME NEW most \in OPEN..THUMB_LOAD, NEW r \in Raws, NEW h,
             r.inputInternal = raw.inputInternal, r.size.h > 0, r.area = Area(r.size),
             r.colors = ColoursLeft, r.half = raw.half, PRE_INTERPOLATE \in r.flags,
             file.fuji = 0 => /\ r.size.w = Side(file.w) * file.aspect.w
                              /\ r.size.h = Side(file.h) * file.aspect.h,
             Lost(h), ~Aliased(h), h.at["buffer"] = NULL,
             \A p \in WorkPointers : h.at[p] = NULL,
             Went(most, r, h, "idle") \/ \E g : Gave(g) /\ Lost(g)
      PROVE  IInv' /\ told <= told'
  <2>1. ASSUME Went(most, r, h, "idle")
        PROVE  /\ told' \in OPEN..THUMB_LOAD => ToldInv'
               /\ TableInv' /\ FoundInv' /\ ReducedInv' /\ WholeInv' /\ ReadyInv'
    <3>1. told' \in OPEN..THUMB_LOAD => ToldInv'
      BY <1>3, <2>1 DEF ToldInv, After, Went, UnpackCalls
    <3>2. TableInv'
      BY <1>3, <2>1 DEF TableInv, After, Went, ReducedCalls
    <3>3. FoundInv' /\ ReducedInv' /\ WholeInv'
      BY <1>3, <2>1 DEF FoundInv, ReducedInv, WholeInv, After, Went, UnpackCalls, ReducedCalls, WholeCalls
    <3>4. ReadyInv'
      BY <1>3, <1>4, <2>1 DEF ReadyInv, Went, After, ReadyCalls, WholeCalls, Side, ColoursLeft
    <3> QED  BY <3>1, <3>2, <3>3, <3>4
  <2>2. \A p \in WorkPointers : h.at[p] # NULL => p = "work1" /\ "idle" = "ahd_rows"
    BY <1>4
  <2> QED  BY <1>1, <1>3, <1>4, <2>1, <2>2, ProcessInv
<1>5. file.aspect.w \in Nat \ {0} /\ file.aspect.h \in Nat \ {0} /\ 1 \in {file.aspect.w, file.aspect.h}
  BY FileTypes
<1>6. raw.size \in [w : Nat, h : Nat, iw : Nat, ih : Nat]
  BY <1>2 DEF Raws
<1>7. CASE file.aspect.w = file.aspect.h
  <2> DEFINE r == SetProcFlag(raw, STRETCH)
  <2>1. Step("stretch", r, heap, "idle")
    BY <1>7 DEF Stretch
  <2>2. /\ r \in Raws /\ r.inputInternal = raw.inputInternal /\ r.size = raw.size
        /\ r.area = raw.area /\ r.colors = raw.colors /\ r.half = raw.half
        /\ PRE_INTERPOLATE \in r.flags
    BY <1>1, <1>2, FlagRaw
  <2> HIDE DEF r
  <2>3. Went(told, r, heap, "idle")
    BY <1>1, <2>1, StepOutcome DEF IInv
  <2>4. file.aspect.w = 1 /\ file.aspect.h = 1
    BY <1>5, <1>7
  <2>5. Side(file.w) * file.aspect.w = Side(file.w) /\ Side(file.h) * file.aspect.h = Side(file.h)
    BY <2>4, Sides
  <2> QED  BY <1>1, <1>2, <1>3, <2>2, <2>3, <2>5, <1>4, ProcessHeap
<1>8. CASE file.aspect.w # file.aspect.h
  <2> DEFINE a == raw.size.w * file.aspect.w
             b == raw.size.h * file.aspect.h
             size == [raw.size EXCEPT !.w = a, !.h = b]
             area == Area(size)
             s == [raw EXCEPT !.size = size, !.area = area]
             r == SetProcFlag(s, STRETCH)
  <2>1. Stage("stretch", STRETCH, {heap, Replaced}, {heap}, s, Replaced, "idle")
    BY <1>8 DEF Stretch
  <2>2. a \in Nat /\ b \in Nat /\ b > 0
    <3>1. \A m, n \in Nat : m * n \in Nat /\ (m > 0 /\ n > 0 => m * n > 0)
      OBVIOUS
    <3> QED  BY <1>2, <1>5, <1>6, <3>1
  <2>3. file.fuji = 0 => a = Side(file.w) * file.aspect.w /\ b = Side(file.h) * file.aspect.h
    BY <1>2
  <2> HIDE DEF a, b
  <2>4. size \in [w : Nat, h : Nat, iw : Nat, ih : Nat] /\ size.w = a /\ size.h = b
    BY <1>6, <2>2
  <2> HIDE DEF size
  <2>5. area \in Nat
    BY <2>4 DEF Area
  <2> HIDE DEF area
  <2>6. /\ s \in Raws /\ s.inputInternal = raw.inputInternal /\ s.size = size
        /\ s.area = area /\ s.colors = raw.colors /\ s.half = raw.half /\ s.flags = raw.flags
    BY <1>2, <2>4, <2>5 DEF Raws
  <2>7. r = SetProcFlag(s, STRETCH)
    OBVIOUS
  <2> HIDE DEF s, r
  <2>8. /\ r \in Raws /\ r.inputInternal = raw.inputInternal /\ r.size = size
        /\ r.area = area /\ r.colors = raw.colors /\ r.half = raw.half
        /\ PRE_INTERPOLATE \in r.flags
    BY <1>1, <1>2, <2>6, <2>7, FlagRaw
  <2>9. /\ Lost(Replaced) /\ ~Aliased(Replaced) /\ Replaced.at["buffer"] = NULL
        /\ \A p \in WorkPointers : Replaced.at[p] = NULL
    BY <1>1, ReplacedLost
  <2>10. Went(STRETCH, r, Replaced, "idle") \/ \E g : Gave(g) /\ Lost(g)
    <3>1. Went(STRETCH, r, Replaced, "idle") \/ \E g \in {heap, Replaced} \cup {heap} : Gave(g)
      BY <1>1, <2>1, <2>7, StageOutcome DEF IInv
    <3> QED  BY <1>1, <2>9, <3>1, ProcessHeap
  <2>11. r.size.h > 0 /\ r.area = Area(r.size) /\ r.colors = ColoursLeft
    BY <1>2, <2>2, <2>4, <2>8 DEF area
  <2>12. file.fuji = 0 => r.size.w = Side(file.w) * file.aspect.w /\ r.size.h = Side(file.h) * file.aspect.h
    BY <2>3, <2>4, <2>8
  <2> QED  BY <1>1, <2>8, <2>9, <2>10, <2>11, <2>12, <1>4
<1> QED  BY <1>7, <1>8

-----------------------------------------------------------------------------
(* unpack_thumb, and what the client gets in the end.                        *)

LEMMA UnpackThumbInv ==
    ASSUME IInv, UnpackThumb, UNCHANGED loaderVars
    PROVE  IInv' /\ told <= told'
<1> DEFINE r == SetProcFlag(raw, THUMB_LOAD)
           grown == Malloc(heap, <<"thumb">>)
<1>1. /\ call = "unpack_thumb" /\ pc = "thumb_unpacked" /\ raw \in Raws
      /\ THUMB_LOAD \in OPEN..THUMB_LOAD
  <2>1. call = "unpack_thumb"
    BY DEF UnpackThumb, Refuse, Acquire, Step
  <2> QED  BY <2>1, Numbers DEF IInv, ControlInv, PhaseInv
<1>2. /\ Lost(heap) /\ ~Aliased(heap) /\ heap.at["buffer"] = NULL
      /\ Cardinality(heap.mems) <= 1
      /\ refused = FALSE /\ told \in OPEN..THUMB_LOAD /\ told <= told
  BY <1>1, HeapLost, Quiet DEF IInv, HeapInv, BlocksInv, PointersInv, TableInv, Failed
<1>3. \A p \in WorkPointers : heap.at[p] = NULL
  BY <1>1 DEF IInv, HeapInv, PointersInv, WorkPointers
<1>4. r \in Raws /\ r.inputInternal = raw.inputInternal
  BY <1>1, FlagRaw
<1>5. /\ Lost(grown) /\ ~Aliased(grown) /\ grown.at["buffer"] = NULL
      /\ \A p \in WorkPointers : grown.at[p] = NULL
  <2> DEFINE v == "thumb"
  <2>1. v \in Managed /\ {"image", "raw_alloc", "buffer"} \cup WorkPointers \subseteq Pointers \ {v}
    BY PointerNames DEF Managed, Recycled, OwnAlways, WorkPointers
  <2>2. grown = Malloc(heap, <<v>>)
    OBVIOUS
  <2> HIDE DEF v, grown
  <2>3. Lost(grown) /\ \A q \in Pointers \ {v} : grown.at[q] = heap.at[q]
    BY <1>2, <2>1, <2>2, LostMallocOne
  <2> QED  BY <1>2, <1>3, <2>1, <2>3 DEF Aliased
<1> HIDE DEF r, grown
<1>6. CASE \E code : code # "SUCCESS" /\ Refuse("unpack_thumb", code)
  BY <1>1, <1>2, <1>6, RefuseOutcome, QuitInv DEF Quit, Refuse, Return
<1>7. CASE Gave(heap)
  BY <1>1, <1>2, <1>7, GaveInv DEF Gave
<1>8. ASSUME NEW h \in {heap, grown}, Went(told, r, h, "idle")
      PROVE  IInv' /\ told <= told'
  <2>1. pc' = "thumb_unpacked"
    BY <1>1 DEF loaderVars
  <2>2. TableInv' /\ FoundInv' /\ ReducedInv' /\ WholeInv' /\ ReadyInv'
    BY <1>8, <2>1 DEF TableInv, FoundInv, ReducedInv, WholeInv, ReadyInv, After, Went,
       UnpackCalls, ReducedCalls, WholeCalls, ReadyCalls
  <2>3. told' \in OPEN..THUMB_LOAD => ToldInv'
    BY <1>8, <2>1 DEF ToldInv, After, Went, UnpackCalls
  <2>4. Lost(h) /\ ~Aliased(h) /\ h.at["buffer"] = NULL
    BY <1>2, <1>5, <1>8
  <2>5. \A p \in WorkPointers : h.at[p] # NULL => p = "work1" /\ "idle" = "ahd_rows"
    BY <1>3, <1>5, <1>8
  <2>6. "idle" \notin OpenCalls /\ Along(call, "idle") /\ call \in {"unpack_thumb"}
    BY <1>1 DEF OpenCalls, Along
  <2> QED  BY <1>2, <1>4, <1>8, <2>2, <2>3, <2>4, <2>5, <2>6, StageInv
<1>9. CASE Acquire("unpack_thumb", r, grown, "idle")
  BY <1>7, <1>8, <1>9, AcquireOutcome DEF IInv
<1>10. CASE Step("unpack_thumb", r, heap, "idle")
  BY <1>8, <1>10, StepOutcome DEF IInv
<1> QED  BY <1>6, <1>9, <1>10 DEF UnpackThumb, r, grown

(* The block that the client gets is his own.                                *)
LEMMA GivenHeap ==
    ASSUME IInv, call \in {"mem_image", "mem_thumb"}, UNCHANGED loaderVars,
           NEW r \in Raws, r.inputInternal = raw.inputInternal,
           Went(told, r, New(heap, <<"memimage">>), "idle")
    PROVE  HeapInv'
<1> DEFINE own == Own(raw)
           ps == <<"memimage">>
           h == New(heap, ps)
<1>1. pc = "made" /\ Lost(heap) /\ heap.at["memimage"] = NULL /\ ~Aliased(heap)
  BY HeapLost DEF IInv, ControlInv, PhaseInv, HeapInv, BlocksInv, PointersInv, Failed
<1>2. "memimage" \in own /\ own \in SUBSET Pointers /\ own \cap Managed = {} /\ "memimage" \in OwnAlways
  BY OwnPointers DEF Own, OwnAlways
<1>3. /\ ps \in Seq(Pointers) /\ Distinct(ps) /\ Len(ps) = 1 /\ ToSet(ps) = {"memimage"}
  BY <1>2, OneName
<1>4. Accounted(heap, own) /\ heap \in Heaps /\ heap.next > 0 /\ heap.next \in Nat
  BY <1>1 DEF Lost, Kept, Accounted, Heaps
<1> HIDE DEF own, ps
<1>5. Accounted(h, own)
  BY <1>1, <1>2, <1>3, <1>4, NewAccounted
<1>6. /\ h.mems = heap.mems /\ h.twice = heap.twice
      /\ \A p \in Pointers \ {"memimage"} : h.at[p] = heap.at[p]
      /\ h.at["memimage"] \in Fresh(heap, 1)
  BY <1>3, <1>4, NewBlocks
<1>7. h.at["memimage"] # NULL
  BY <1>4, <1>6 DEF Fresh, NULL
<1>8. heap' = h /\ raw' = r /\ call' = "idle" /\ ret' = "SUCCESS" /\ file' = file
  BY DEF Went, ps
<1> HIDE DEF h
<1>9. \A p \in Managed \cup (OwnAlways \ {"memimage"}) \cup {"input"} : heap'.at[p] = heap.at[p]
  BY <1>2, <1>6, <1>8, PointerNames
<1>10. BlocksInv'
  <2>1. ~Aliased(h)
    BY <1>1, <1>8, <1>9 DEF Aliased, Managed, Recycled
  <2> QED  BY <1>1, <1>5, <1>6, <1>8, <2>1 DEF BlocksInv, Own, own, Lost, Kept
<1>11. PointersInv'
  <2>1. \A p \in WorkPointers : heap'.at[p] = NULL
    BY <1>9 DEF Managed, WorkPointers, IInv, HeapInv, PointersInv
  <2>2. \A p \in OwnAlways \ {"memimage"} : heap'.at[p] = heap.at[p]
    BY <1>9
  <2> QED  BY <1>1, <1>6, <1>7, <1>8, <2>1, <2>2
           DEF IInv, HeapInv, PointersInv, loaderVars, OwnAlways, LoaderPointers, OpenCalls, After,
               WorkPointers, Failed
<1>12. TableInv'
  BY <1>1, <1>8 DEF TableInv, After, ReducedCalls, loaderVars
<1> QED  BY <1>10, <1>11, <1>12 DEF HeapInv

(* What is left to show of a picture that is given to the client.            *)
LEMMA GivenInv ==
    ASSUME IInv, call \in {"mem_image", "mem_thumb"}, UNCHANGED loaderVars,
           NEW r \in Raws, r.inputInternal = raw.inputInternal,
           Went(told, r, New(heap, <<"memimage">>), "idle"), MadeInv'
    PROVE  IInv' /\ told <= told'
<1>1. /\ pc = "made" /\ call \notin {"idle", "open_fails"} /\ refused = FALSE /\ ControlInv
      /\ told \in OPEN..THUMB_LOAD /\ Along(call, "idle")
  BY Quiet DEF IInv, ControlInv, PhaseInv, Along
<1>2. PhaseInv' /\ ResultInv' /\ told' \in OPEN..THUMB_LOAD
  BY <1>1, WentControl
<1>3. pc' = "made" /\ call' = "idle"
  BY <1>1 DEF loaderVars, Went
<1>4. ToldInv'
  BY <1>2, <1>3 DEF ToldInv, After, UnpackCalls
<1>5. FoundInv' /\ ReducedInv' /\ WholeInv' /\ ReadyInv'
  BY <1>3 DEF FoundInv, ReducedInv, WholeInv, ReadyInv, After, UnpackCalls, ReducedCalls,
     WholeCalls, ReadyCalls
<1> QED  BY <1>2, <1>4, <1>5, GivenHeap DEF IInv, ControlInv, PictureInv, Went

LEMMA MemImageInv ==
    ASSUME IInv, MemImage, UNCHANGED loaderVars
    PROVE  IInv' /\ told <= told'
<1> DEFINE made == [w |-> IF file.flip THEN raw.size.h ELSE raw.size.w,
                    h |-> IF file.flip THEN raw.size.w ELSE raw.size.h,
                    colors |-> raw.colors, copied |-> Reached(PRE_INTERPOLATE)]
           r == [raw EXCEPT !.made = made]
<1>1. /\ call = "mem_image" /\ call' = "idle" /\ UNCHANGED <<file, told, refused, pending>>
  BY DEF MemImage
<1>2. pc = "made" /\ method = "precise" /\ raw \in Raws
  BY <1>1 DEF IInv, ControlInv, PhaseInv
<1>3. ret = "SUCCESS" /\ told \in OPEN..THUMB_LOAD /\ told <= told
  BY <1>1, Quiet DEF IInv
<1>4. CASE ret' = "ENOMEM" /\ UNCHANGED <<heap, raw>>
  <2>1. Quit
    BY <1>1, <1>4 DEF Quit
  <2> QED  BY <1>1, <1>3, <2>1, QuitInv
<1>5. CASE heap' = New(heap, <<"memimage">>) /\ raw' = r /\ UNCHANGED ret
  <2>1. /\ raw.size.h > 0 /\ raw.colors = ColoursLeft /\ PRE_INTERPOLATE \in raw.flags
        /\ file.fuji = 0 => /\ raw.size.w = Side(file.w) * file.aspect.w
                            /\ raw.size.h = Side(file.h) * file.aspect.h
    BY <1>1 DEF IInv, PictureInv, ReadyInv
  <2>2. Reached(PRE_INTERPOLATE) = TRUE
    BY <2>1 DEF Reached, PRE_INTERPOLATE, THUMB_LOAD
  <2>3. /\ made \in [w : Nat, h : Nat, colors : 0..4, copied : BOOLEAN]
        /\ made.copied = TRUE /\ made.colors = ColoursLeft
        /\ (made.w > 0 \/ made.h > 0)
        /\ {made.w, made.h} = {raw.size.w, raw.size.h}
    <3>1. raw.size \in [w : Nat, h : Nat, iw : Nat, ih : Nat] /\ raw.colors \in 0..4
      BY <1>2 DEF Raws
    <3>2. CASE file.flip
      BY <2>1, <2>2, <3>1, <3>2
    <3>3. CASE ~file.flip
      BY <2>1, <2>2, <3>1, <3>3
    <3> QED  BY <3>2, <3>3
  <2> HIDE DEF made
  <2>4. r \in Raws /\ r.inputInternal = raw.inputInternal /\ r.half = raw.half /\ r.made = made
    BY <1>2, <2>3 DEF Raws
  <2> HIDE DEF r
  <2>5. Went(told, r, New(heap, <<"memimage">>), "idle")
    BY <1>1, <1>3, <1>5 DEF Went
  <2>6. MadeInv'
    <3>1. PictureIsWhole'
      BY <1>1, StillNoPicture
    <3> QED  BY <1>1, <1>5, <2>1, <2>3, <2>4, <3>1 DEF MadeInv, Side, ColoursLeft
  <2> QED  BY <1>1, <2>4, <2>5, <2>6, GivenInv
<1> QED  BY <1>4, <1>5 DEF MemImage

LEMMA MemThumbInv ==
    ASSUME IInv, MemThumb, UNCHANGED loaderVars
    PROVE  IInv' /\ told <= told'
<1>1. call = "mem_thumb"
  BY DEF MemThumb, Refuse, Step
<1>2. /\ pc = "made" /\ method = "description" /\ raw \in Raws
      /\ told \in OPEN..THUMB_LOAD /\ told <= told
  BY <1>1, Quiet DEF IInv, ControlInv, PhaseInv
<1>3. CASE \E code : code # "SUCCESS" /\ Refuse("mem_thumb", code)
  BY <1>1, <1>2, <1>3, RefuseOutcome, QuitInv DEF Quit, Refuse, Return
<1>4. CASE Step("mem_thumb", raw, New(heap, <<"memimage">>), "idle")
  <2>1. Went(told, raw, New(heap, <<"memimage">>), "idle")
    BY <1>4, StepOutcome DEF IInv
  <2>2. MadeInv'
    BY <1>1, <1>2, StillNoPicture DEF MadeInv, loaderVars
  <2> QED  BY <1>1, <1>2, <2>1, <2>2, GivenInv
<1> QED  BY <1>3, <1>4 DEF MemThumb

LEMMA LibRawInv ==
    ASSUME IInv, LibRawNext, UNCHANGED loaderVars
    PROVE  IInv' /\ told <= told'
BY OpenRefusedInv, OpenInv, OpenShortInv, IdentifyInv, AdoptInv, OpenFailsInv, UnpackInv,
   LoadRawInv, UnpackedInv, Raw2ImageInv, RemoveZeroesInv, ScaleColorsInv, PreInterpolateInv,
   VngInv, PpgInv, AhdBufferInv, AhdRowInv, AhdEndsInv, MixGreenInv, FujiRotateInv,
   ConvertToRgbInv, StretchInv, MemImageInv, UnpackThumbInv, MemThumbInv DEF LibRawNext

-----------------------------------------------------------------------------
(* The native methods.                                                       *)

LEMMA EmptyAccounted ==
    /\ Accounted(EmptyHeap, OwnAlways) /\ EmptyHeap.mems = {} /\ EmptyHeap.twice = FALSE
    /\ \A p \in Pointers : EmptyHeap.at[p] = NULL
<1> DEFINE h == EmptyHeap
<1>1. /\ h \in Heaps /\ h.live = {} /\ h.mems = {} /\ h.twice = FALSE /\ h.next = 1
      /\ \A p \in Pointers : h.at[p] = NULL
  BY DEF EmptyHeap, Heaps, NULL
<1> HIDE DEF h
<1>2. Named(h, OwnAlways) = {}
  BY <1>1, PointerNames DEF Named
<1>3. IsFiniteSet(h.mems)
  BY <1>1, FS_EmptySet
<1>4. Accounted(h, OwnAlways)
  BY <1>1, <1>2, <1>3, PointerNames DEF Accounted
<1> QED  BY <1>1, <1>4 DEF h

(* What a native method allocates before it calls the processor.             *)
LEMMA StartHeap ==
    ASSUME NEW ps \in Seq(Pointers), Distinct(ps), ToSet(ps) \subseteq OwnAlways
    PROVE  LET h == New(EmptyHeap, ps)
           IN  /\ Accounted(h, OwnAlways) /\ h.mems = {} /\ h.twice = FALSE
               /\ \A p \in Pointers : h.at[p] # NULL <=> p \in ToSet(ps)
<1> DEFINE h == New(EmptyHeap, ps)
<1>1. /\ Accounted(EmptyHeap, OwnAlways) /\ EmptyHeap.mems = {} /\ EmptyHeap.twice = FALSE
      /\ \A p \in Pointers : EmptyHeap.at[p] = NULL
  BY EmptyAccounted
<1>2. EmptyHeap \in Heaps /\ EmptyHeap.next > 0 /\ EmptyHeap.next \in Nat
  BY <1>1 DEF Accounted, Heaps
<1>3. OwnAlways \in SUBSET Pointers /\ OwnAlways \cap Managed = {}
  BY PointerNames
<1>4. Accounted(h, OwnAlways)
  BY <1>1, <1>3, NewAccounted
<1>5. /\ h.mems = EmptyHeap.mems /\ h.twice = EmptyHeap.twice
      /\ \A p \in Pointers \ ToSet(ps) : h.at[p] = EmptyHeap.at[p]
      /\ \A p \in ToSet(ps) : h.at[p] \in Fresh(EmptyHeap, Len(ps))
  BY <1>2, NewBlocks
<1>6. NULL \notin Fresh(EmptyHeap, Len(ps))
  BY <1>2 DEF Fresh, NULL
<1> HIDE DEF h
<1>7. \A p \in Pointers : h.at[p] # NULL <=> p \in ToSet(ps)
  BY <1>1, <1>5, <1>6
<1> QED  BY <1>1, <1>4, <1>5, <1>7 DEF h

(* At the start nothing has happened yet.                                    *)
LEMMA AtStart ==
    ASSUME IInv, pc = "start"
    PROVE  /\ call = "idle" /\ ret = "SUCCESS" /\ refused = FALSE /\ pending = "none"
           /\ handed = Nothing /\ heap = EmptyHeap /\ raw \in Raws /\ raw.inputInternal = FALSE
           /\ told \in OPEN..THUMB_LOAD /\ told <= IDENTIFY /\ told <= told
<1>1. call = "idle" /\ raw \in Raws
  BY DEF IInv, ControlInv, PhaseInv, OpenCalls, UnpackCalls, ProcessCalls, ReducedCalls,
         WholeCalls, ReadyCalls, Stages
<1>2. /\ ret = "SUCCESS" /\ refused = FALSE /\ pending = "none" /\ handed = Nothing
  BY <1>1 DEF IInv, ControlInv, ResultInv, Failed
<1>3. heap = EmptyHeap /\ raw.inputInternal = FALSE
  BY <1>1 DEF IInv, HeapInv, PointersInv, Raws
<1>4. told \in OPEN..THUMB_LOAD /\ told <= IDENTIFY /\ told <= told
  BY Numbers DEF IInv, ControlInv, ToldInv
<1> QED  BY <1>1, <1>2, <1>3, <1>4

LEMMA OpenedInv ==
    ASSUME IInv, pc = "start", Goto("opened"), call' = "open", ret' = ret, NEW ps \in Seq(Pointers),
           Distinct(ps), ToSet(ps) \subseteq {"oc", "name", "fb", "processor"},
           "processor" \in ToSet(ps), heap' = New(heap, ps),
           raw' \in Raws, raw'.inputInternal = FALSE, UNCHANGED <<file, told, refused, pending>>
    PROVE  IInv' /\ told <= told'
<1>1. PhaseInv'
  BY DEF IInv, ControlInv, PhaseInv, Goto, OpenCalls, UnpackCalls, ProcessCalls, ReducedCalls,
         WholeCalls, ReadyCalls, Stages
<1>2. ResultInv' /\ ToldInv'
  BY AtStart DEF IInv, ResultInv, ToldInv, Goto, After, UnpackCalls
<1>3. /\ Accounted(heap', OwnAlways) /\ heap'.mems = {} /\ heap'.twice = FALSE
      /\ \A p \in Pointers : heap'.at[p] # NULL <=> p \in ToSet(ps)
  <2>1. ToSet(ps) \subseteq OwnAlways
    BY DEF OwnAlways, LoaderPointers
  <2> QED  BY <2>1, StartHeap, AtStart
<1>4. /\ \A p \in Managed \cup (OwnAlways \ {"oc", "name", "fb", "processor"}) \cup {"input"} : heap'.at[p] = NULL
      /\ heap'.at["processor"] # NULL
  <2>1. Managed \cap {"oc", "name", "fb", "processor"} = {}
    BY DEF Managed, Recycled
  <2>2. "processor" \in Pointers
    BY PointerNames DEF OwnAlways, LoaderPointers
  <2> QED  BY <1>3, <2>1, <2>2, PointerNames
<1>5. BlocksInv'
  BY <1>3, <1>4 DEF BlocksInv, Own, Aliased, Managed, Recycled
<1>6. PointersInv'
  BY <1>4, AtStart DEF PointersInv, Goto, OwnAlways, LoaderPointers, OpenCalls, After, Managed
<1>7. TableInv'
  BY <1>3, FS_EmptySet DEF TableInv, After, ReducedCalls
<1>8. PictureInv'
  BY AtStart DEF PictureInv, FoundInv, ReducedInv, WholeInv, ReadyInv, MadeInv, PictureIsWhole,
     After, UnpackCalls, ReducedCalls, WholeCalls, ReadyCalls, Goto, Nothing
<1> QED  BY <1>1, <1>2, <1>5, <1>6, <1>7, <1>8, AtStart DEF IInv, ControlInv, HeapInv

LEMMA StartPreciseInv ==
    ASSUME IInv, StartPrecise
    PROVE  IInv' /\ told <= told'
<1>1. pc = "start" /\ method = "precise" /\ UNCHANGED <<file, told, refused, pending>>
  BY DEF StartPrecise
<1>2. CASE build = "win32" /\ ~file.readable
  <2> DEFINE ps == <<"oc">>
  <2>1. /\ pc' = "end" /\ UNCHANGED <<build, method, handed, raw, call>>
        /\ heap' = New(heap, ps) /\ ret' \in {"SUCCESS", "UNSPECIFIED_ERROR"}
    BY <1>2 DEF StartPrecise, Goto
  <2>2. PhaseInv'
    BY <1>1, <2>1, AtStart DEF IInv, ControlInv, PhaseInv, OpenCalls, UnpackCalls, ProcessCalls,
       ReducedCalls, WholeCalls, ReadyCalls, Stages
  <2>3. Unopened'
    BY <1>1, <1>2, <2>1 DEF Unopened
  <2>4. ResultInv' /\ ToldInv'
    BY <1>1, <2>1, <2>3, AtStart DEF ResultInv, ToldInv, After, UnpackCalls
  <2>5. ps \in Seq(Pointers) /\ Distinct(ps) /\ ToSet(ps) = {"oc"} /\ "oc" \in OwnAlways
    BY OneName, PointerNames DEF OwnAlways, LoaderPointers
  <2> HIDE DEF ps
  <2>6. /\ Accounted(heap', OwnAlways) /\ heap'.mems = {} /\ heap'.twice = FALSE
        /\ \A p \in Pointers : heap'.at[p] # NULL <=> p \in ToSet(ps)
    BY <1>1, <2>1, <2>5, StartHeap, AtStart
  <2>7. \A p \in Managed \cup (OwnAlways \ {"oc"}) : heap'.at[p] = NULL
    BY <2>5, <2>6, PointerNames DEF Managed, Recycled
  <2>8. BlocksInv'
    BY <1>1, <2>1, <2>6, <2>7, AtStart DEF BlocksInv, Own, Aliased, Managed, Recycled
  <2>9. PointersInv'
    BY <1>1, <2>1, <2>6, <2>7, AtStart
       DEF PointersInv, OwnAlways, LoaderPointers, OpenCalls, After, Managed
  <2>10. TableInv'
    BY <1>1, <2>1, AtStart DEF TableInv, After, ReducedCalls
  <2>11. PictureInv'
    BY <1>1, <2>1, AtStart DEF PictureInv, FoundInv, ReducedInv, WholeInv, ReadyInv, MadeInv,
       PictureIsWhole, After, UnpackCalls, ReducedCalls, WholeCalls, ReadyCalls, Nothing
  <2> QED  BY <1>1, <2>2, <2>4, <2>8, <2>9, <2>10, <2>11, AtStart DEF IInv, ControlInv, HeapInv
<1>3. CASE ~(build = "win32" /\ ~file.readable)
  <2> DEFINE mine == IF build = "win32" THEN "fb" ELSE "name"
             ps == <<"oc", mine, "processor">>
  <2>1. /\ Goto("opened") /\ heap' = New(heap, ps) /\ call' = "open" /\ ret' = ret
        /\ \E half \in BOOLEAN :
              raw' = [raw EXCEPT !.half = half, !.threshold = TRUE, !.listening = TRUE]
    BY <1>3 DEF StartPrecise
  <2>2. raw' \in Raws /\ raw'.inputInternal = FALSE
    <3>1. PICK half \in BOOLEAN :
             raw' = [raw EXCEPT !.half = half, !.threshold = TRUE, !.listening = TRUE]
      BY <2>1
    <3> QED  BY <1>1, <3>1, AtStart DEF Raws
  <2>3. mine \in {"fb", "name"}
    OBVIOUS
  <2> HIDE DEF mine
  <2>4. /\ ps \in Seq(Pointers) /\ Distinct(ps) /\ ToSet(ps) = {"oc", mine, "processor"}
    <3>1. /\ "oc" \in Pointers /\ mine \in Pointers /\ "processor" \in Pointers
          /\ "oc" # mine /\ "oc" # "processor" /\ mine # "processor"
      BY <2>3, PointerNames DEF OwnAlways, LoaderPointers
    <3> QED  BY <3>1, ThreeNames
  <2> HIDE DEF ps
  <2>5. ToSet(ps) \subseteq {"oc", "name", "fb", "processor"} /\ "processor" \in ToSet(ps)
    BY <2>3, <2>4
  <2> QED  BY <1>1, <2>1, <2>2, <2>4, <2>5, OpenedInv
<1> QED  BY <1>2, <1>3

LEMMA StartDescriptionInv ==
    ASSUME IInv, StartDescription
    PROVE  IInv' /\ told <= told'
<1> DEFINE ps == <<"name", "processor">>
<1>1. /\ pc = "start" /\ Goto("opened") /\ heap' = New(heap, ps) /\ call' = "open"
      /\ UNCHANGED <<file, raw, ret, told, refused, pending>>
  BY DEF StartDescription
<1>2. ps \in Seq(Pointers) /\ Distinct(ps) /\ ToSet(ps) = {"name", "processor"}
  <2>1. "name" \in Pointers /\ "processor" \in Pointers
    BY PointerNames DEF OwnAlways, LoaderPointers
  <2> QED  BY <2>1, TwoNames
<1> HIDE DEF ps
<1>3. raw' \in Raws /\ raw'.inputInternal = FALSE
  BY <1>1, AtStart
<1> QED  BY <1>1, <1>2, <1>3, OpenedInv

(* Between two calls the method looks at the answer.                         *)
LEMMA Between ==
    ASSUME IInv, call = "idle", pc \in {"opened", "unpacked", "processed", "thumb_unpacked", "made"}
    PROVE  /\ raw \in Raws /\ handed = Nothing /\ told \in OPEN..THUMB_LOAD /\ told <= told
           /\ ret = "SUCCESS" =>
                 /\ refused = FALSE /\ pending = "none" /\ ~Aliased(heap) /\ heap.twice = FALSE
                 /\ heap.at["buffer"] = NULL
           /\ \A p \in WorkPointers \cup {"stream"} : heap.at[p] = NULL
           /\ pc # "made" => heap.at["memimage"] = NULL
<1>1. raw \in Raws /\ handed = Nothing /\ told \in OPEN..THUMB_LOAD /\ told <= told
  BY Numbers DEF IInv, ControlInv, PhaseInv, ResultInv, ToldInv
<1>2. ret = "SUCCESS" => refused = FALSE /\ pending = "none"
  BY DEF IInv, ControlInv, ResultInv, Failed
<1>3. heap \in Heaps
  BY DEF IInv, HeapInv, BlocksInv, Accounted
<1>4. ret = "SUCCESS" => ~Aliased(heap) /\ heap.twice = FALSE /\ heap.at["buffer"] = NULL
  BY <1>3 DEF IInv, HeapInv, BlocksInv, PointersInv, Failed, Heaps
<1>5. /\ \A p \in WorkPointers \cup {"stream"} : heap.at[p] = NULL
      /\ pc # "made" => heap.at["memimage"] = NULL
  BY DEF IInv, HeapInv, PointersInv, WorkPointers
<1> QED  BY <1>1, <1>2, <1>4, <1>5

LEMMA ContinueInv ==
    ASSUME IInv, NEW of, NEW here, NEW nextCall, NEW next, Continue(of, here, nextCall, next),
           \/ of = "precise" /\ here = "opened" /\ nextCall = "unpack" /\ next = "unpacked"
           \/ of = "precise" /\ here = "unpacked" /\ nextCall = "process" /\ next = "processed"
           \/ of = "precise" /\ here = "processed" /\ nextCall = "mem_image" /\ next = "made"
           \/ of = "description" /\ here = "opened" /\ nextCall = "unpack_thumb" /\ next = "thumb_unpacked"
           \/ of = "description" /\ here = "thumb_unpacked" /\ nextCall = "mem_thumb" /\ next = "made"
    PROVE  IInv' /\ told <= told'
<1>1. /\ method = of /\ pc = here /\ call = "idle"
      /\ UNCHANGED <<heap, file, raw, ret, told, refused, pending, build, method, handed>>
  BY DEF Continue, Goto
<1>2. pc \in {"opened", "unpacked", "processed", "thumb_unpacked"}
  BY <1>1
<1>3. CASE ret # "SUCCESS"
  <2>1. call' = "idle" /\ pc' = "end"
    BY <1>1, <1>3 DEF Continue, Goto
  <2>2. PhaseInv' /\ ResultInv' /\ ToldInv'
    BY <1>1, <1>2, <1>3, <2>1, Between
       DEF IInv, ControlInv, PhaseInv, ResultInv, ToldInv, Failed, After, OpenCalls, UnpackCalls,
           ProcessCalls, ReducedCalls, WholeCalls, ReadyCalls
  <2>3. BlocksInv'
    BY <1>1, <1>3, <2>1 DEF IInv, HeapInv, BlocksInv, Own, Failed
  <2>4. PointersInv'
    BY <1>1, <1>2, <1>3, <2>1, Between DEF IInv, HeapInv, PointersInv, Failed, After, OpenCalls, WorkPointers
  <2>5. TableInv'
    BY <2>1 DEF TableInv, After, ReducedCalls
  <2>6. PictureInv'
    BY <1>1, <1>2, <2>1, Between DEF PictureInv, FoundInv, ReducedInv, WholeInv, ReadyInv, MadeInv,
       PictureIsWhole, After, UnpackCalls, ReducedCalls, WholeCalls, ReadyCalls, Nothing
  <2> QED  BY <1>1, <1>2, <2>2, <2>3, <2>4, <2>5, <2>6, Between DEF IInv, ControlInv, HeapInv
<1>4. CASE ret = "SUCCESS"
  <2>1. call' = nextCall /\ pc' = next
    BY <1>1, <1>4 DEF Continue, Goto
  <2>2. PhaseInv'
    BY <1>1, <2>1, Between
       DEF IInv, ControlInv, PhaseInv, OpenCalls, UnpackCalls, ProcessCalls, ReducedCalls,
           WholeCalls, ReadyCalls, Stages
  <2>3. ResultInv'
    BY <1>1, <1>2, <1>4, <2>1, Between DEF ResultInv, Failed
  <2>4. ToldInv'
    BY <1>1, <1>2, <1>4, <2>1, Between DEF IInv, ControlInv, ToldInv, After, UnpackCalls
  <2>5. BlocksInv'
    BY <1>1, <1>2, <1>4, Between DEF IInv, HeapInv, BlocksInv, Own
  <2>6. PointersInv'
    BY <1>1, <1>2, <1>4, <2>1, Between DEF IInv, HeapInv, PointersInv, Failed, After, OpenCalls, WorkPointers
  <2>7. TableInv'
    BY <1>1, <1>4, <2>1 DEF IInv, HeapInv, TableInv, After, ReducedCalls
  <2>8. FoundInv' /\ ReducedInv' /\ WholeInv'
    BY <1>1, <1>4, <2>1 DEF IInv, PictureInv, FoundInv, ReducedInv, WholeInv, After,
       UnpackCalls, ReducedCalls, WholeCalls
  <2>9. ReadyInv'
    BY <1>1, <1>4, <2>1 DEF IInv, PictureInv, ReadyInv, After, WholeCalls, ReadyCalls, Side, ColoursLeft
  <2>10. MadeInv'
    BY <1>1, <1>2, <2>1, Between DEF MadeInv, PictureIsWhole, After, Nothing
  <2> QED  BY <1>1, <1>2, <2>2, <2>3, <2>4, <2>5, <2>6, <2>7, <2>8, <2>9, <2>10, Between
           DEF IInv, ControlInv, HeapInv, PictureInv
<1> QED  BY <1>3, <1>4

LEMMA LoadInv ==
    ASSUME IInv, LoadPrecise \/ LoadDescription
    PROVE  IInv' /\ told <= told'
<1>1. CASE Continue("precise", "opened", "unpack", "unpacked")
  BY <1>1, ContinueInv
<1>2. CASE Continue("precise", "unpacked", "process", "processed")
  BY <1>2, ContinueInv
<1>3. CASE Continue("precise", "processed", "mem_image", "made")
  BY <1>3, ContinueInv
<1>4. CASE Continue("description", "opened", "unpack_thumb", "thumb_unpacked")
  BY <1>4, ContinueInv
<1>5. CASE Continue("description", "thumb_unpacked", "mem_thumb", "made")
  BY <1>5, ContinueInv
<1> QED  BY <1>1, <1>2, <1>3, <1>4, <1>5 DEF LoadPrecise, LoadDescription

(* The method leaves the processor alone and goes elsewhere.                 *)
LEMMA GoneInv ==
    ASSUME IInv, call = "idle", pc = "made", UNCHANGED <<libVars, build, method, handed>>,
           \/ pc' = "end" /\ heap.at["memimage"] = NULL
           \/ pc' \in {"crashed", "exited"} /\ heap.at["memimage"] # NULL
    PROVE  IInv' /\ told <= told'
<1>1. /\ UNCHANGED <<heap, file, raw, call, ret, told, refused, pending>>
      /\ pc' \in {"end", "crashed", "exited"}
      /\ pc' = "end" => ret # "SUCCESS"
  BY DEF libVars, IInv, HeapInv, PointersInv, After
<1>2. PhaseInv' /\ ToldInv'
  BY <1>1, Between DEF IInv, ControlInv, PhaseInv, ToldInv, After, OpenCalls, UnpackCalls,
     ProcessCalls, ReducedCalls, WholeCalls, ReadyCalls
<1>3. ResultInv'
  BY <1>1, Between DEF IInv, ControlInv, ResultInv, Failed
<1>4. BlocksInv'
  BY <1>1 DEF IInv, HeapInv, BlocksInv, Own, Failed
<1>5. PointersInv'
  BY <1>1, Between DEF IInv, HeapInv, PointersInv, Failed, After, OpenCalls
<1>6. TableInv'
  BY <1>1 DEF TableInv, After, ReducedCalls
<1>7. PictureInv'
  BY <1>1, Between DEF PictureInv, FoundInv, ReducedInv, WholeInv, ReadyInv, MadeInv,
     PictureIsWhole, After, UnpackCalls, ReducedCalls, WholeCalls, ReadyCalls, Nothing
<1> QED  BY <1>1, <1>2, <1>3, <1>4, <1>5, <1>6, <1>7, Between DEF IInv, ControlInv, HeapInv

LEMMA NoImageInv ==
    ASSUME IInv, NoImage
    PROVE  IInv' /\ told <= told'
BY GoneInv DEF NoImage, Goto

(* The arrays of the bitmap, and recycle.                                    *)
LEMMA DecodedHeap ==
    ASSUME IInv, After("made"), heap' = Recycle(New(heap, Colours)), raw' = RecycledRaw,
           handed' # Nothing, pc' = "end", UNCHANGED <<file, call, ret>>
    PROVE  HeapInv'
<1> DEFINE h == New(heap, Colours)
           own == Own(raw)
<1>1. /\ call = "idle" /\ pc = "made" /\ ret = "SUCCESS" /\ handed = Nothing /\ raw \in Raws
      /\ ~Aliased(heap) /\ heap.twice = FALSE /\ heap.at["buffer"] = NULL
      /\ \A p \in WorkPointers \cup {"stream"} : heap.at[p] = NULL
  BY Between DEF After
<1>2. \A p \in {"r", "g", "b"} : heap.at[p] = NULL
  BY <1>1 DEF IInv, HeapInv, PointersInv
<1>3. {"r", "g", "b"} \subseteq OwnAlways /\ OwnAlways \subseteq own
      /\ own \in SUBSET Pointers /\ own \cap Managed = {}
  BY OwnPointers DEF Own, OwnAlways, LoaderPointers
<1>4. Colours \in Seq(Pointers) /\ Distinct(Colours) /\ ToSet(Colours) = {"r", "g", "b"}
  <2>1. "r" \in Pointers /\ "g" \in Pointers /\ "b" \in Pointers
    BY <1>3
  <2> QED  BY <2>1, ThreeNames DEF Colours
<1>5. Accounted(heap, own) /\ heap \in Heaps /\ heap.next > 0 /\ heap.next \in Nat
  BY DEF IInv, HeapInv, BlocksInv, Accounted, Heaps
<1> HIDE DEF own
<1>6. Accounted(h, own)
  BY <1>2, <1>3, <1>4, <1>5, NewAccounted
<1>7. /\ h.twice = FALSE
      /\ \A p \in Pointers \ {"r", "g", "b"} : h.at[p] = heap.at[p]
      /\ \A p \in {"r", "g", "b"} : h.at[p] # NULL
  <2>1. /\ h.twice = heap.twice
        /\ \A p \in Pointers \ ToSet(Colours) : h.at[p] = heap.at[p]
        /\ \A p \in ToSet(Colours) : h.at[p] \in Fresh(heap, Len(Colours))
    BY <1>4, <1>5, NewBlocks
  <2>2. NULL \notin Fresh(heap, Len(Colours))
    BY <1>5 DEF Fresh, NULL
  <2> QED  BY <1>1, <1>4, <2>1, <2>2
<1> HIDE DEF h
<1>8. \A p \in Managed : h.at[p] = heap.at[p]
  BY <1>3, <1>7, PointerNames
<1>9. ~Aliased(h) /\ \A p \in WorkPointers : h.at[p] = NULL
  BY <1>1, <1>8 DEF Aliased, Managed, Recycled, WorkPointers
<1>10. /\ Accounted(heap', OwnAlways) /\ heap'.mems = {} /\ heap'.twice = FALSE
       /\ \A p \in Pointers : heap'.at[p] = IF p \in Recycled \cup {"input"} THEN NULL ELSE h.at[p]
  BY <1>1, <1>6, <1>7, <1>9, RecycleAccounted DEF own, h
<1>11. raw'.inputInternal = FALSE
  BY <1>1, RecycledRaws DEF Raws
<1>12. /\ \A p \in OwnAlways \ {"r", "g", "b"} : heap'.at[p] = heap.at[p]
       /\ \A p \in {"r", "g", "b"} : heap'.at[p] # NULL
       /\ \A p \in WorkPointers \cup {"image"} : heap'.at[p] = NULL
  <2>1. OwnAlways \cap (Recycled \cup {"input"}) = {} /\ OwnAlways \subseteq Pointers
    BY PointerNames DEF Managed
  <2>2. WorkPointers \cup {"image"} \subseteq Pointers /\ "image" \in Recycled
    BY PointerNames DEF Managed, Recycled, WorkPointers
  <2>3. \A p \in WorkPointers : h.at[p] = NULL
    BY <1>9
  <2> QED  BY <1>3, <1>7, <1>10, <2>1, <2>2, <2>3
<1>13. BlocksInv'
  BY <1>10, <1>11, <1>12 DEF BlocksInv, Own, Aliased
<1>14. PointersInv'
  BY <1>1, <1>10, <1>11, <1>12
     DEF IInv, HeapInv, PointersInv, OwnAlways, LoaderPointers, OpenCalls, After, WorkPointers, Failed
<1>15. TableInv'
  BY <1>1 DEF TableInv, After, ReducedCalls
<1> QED  BY <1>13, <1>14, <1>15 DEF HeapInv

LEMMA DecodedInv ==
    ASSUME IInv, call = "idle", pc = "made", heap.at["memimage"] # NULL,
           heap' = Recycle(New(heap, Colours)), raw' = RecycledRaw, handed' # Nothing, pc' = "end",
           UNCHANGED <<file, call, ret, told, refused, pending, build, method>>, PictureIsWhole'
    PROVE  IInv' /\ told <= told'
<1>1. After("made")
  BY DEF IInv, HeapInv, PointersInv, After
<1>2. /\ ret = "SUCCESS" /\ refused = FALSE /\ pending = "none" /\ raw' \in Raws
      /\ told \in OPEN..THUMB_LOAD /\ told <= told
  BY <1>1, Between, RecycledRaws DEF After
<1>3. PhaseInv'
  BY <1>2 DEF IInv, ControlInv, PhaseInv, OpenCalls, UnpackCalls, ProcessCalls, ReducedCalls,
     WholeCalls, ReadyCalls
<1>4. ResultInv' /\ ToldInv'
  BY <1>2 DEF ResultInv, ToldInv, After, UnpackCalls
<1>5. HeapInv'
  BY <1>1, DecodedHeap
<1>6. PictureInv'
  BY DEF PictureInv, FoundInv, ReducedInv, WholeInv, ReadyInv, MadeInv, After, UnpackCalls,
     ReducedCalls, WholeCalls, ReadyCalls
<1> QED  BY <1>2, <1>3, <1>4, <1>5, <1>6 DEF IInv, ControlInv

LEMMA DecodePreciseInv ==
    ASSUME IInv, DecodePrecise
    PROVE  IInv' /\ told <= told'
<1>1. /\ pc = "made" /\ method = "precise" /\ call = "idle" /\ heap.at["memimage"] # NULL
      /\ UNCHANGED <<file, call, ret, told, refused, pending, build, method>>
  BY DEF DecodePrecise, Goto
<1>2. CASE pc' = "crashed" /\ UNCHANGED <<heap, raw, handed>>
  BY <1>1, <1>2, GoneInv DEF libVars
<1>3. CASE /\ heap' = Recycle(New(heap, Colours)) /\ raw' = RecycledRaw
           /\ handed' = [w |-> raw.made.w, h |-> raw.made.h] /\ pc' = "end"
  <2>1. After("made") /\ raw \in Raws
    BY <1>1, Between DEF IInv, HeapInv, PointersInv, After
  <2>2. /\ raw.made.copied /\ raw.made.colors = ColoursLeft /\ (raw.made.w > 0 \/ raw.made.h > 0)
        /\ file.fuji = 0 =>
              {raw.made.w, raw.made.h} = {Side(file.w) * file.aspect.w, Side(file.h) * file.aspect.h}
    BY <1>1, <2>1 DEF IInv, PictureInv, MadeInv
  <2>3. handed' # Nothing
    BY <1>3, <2>2 DEF Nothing
  <2>4. raw'.made = raw.made /\ raw'.half = raw.half
    BY <1>3, <2>1, RecycledRaws
  <2>5. handed'.w = raw.made.w /\ handed'.h = raw.made.h
    BY <1>3
  <2>6. file.colors # 1 => ColoursLeft = 3
    BY FileTypes DEF ColoursLeft
  <2>7. PictureIsWhole'
    BY <1>1, <2>2, <2>4, <2>5, <2>6 DEF PictureIsWhole, Side, Half
  <2> QED  BY <1>1, <1>3, <2>3, <2>7, DecodedInv
<1> QED  BY <1>2, <1>3 DEF DecodePrecise, Goto

LEMMA DecodeThumbInv ==
    ASSUME IInv, DecodeThumb
    PROVE  IInv' /\ told <= told'
<1>1. /\ pc = "made" /\ method = "description" /\ call = "idle" /\ heap.at["memimage"] # NULL
      /\ UNCHANGED <<file, call, ret, told, refused, pending, build, method>>
  BY DEF DecodeThumb, Goto
<1>2. CASE pc' \in {"crashed", "exited"} /\ UNCHANGED <<heap, raw, handed>>
  BY <1>1, <1>2, GoneInv DEF libVars
<1>3. CASE /\ heap' = Recycle(New(heap, Colours)) /\ raw' = RecycledRaw
           /\ handed' = [w |-> file.w, h |-> file.h] /\ pc' = "end"
  <2>1. handed' # Nothing
    BY <1>3, FileTypes DEF Nothing
  <2>2. PictureIsWhole'
    BY <1>1 DEF PictureIsWhole
  <2> QED  BY <1>1, <1>3, <2>1, <2>2, DecodedInv
<1> QED  BY <1>2, <1>3 DEF DecodeThumb, Goto

LEMMA AtEnd ==
    ASSUME IInv, pc = "end"
    PROVE  /\ call = "idle" /\ raw \in Raws /\ told \in OPEN..THUMB_LOAD /\ told <= told
           /\ \A p \in WorkPointers \cup {"stream"} : heap.at[p] = NULL
<1>1. call = "idle" /\ raw \in Raws
  BY DEF IInv, ControlInv, PhaseInv, OpenCalls, UnpackCalls, ProcessCalls, ReducedCalls,
         WholeCalls, ReadyCalls, Stages
<1>2. told \in OPEN..THUMB_LOAD /\ told <= told
  BY Numbers DEF IInv, ControlInv, ToldInv
<1> QED  BY <1>1, <1>2 DEF IInv, HeapInv, PointersInv, WorkPointers

\* What the end of a native method frees itself.
Ended == {"fb", "name", "oc", "memimage", "processor"}

LEMMA EndHeap ==
    ASSUME IInv, End
    PROVE  HeapInv' /\ raw' \in Raws /\ raw'.made = raw.made /\ raw'.half = raw.half
<1> DEFINE f == Free(heap, Ended)
           own == Own(raw)
<1>1. /\ pc = "end" /\ pc' = "returned" /\ UNCHANGED <<file, call, ret, build, method, handed>>
      /\ IF heap.at["processor"] = NULL THEN heap' = f /\ raw' = raw
         ELSE heap' = Recycle(f) /\ raw' = RecycledRaw
  BY DEF End, Goto, Ended
<1>2. /\ call = "idle" /\ raw \in Raws
      /\ \A p \in WorkPointers \cup {"stream"} : heap.at[p] = NULL
  BY <1>1, AtEnd
<1>3. Ended \subseteq OwnAlways /\ OwnAlways \subseteq own /\ own \in SUBSET Pointers /\ own \cap Managed = {}
  BY OwnPointers DEF Own, OwnAlways, LoaderPointers, Ended
<1>4. "image" \notin Ended /\ "raw_alloc" \notin Ended
  BY DEF Ended
<1>5. Accounted(heap, own) /\ heap \in Heaps
  BY DEF IInv, HeapInv, BlocksInv, Accounted
<1> HIDE DEF own
<1>6. /\ Accounted(f, own)
      /\ \A p \in Pointers : f.at[p] = IF p \in Ended THEN NULL ELSE heap.at[p]
      /\ f.twice = heap.twice
  <2>1. Ended \in SUBSET (own \cup Managed)
    BY <1>3
  <2>2. Aliased(heap) => ("image" \in Ended <=> "raw_alloc" \in Ended)
    BY <1>4
  <2>3. ~(Aliased(heap) /\ "image" \in Ended)
    BY <1>4
  <2> QED  BY <1>3, <1>4, <1>5, <2>1, <2>2, <2>3, FreeAccounted
<1>7. f.mems \subseteq heap.mems
  BY <1>5, FreeFields
<1> HIDE DEF f
<1>8. \A p \in Managed : f.at[p] = heap.at[p]
  BY <1>3, <1>6, PointerNames
<1>9. Aliased(f) <=> Aliased(heap)
  BY <1>8 DEF Aliased, Managed, Recycled
<1>10. \A p \in WorkPointers : f.at[p] = NULL
  BY <1>2, <1>8 DEF Managed, WorkPointers
<1>11. \A p \in OwnAlways : f.at[p] = IF p \in Ended THEN NULL ELSE heap.at[p]
  BY <1>6, PointerNames
<1>12. Aliased(heap) \/ heap.twice => file.decoder = CanonSraw /\ Failed
  BY <1>2 DEF IInv, HeapInv, BlocksInv
<1>13. /\ raw' \in Raws /\ raw'.inputInternal = FALSE /\ raw'.made = raw.made /\ raw'.half = raw.half
       /\ Accounted(heap', OwnAlways) /\ heap'.mems = {}
       /\ heap'.twice => heap.twice \/ Aliased(heap)
       /\ Aliased(heap') => Aliased(heap)
       /\ \A p \in OwnAlways : heap'.at[p] = IF p \in Ended THEN NULL ELSE heap.at[p]
       /\ \A p \in WorkPointers : heap'.at[p] = NULL
  <2>1. CASE heap.at["processor"] = NULL
    <3>1. heap' = f /\ raw' = raw
      BY <1>1, <2>1
    <3>2. heap.mems = {} /\ raw.inputInternal = FALSE
      BY <1>2, <2>1 DEF IInv, HeapInv, PointersInv, Raws
    <3>3. Accounted(f, OwnAlways)
      BY <1>6, <3>2 DEF own, Own
    <3> QED  BY <1>2, <1>6, <1>7, <1>9, <1>10, <1>11, <3>1, <3>2, <3>3
  <2>2. CASE heap.at["processor"] # NULL
    <3>1. heap' = Recycle(f) /\ raw' = RecycledRaw
      BY <1>1, <2>2
    <3>2. Accounted(f, Own(raw))
      BY <1>6 DEF own
    <3>3. /\ Accounted(Recycle(f), OwnAlways)
          /\ Recycle(f).mems = {}
          /\ \A p \in Pointers :
                 Recycle(f).at[p] = IF p \in Recycled \cup {"input"} THEN NULL ELSE f.at[p]
          /\ ~Aliased(f) => Recycle(f).twice = f.twice
      BY <1>2, <1>10, <3>2, RecycleAccounted
    <3>4. OwnAlways \cap (Recycled \cup {"input"}) = {} /\ OwnAlways \subseteq Pointers
      BY PointerNames DEF Managed
    <3>5. \A p \in OwnAlways : heap'.at[p] = IF p \in Ended THEN NULL ELSE heap.at[p]
      BY <1>11, <3>1, <3>3, <3>4
    <3>6. /\ "image" \in Pointers /\ "image" \in Recycled
          /\ \A p \in WorkPointers : p \in Pointers
      BY PointerNames DEF Managed, Recycled, WorkPointers
    <3>7. ~Aliased(heap') /\ \A p \in WorkPointers : heap'.at[p] = NULL
      BY <1>10, <3>1, <3>3, <3>6 DEF Aliased
    <3>8. heap'.twice => heap.twice \/ Aliased(heap)
      BY <1>6, <1>9, <3>1, <3>3
    <3> QED  BY <1>2, <3>1, <3>3, <3>5, <3>7, <3>8, RecycledRaws DEF Raws
  <2> QED  BY <2>1, <2>2
<1>14. BlocksInv'
  BY <1>1, <1>12, <1>13 DEF BlocksInv, Own, Failed
<1>15. PointersInv'
  BY <1>1, <1>2, <1>13
     DEF IInv, HeapInv, PointersInv, OwnAlways, LoaderPointers, OpenCalls, After, WorkPointers,
         Failed, Ended
<1>16. TableInv'
  BY <1>1, <1>2 DEF TableInv, After, ReducedCalls
<1> QED  BY <1>13, <1>14, <1>15, <1>16 DEF HeapInv

LEMMA EndInv ==
    ASSUME IInv, End
    PROVE  IInv' /\ told <= told'
<1>1. /\ pc = "end" /\ pc' = "returned"
      /\ UNCHANGED <<file, call, ret, told, refused, build, method, handed>> /\ ThrowInJava
  BY DEF End, Goto
<1>2. /\ call = "idle" /\ told \in OPEN..THUMB_LOAD /\ told <= told
  BY <1>1, AtEnd
<1>3. raw' \in Raws /\ raw'.made = raw.made /\ raw'.half = raw.half /\ HeapInv'
  BY EndHeap
<1>4. PhaseInv'
  BY <1>1, <1>2, <1>3 DEF IInv, ControlInv, PhaseInv, OpenCalls, UnpackCalls, ProcessCalls,
     ReducedCalls, WholeCalls, ReadyCalls
<1>5. ResultInv'
  <2>1. /\ refused \in BOOLEAN
        /\ handed # Nothing => ret = "SUCCESS"
        /\ handed = Nothing => ret # "SUCCESS" \/ Unopened
        /\ refused => ret # "SUCCESS" /\ ret = "CANCELLED_BY_CALLBACK"
        /\ pending # "none" => pending = "java" /\ refused
    BY <1>1, <1>2 DEF IInv, ControlInv, ResultInv, Failed
  <2>2. /\ pending' \in {"none", "java", "NoSuchMethodError", "LibRawException"}
        /\ pending' # "none" <=> ret # "SUCCESS"
    BY <1>1, <2>1 DEF ThrowInJava, Thrown
  <2> QED  BY <1>1, <1>2, <2>1, <2>2 DEF ResultInv, Failed, Unopened
<1>6. ToldInv'
  BY <1>1, <1>2 DEF ToldInv, After, UnpackCalls
<1>7. PictureInv'
  BY <1>1, <1>2, <1>3 DEF IInv, PictureInv, FoundInv, ReducedInv, WholeInv, ReadyInv, MadeInv, After,
     PictureIsWhole, UnpackCalls, ReducedCalls, WholeCalls, ReadyCalls
<1> QED  BY <1>1, <1>2, <1>3, <1>4, <1>5, <1>6, <1>7 DEF IInv, ControlInv

-----------------------------------------------------------------------------
(* The invariant holds at the start and after every step.                    *)

LEMMA InitInv == Init => IInv
<1> SUFFICES ASSUME Init PROVE IInv
  OBVIOUS
<1>1. /\ heap = EmptyHeap /\ file \in Files /\ call = "idle" /\ ret = "SUCCESS" /\ told = OPEN
      /\ refused = FALSE /\ pending = "none" /\ method \in {"precise", "description"}
      /\ pc = "start" /\ handed = Nothing
  BY DEF Init
<1>2. raw \in Raws /\ raw.inputInternal = FALSE
  <2>1. NoPicture \in [w : Nat, h : Nat, iw : Nat, ih : Nat] /\ 0 \in 0..MaxTiles
    BY LibRawAssumption DEF NoPicture
  <2> DEFINE made == [w |-> 0, h |-> 0, colors |-> 0, copied |-> FALSE]
  <2>2. made \in [w : Nat, h : Nat, colors : 0..4, copied : BOOLEAN]
    OBVIOUS
  <2>3. raw = [flags |-> {}, inputInternal |-> FALSE, size |-> NoPicture, shrink |-> FALSE,
               fuji |-> 0, area |-> 0, mixGreen |-> FALSE, colors |-> 0, filters |-> FALSE,
               half |-> FALSE, threshold |-> FALSE, listening |-> FALSE, terminate |-> FALSE,
               tiles |-> 0, made |-> made]
    BY DEF Init
  <2> HIDE DEF made
  <2> QED  BY <2>1, <2>2, <2>3 DEF Raws
<1>3. PhaseInv
  BY <1>1, <1>2 DEF PhaseInv, OpenCalls, UnpackCalls, ProcessCalls, ReducedCalls, WholeCalls,
     ReadyCalls, Stages
<1>4. ResultInv
  BY <1>1 DEF ResultInv, Failed
<1>5. ToldInv
  <2>1. told \in OPEN..THUMB_LOAD /\ told <= IDENTIFY
    BY <1>1 DEF OPEN, IDENTIFY, THUMB_LOAD
  <2> QED  BY <1>1, <2>1 DEF ToldInv, After, UnpackCalls
<1>6. /\ Accounted(heap, OwnAlways) /\ heap.mems = {} /\ heap.twice = FALSE
      /\ \A p \in Managed \cup OwnAlways : heap.at[p] = NULL
  BY <1>1, EmptyAccounted, PointerNames
<1>7. BlocksInv
  BY <1>2, <1>6 DEF BlocksInv, Own, Aliased, Managed, Recycled
<1>8. PointersInv
  BY <1>1, <1>2, <1>6 DEF PointersInv, OwnAlways, LoaderPointers, OpenCalls, After, Managed
<1>9. TableInv
  BY <1>1 DEF TableInv, After, ReducedCalls
<1>10. PictureInv
  BY <1>1 DEF PictureInv, FoundInv, ReducedInv, WholeInv, ReadyInv, MadeInv, PictureIsWhole, After,
     UnpackCalls, ReducedCalls, WholeCalls, ReadyCalls, Nothing
<1> QED  BY <1>3, <1>4, <1>5, <1>7, <1>8, <1>9, <1>10 DEF IInv, ControlInv, HeapInv

LEMMA StillInv ==
    ASSUME IInv, UNCHANGED vars
    PROVE  IInv' /\ told <= told'
<1>1. UNCHANGED <<heap, file, raw, call, ret, told, refused, pending, build, method, pc, handed>>
  BY DEF vars, libVars, loaderVars
<1>2. told <= told'
  BY <1>1, Numbers DEF IInv, ControlInv, ToldInv
<1>3. ControlInv'
  BY <1>1 DEF IInv, ControlInv, PhaseInv, ResultInv, ToldInv, Failed, After, Unopened
<1>4. HeapInv'
  BY <1>1 DEF IInv, HeapInv, BlocksInv, PointersInv, TableInv, Own, Failed, After
<1>5. PictureInv'
  BY <1>1 DEF IInv, PictureInv, FoundInv, ReducedInv, WholeInv, ReadyInv, MadeInv, PictureIsWhole,
     Side, ColoursLeft, After, Shrinks, InnerSize
<1> QED  BY <1>2, <1>3, <1>4, <1>5 DEF IInv

LEMMA StepInv ==
    ASSUME IInv, [Next]_vars
    PROVE  IInv' /\ told <= told'
<1>1. CASE LibRawNext /\ UNCHANGED loaderVars
  BY <1>1, LibRawInv
<1>2. CASE StartPrecise
  BY <1>2, StartPreciseInv
<1>3. CASE StartDescription
  BY <1>3, StartDescriptionInv
<1>4. CASE LoadPrecise \/ LoadDescription
  BY <1>4, LoadInv
<1>5. CASE NoImage
  BY <1>5, NoImageInv
<1>6. CASE DecodePrecise
  BY <1>6, DecodePreciseInv
<1>7. CASE DecodeThumb
  BY <1>7, DecodeThumbInv
<1>8. CASE End
  BY <1>8, EndInv
<1>9. CASE Done \/ UNCHANGED vars
  BY <1>9, StillInv DEF Done
<1> QED  BY <1>1, <1>2, <1>3, <1>4, <1>5, <1>6, <1>7, <1>8, <1>9 DEF Next

-----------------------------------------------------------------------------
(* The results.                                                              *)

\* The invariant above is inductive, for every file, every allocation that
\* fails and every answer of the listener.
THEOREM Invariance == Spec => []IInv
<1>1. IInv /\ [Next]_vars => IInv'
  BY StepInv
<1> QED  BY <1>1, InitInv, PTL DEF Spec

\* Type correctness of the processor, the native method and the heap.
THEOREM TypeCorrect == Spec => []TypeOK
<1>1. IInv => TypeOK
  <2> SUFFICES ASSUME IInv PROVE TypeOK
    OBVIOUS
  <2>1. heap \in Heaps
    BY DEF IInv, HeapInv, BlocksInv, Accounted
  <2>2. /\ raw.flags \subseteq OPEN..THUMB_LOAD
        /\ raw.colors \in 0..4 /\ raw.area \in Nat /\ raw.tiles \in 0..MaxTiles
    BY DEF IInv, ControlInv, PhaseInv, Raws
  <2> QED  BY <2>1, <2>2 DEF IInv, ControlInv, PhaseInv, ResultInv, ToldInv, TypeOK
<1> QED  BY <1>1, Invariance, PTL

\* No block is freed twice, whichever stage gives up and however often the
\* processor is recycled; the decoder that writes through imgdata.image is
\* the one exception, once it has failed.
THEOREM FreesOnce == Spec => []FreedOnce
<1>1. IInv => FreedOnce
  BY DEF IInv, HeapInv, BlocksInv, Failed, FreedOnce
<1> QED  BY <1>1, Invariance, PTL

\* A native method that returned has freed everything but the Java object's
\* arrays and the byte buffer a decoder lost.
THEOREM LeaksNothing == Spec => []NothingLeaks
<1>1. IInv => NothingLeaks
  <2> SUFFICES ASSUME IInv, pc = "returned"
               PROVE  heap.live = (IF handed = Nothing THEN {} ELSE JavaArrays(heap))
                                  \cup (IF file.intact THEN {} ELSE {heap.at["buffer"]} \ {NULL})
    BY DEF NothingLeaks
  <2>1. call = "idle"
    BY DEF IInv, ControlInv, PhaseInv, OpenCalls, UnpackCalls, ProcessCalls, ReducedCalls,
           WholeCalls, ReadyCalls, Stages
  <2>2. /\ \A p \in {"stream", "memimage", "fb", "name", "oc", "processor"} : heap.at[p] = NULL
        /\ heap.at["buffer"] # NULL => ~file.intact
        /\ \A p \in {"r", "g", "b"} : heap.at[p] # NULL <=> handed # Nothing
    BY <2>1 DEF IInv, HeapInv, PointersInv
  <2>3. heap.mems = {} /\ raw.inputInternal = FALSE
    BY <2>2 DEF IInv, ControlInv, PhaseInv, HeapInv, PointersInv, Raws
  <2>4. heap.live = Named(heap, OwnAlways)
    BY <2>3 DEF IInv, HeapInv, BlocksInv, Accounted, Own
  <2>5. OwnAlways = {"stream", "memimage", "fb", "name", "oc", "processor"} \cup {"buffer", "r", "g", "b"}
    BY DEF OwnAlways, LoaderPointers
  <2>6. heap.live = {heap.at["buffer"], heap.at["r"], heap.at["g"], heap.at["b"]} \ {NULL}
    BY <2>2, <2>4, <2>5 DEF Named
  <2>7. JavaArrays(heap) = {heap.at["r"], heap.at["g"], heap.at["b"]}
    BY ThreeNames, LoaderAssumption DEF JavaArrays, Colours, LoaderPointers
  <2>8. CASE handed = Nothing
    BY <2>2, <2>6, <2>8
  <2>9. CASE handed # Nothing
    BY <2>2, <2>6, <2>7, <2>9
  <2> QED  BY <2>8, <2>9
<1> QED  BY <1>1, Invariance, PTL

\* Java gets a bitmap or an exception and never both, but for the file that
\* the Windows build could not open.
THEOREM ReportsFailure == Spec => []FailureIsReported
<1>1. IInv => FailureIsReported
  BY DEF IInv, ControlInv, ResultInv, Unopened, FailureIsReported
<1> QED  BY <1>1, Invariance, PTL

\* The listener's refusal is the load's answer, and no later stage hands a
\* bitmap over.
THEOREM RefusalIsFinal == Spec => []CancelIsFinal
<1>1. IInv => CancelIsFinal
  <2> SUFFICES ASSUME IInv, pc = "returned", refused
               PROVE  handed = Nothing /\ ret = "CANCELLED_BY_CALLBACK"
    BY DEF CancelIsFinal
  <2>1. call # "ahd_rows"
    BY DEF IInv, ControlInv, PhaseInv, ProcessCalls, WholeCalls
  <2>2. ret # "SUCCESS" /\ ret = "CANCELLED_BY_CALLBACK"
    BY <2>1 DEF IInv, ControlInv, ResultInv, Failed
  <2> QED  BY <2>2 DEF IInv, ControlInv, ResultInv
<1> QED  BY <1>1, Invariance, PTL

\* The stages of a load report in the order of their numbers, whichever of
\* them the picture needs.
THEOREM ProgressGoesOn == Spec => ProgressNeverGoesBack
<1>1. IInv /\ IInv' /\ [Next]_vars => [told' >= told]_vars
  <2> SUFFICES ASSUME IInv, IInv', Next PROVE told' >= told
    OBVIOUS
  <2>1. told <= told'
    BY StepInv
  <2>2. told \in OPEN..THUMB_LOAD /\ told' \in OPEN..THUMB_LOAD
    BY DEF IInv, ControlInv, ToldInv
  <2> QED  BY <2>1, <2>2, Numbers
<1> QED  BY <1>1, Invariance, PTL DEF Spec, ProgressNeverGoesBack

\* Every stage finds the memory that the sizes it works with ask for.
THEOREM PictureHasMemory == Spec => []ImageHoldsPicture
<1>1. IInv => ImageHoldsPicture
  <2> SUFFICES ASSUME IInv PROVE ImageHoldsPicture
    OBVIOUS
  <2>1. raw.area \in Nat
    BY DEF IInv, ControlInv, PhaseInv, Raws
  <2>2. call \in ReducedCalls => raw.area >= raw.size.iw * raw.size.ih
    BY <2>1 DEF IInv, PictureInv, ReducedInv
  <2>3. call \in WholeCalls \cup ReadyCalls \cup {"mem_image"} => raw.area >= Area(raw.size)
    BY <2>1 DEF IInv, PictureInv, WholeInv, ReadyInv
  <2> QED  BY <2>2, <2>3 DEF ImageHoldsPicture, ReducedCalls, WholeCalls, ReadyCalls
<1> QED  BY <1>1, Invariance, PTL

\* The Java bitmap has three written colours and the size the file and
\* divideBy2 ask for.
THEOREM WholePictures == Spec => []PictureIsWhole
<1>1. IInv => PictureIsWhole
  BY DEF IInv, PictureInv, MadeInv
<1> QED  BY <1>1, Invariance, PTL
=============================================================================
