----------------------- MODULE PreciseBitmapViewProofs -----------------------
(***************************************************************************)
(* Proofs about PreciseBitmapView for any number of events and of names    *)
(* for polishing threads, and for both front ends.                         *)
(*                                                                         *)
(* The invariant says who still has to act as long as the screen does not  *)
(* show what is wanted: the UI thread, a paint that is due, or a polishing *)
(* thread that nobody interrupted.                                         *)
(***************************************************************************)
EXTENDS PreciseBitmapView, TLAPS

(* Only the thread started last can be alive, and none is when the next is *)
(* to be started; it is interrupted only while the UI thread joins it.     *)
DrawersInv ==
    /\ \A d \in Drawers : IsAlive(d) => d = current
    /\ ui = "start" => ~ IsAlive(current)
    /\ current \in interrupted /\ IsAlive(current) => ui = "join"

(* The number of a view is that of the event that made it: it is never     *)
(* wanted again after another one.                                         *)
NumbersInv ==
    /\ wanted <= events /\ resizes <= events
    /\ Ready => wanted > 0
    /\ \A d \in Drawers : drawing[d] <= wanted

(* A thread that draws what is still wanted draws it into the picture that *)
(* the cache has, and when it is done the picture is there.                *)
DrawingInv ==
    /\ drawer[current] = "draw" /\ drawing[current] = wanted =>
           drawnInto[current] = resizes
    /\ drawer[current] = "finished" /\ drawing[current] = wanted =>
           picture["HQ"] = wanted
    /\ drawer[current] \in {"asked", "draw", "finished"} => Ready

(* A polishing thread will make a picture active, or the UI thread will    *)
(* make LQ active or start a polishing thread.                             *)
Polishing == drawer[current] \in {"new", "asked", "draw", "finished"}
UiActs == ui \in {"activate", "join", "start"}

(* What HQ shows without being late is wanted, or it will be replaced.     *)
ActiveInv ==
    activeImageIndex = "HQ" /\ ~ late /\ Ready =>
        UiActs \/ Polishing \/ picture["HQ"] = wanted

(* ... and it is on the screen, or will be painted.                        *)
PaintedInv ==
    activeImageIndex = "HQ" /\ ~ late /\ Ready =>
        \/ UiActs \/ Polishing \/ drawer[current] = "active"
        \/ dirty \/ ui = "paint" \/ shown = wanted

(* A rough picture is not the last one.                                    *)
RoughInv ==
    activeImageIndex = "LQ" /\ Ready =>
        UiActs \/ Polishing \/ dirty \/ ui \in {"paint", "painted"}

Inv ==
    /\ TypeOK
    /\ DrawersInv
    /\ NumbersInv
    /\ DrawingInv
    /\ ActiveInv /\ PaintedInv /\ RoughInv

(* SetPreciseBitmap keeps the invariant. *)
LEMMA SetPreciseBitmapInv ==
    ASSUME Inv, SetPreciseBitmap
    PROVE  Inv'
<1> USE EventsAssumption DEF Inv
<1>1. TypeOK'
  BY DEF TypeOK, Caches, NumbersInv, SetPreciseBitmap, Changes, Happens,
     UpdateLQ, uiVars, drawerVars
<1>2. DrawersInv'
  BY DEF DrawersInv, IsAlive, TypeOK, SetPreciseBitmap, Changes, Happens,
     UpdateLQ, uiVars, drawerVars
<1>3. NumbersInv'
  BY DEF NumbersInv, Ready, TypeOK, SetPreciseBitmap, Changes, Happens,
     UpdateLQ, uiVars, drawerVars
<1>4. DrawingInv'
  BY DEF DrawingInv, DrawersInv, IsAlive, NumbersInv, Ready, TypeOK, Caches,
     SetPreciseBitmap, Changes, Happens, UpdateLQ, uiVars, drawerVars
<1>5. (ActiveInv /\ PaintedInv /\ RoughInv)'
  BY DEF ActiveInv, PaintedInv, RoughInv, DrawersInv, DrawingInv, IsAlive,
     UiActs, Polishing, Ready, TypeOK, Caches, NumbersInv, SetPreciseBitmap,
     Changes, Happens, UpdateLQ, uiVars, drawerVars
<1> QED  BY <1>1, <1>2, <1>3, <1>4, <1>5

(* ControlResized keeps the invariant. *)
LEMMA ControlResizedInv ==
    ASSUME Inv, ControlResized
    PROVE  Inv'
<1> USE EventsAssumption DEF Inv
<1>1. TypeOK'
  BY DEF TypeOK, Caches, NumbersInv, ControlResized, Changes, Happens,
     UpdateLQ, Blank, uiVars, drawerVars
<1>2. DrawersInv'
  BY DEF DrawersInv, IsAlive, TypeOK, ControlResized, Changes, Happens,
     UpdateLQ, Blank, uiVars, drawerVars
<1>3. NumbersInv'
  BY DEF NumbersInv, Ready, TypeOK, ControlResized, Changes, Happens, UpdateLQ,
     Blank, uiVars, drawerVars
<1>4. DrawingInv'
  BY DEF DrawingInv, DrawersInv, IsAlive, NumbersInv, Ready, TypeOK, Caches,
     ControlResized, Changes, Happens, UpdateLQ, Blank, uiVars, drawerVars
<1>5. (ActiveInv /\ PaintedInv /\ RoughInv)'
  BY DEF ActiveInv, PaintedInv, RoughInv, DrawersInv, DrawingInv, IsAlive,
     UiActs, Polishing, Ready, TypeOK, Caches, NumbersInv, ControlResized,
     Changes, Happens, UpdateLQ, Blank, uiVars, drawerVars
<1> QED  BY <1>1, <1>2, <1>3, <1>4, <1>5

(* OnSizeChanged keeps the invariant. *)
LEMMA OnSizeChangedInv ==
    ASSUME Inv, OnSizeChanged
    PROVE  Inv'
<1> USE EventsAssumption DEF Inv
<1>1. TypeOK'
  BY DEF TypeOK, Caches, NumbersInv, OnSizeChanged, Happens, Blank, uiVars,
     drawerVars
<1>2. DrawersInv'
  BY DEF DrawersInv, IsAlive, TypeOK, OnSizeChanged, Happens, Blank, uiVars,
     drawerVars
<1>3. NumbersInv'
  BY DEF NumbersInv, Ready, TypeOK, OnSizeChanged, Happens, Blank, uiVars,
     drawerVars
<1>4. DrawingInv'
  BY DEF DrawingInv, DrawersInv, IsAlive, NumbersInv, Ready, TypeOK, Caches,
     OnSizeChanged, Happens, Blank, uiVars, drawerVars
<1>5. (ActiveInv /\ PaintedInv /\ RoughInv)'
  BY DEF ActiveInv, PaintedInv, RoughInv, DrawersInv, DrawingInv, IsAlive,
     UiActs, Polishing, Ready, TypeOK, Caches, NumbersInv, OnSizeChanged,
     Happens, Blank, uiVars, drawerVars
<1> QED  BY <1>1, <1>2, <1>3, <1>4, <1>5

(* DragOrZoom keeps the invariant. *)
LEMMA DragOrZoomInv ==
    ASSUME Inv, DragOrZoom
    PROVE  Inv'
<1> USE EventsAssumption DEF Inv
<1>1. TypeOK'
  BY DEF TypeOK, Caches, NumbersInv, DragOrZoom, Changes, Happens, UpdateLQ,
     uiVars, drawerVars
<1>2. DrawersInv'
  BY DEF DrawersInv, IsAlive, TypeOK, DragOrZoom, Changes, Happens, UpdateLQ,
     uiVars, drawerVars
<1>3. NumbersInv'
  BY DEF NumbersInv, Ready, TypeOK, DragOrZoom, Changes, Happens, UpdateLQ,
     uiVars, drawerVars
<1>4. DrawingInv'
  BY DEF DrawingInv, DrawersInv, IsAlive, NumbersInv, Ready, TypeOK, Caches,
     DragOrZoom, Changes, Happens, UpdateLQ, uiVars, drawerVars
<1>5. (ActiveInv /\ PaintedInv /\ RoughInv)'
  BY DEF ActiveInv, PaintedInv, RoughInv, DrawersInv, DrawingInv, IsAlive,
     UiActs, Polishing, Ready, TypeOK, Caches, NumbersInv, DragOrZoom, Changes,
     Happens, UpdateLQ, uiVars, drawerVars
<1> QED  BY <1>1, <1>2, <1>3, <1>4, <1>5

(* Touch keeps the invariant. *)
LEMMA TouchInv ==
    ASSUME Inv, Touch
    PROVE  Inv'
<1> USE EventsAssumption DEF Inv
<1>1. TypeOK'
  BY DEF TypeOK, Caches, NumbersInv, Touch, Changes, Happens, UpdateLQ, uiVars,
     drawerVars
<1>2. DrawersInv'
  BY DEF DrawersInv, IsAlive, TypeOK, Touch, Changes, Happens, UpdateLQ,
     uiVars, drawerVars
<1>3. NumbersInv'
  BY DEF NumbersInv, Ready, TypeOK, Touch, Changes, Happens, UpdateLQ, uiVars,
     drawerVars
<1>4. DrawingInv'
  BY DEF DrawingInv, DrawersInv, IsAlive, NumbersInv, Ready, TypeOK, Caches,
     Touch, Changes, Happens, UpdateLQ, uiVars, drawerVars
<1>5. (ActiveInv /\ PaintedInv /\ RoughInv)'
  BY DEF ActiveInv, PaintedInv, RoughInv, DrawersInv, DrawingInv, IsAlive,
     UiActs, Polishing, Ready, TypeOK, Caches, NumbersInv, Touch, Changes,
     Happens, UpdateLQ, uiVars, drawerVars
<1> QED  BY <1>1, <1>2, <1>3, <1>4, <1>5

(* Expose keeps the invariant. *)
LEMMA ExposeInv ==
    ASSUME Inv, Expose
    PROVE  Inv'
<1> USE EventsAssumption DEF Inv
<1>1. TypeOK'
  BY DEF TypeOK, Caches, NumbersInv, Expose, Happens, uiVars, drawerVars
<1>2. DrawersInv'
  BY DEF DrawersInv, IsAlive, TypeOK, Expose, Happens, uiVars, drawerVars
<1>3. NumbersInv'
  BY DEF NumbersInv, Ready, TypeOK, Expose, Happens, uiVars, drawerVars
<1>4. DrawingInv'
  BY DEF DrawingInv, DrawersInv, IsAlive, NumbersInv, Ready, TypeOK, Caches,
     Expose, Happens, uiVars, drawerVars
<1>5. (ActiveInv /\ PaintedInv /\ RoughInv)'
  BY DEF ActiveInv, PaintedInv, RoughInv, DrawersInv, DrawingInv, IsAlive,
     UiActs, Polishing, Ready, TypeOK, Caches, NumbersInv, Expose, Happens,
     uiVars, drawerVars
<1> QED  BY <1>1, <1>2, <1>3, <1>4, <1>5

(* ActivateLQ keeps the invariant. *)
LEMMA ActivateLQInv ==
    ASSUME Inv, ActivateLQ
    PROVE  Inv'
<1> USE EventsAssumption DEF Inv
<1>1. TypeOK'
  BY DEF TypeOK, Caches, NumbersInv, ActivateLQ, AskForPaint, uiVars,
     drawerVars
<1>2. DrawersInv'
  BY DEF DrawersInv, IsAlive, TypeOK, ActivateLQ, AskForPaint, uiVars,
     drawerVars
<1>3. NumbersInv'
  BY DEF NumbersInv, Ready, TypeOK, ActivateLQ, AskForPaint, uiVars, drawerVars
<1>4. DrawingInv'
  BY DEF DrawingInv, DrawersInv, IsAlive, NumbersInv, Ready, TypeOK, Caches,
     ActivateLQ, AskForPaint, uiVars, drawerVars
<1>5. (ActiveInv /\ PaintedInv /\ RoughInv)'
  BY DEF ActiveInv, PaintedInv, RoughInv, DrawersInv, DrawingInv, IsAlive,
     UiActs, Polishing, Ready, TypeOK, Caches, NumbersInv, ActivateLQ,
     AskForPaint, uiVars, drawerVars
<1> QED  BY <1>1, <1>2, <1>3, <1>4, <1>5

(* Paint keeps the invariant. *)
LEMMA PaintInv ==
    ASSUME Inv, Paint
    PROVE  Inv'
<1> USE EventsAssumption DEF Inv
<1>1. TypeOK'
  BY DEF TypeOK, Caches, NumbersInv, Paint, uiVars, drawerVars
<1>2. DrawersInv'
  BY DEF DrawersInv, IsAlive, TypeOK, Paint, uiVars, drawerVars
<1>3. NumbersInv'
  BY DEF NumbersInv, Ready, TypeOK, Paint, uiVars, drawerVars
<1>4. DrawingInv'
  BY DEF DrawingInv, DrawersInv, IsAlive, NumbersInv, Ready, TypeOK, Caches,
     Paint, uiVars, drawerVars
<1>5. (ActiveInv /\ PaintedInv /\ RoughInv)'
  BY DEF ActiveInv, PaintedInv, RoughInv, DrawersInv, DrawingInv, IsAlive,
     UiActs, Polishing, Ready, TypeOK, Caches, NumbersInv, Paint, uiVars,
     drawerVars
<1> QED  BY <1>1, <1>2, <1>3, <1>4, <1>5

(* Painted keeps the invariant. *)
LEMMA PaintedStepInv ==
    ASSUME Inv, Painted
    PROVE  Inv'
<1> USE EventsAssumption DEF Inv
<1>1. TypeOK'
  BY DEF TypeOK, Caches, NumbersInv, Painted, Interrupt, uiVars, drawerVars
<1>2. DrawersInv'
  BY DEF DrawersInv, IsAlive, TypeOK, Painted, Interrupt, uiVars, drawerVars
<1>3. NumbersInv'
  BY DEF NumbersInv, Ready, TypeOK, Painted, Interrupt, uiVars, drawerVars
<1>4. DrawingInv'
  BY DEF DrawingInv, DrawersInv, IsAlive, NumbersInv, Ready, TypeOK, Caches,
     Painted, Interrupt, uiVars, drawerVars
<1>5. (ActiveInv /\ PaintedInv /\ RoughInv)'
  BY DEF ActiveInv, PaintedInv, RoughInv, DrawersInv, DrawingInv, IsAlive,
     UiActs, Polishing, Ready, TypeOK, Caches, NumbersInv, Painted, Interrupt,
     uiVars, drawerVars
<1> QED  BY <1>1, <1>2, <1>3, <1>4, <1>5

(* Join keeps the invariant. *)
LEMMA JoinInv ==
    ASSUME Inv, Join
    PROVE  Inv'
<1> USE EventsAssumption DEF Inv
<1>1. TypeOK'
  BY DEF TypeOK, Caches, NumbersInv, Join, uiVars, drawerVars
<1>2. DrawersInv'
  BY DEF DrawersInv, IsAlive, TypeOK, Join, uiVars, drawerVars
<1>3. NumbersInv'
  BY DEF NumbersInv, Ready, TypeOK, Join, uiVars, drawerVars
<1>4. DrawingInv'
  BY DEF DrawingInv, DrawersInv, IsAlive, NumbersInv, Ready, TypeOK, Caches,
     Join, uiVars, drawerVars
<1>5. (ActiveInv /\ PaintedInv /\ RoughInv)'
  BY DEF ActiveInv, PaintedInv, RoughInv, DrawersInv, DrawingInv, IsAlive,
     UiActs, Polishing, Ready, TypeOK, Caches, NumbersInv, Join, uiVars,
     drawerVars
<1> QED  BY <1>1, <1>2, <1>3, <1>4, <1>5

(* StartDrawer(d) keeps the invariant. *)
LEMMA StartDrawerInv ==
    ASSUME Inv, NEW d \in Drawers, StartDrawer(d)
    PROVE  Inv'
<1> USE EventsAssumption DEF Inv
<1>1. TypeOK'
  BY DEF TypeOK, Caches, NumbersInv, StartDrawer, uiVars, drawerVars
<1>2. DrawersInv'
  BY DEF DrawersInv, IsAlive, TypeOK, StartDrawer, uiVars, drawerVars
<1>3. NumbersInv'
  BY DEF NumbersInv, Ready, TypeOK, StartDrawer, uiVars, drawerVars
<1>4. DrawingInv'
  BY DEF DrawingInv, DrawersInv, IsAlive, NumbersInv, Ready, TypeOK, Caches,
     StartDrawer, uiVars, drawerVars
<1>5. (ActiveInv /\ PaintedInv /\ RoughInv)'
  <2>1. current' = d
    BY DEF DrawersInv, IsAlive, StartDrawer, uiVars, drawerVars
  <2> QED  BY <2>1 DEF ActiveInv, PaintedInv, RoughInv, DrawersInv, DrawingInv,
     IsAlive, UiActs, Polishing, Ready, TypeOK, Caches, NumbersInv,
     StartDrawer, uiVars, drawerVars
<1> QED  BY <1>1, <1>2, <1>3, <1>4, <1>5

(* AskOrigin(d) keeps the invariant. *)
LEMMA AskOriginInv ==
    ASSUME Inv, NEW d \in Drawers, AskOrigin(d)
    PROVE  Inv'
<1> USE EventsAssumption DEF Inv
<1>1. TypeOK'
  BY DEF TypeOK, Caches, NumbersInv, AskOrigin, Goes, uiVars, drawerVars
<1>2. DrawersInv'
  BY DEF DrawersInv, IsAlive, TypeOK, AskOrigin, Goes, uiVars, drawerVars
<1>3. NumbersInv'
  BY DEF NumbersInv, Ready, TypeOK, AskOrigin, Goes, uiVars, drawerVars
<1>4. DrawingInv'
  BY DEF DrawingInv, DrawersInv, IsAlive, NumbersInv, Ready, TypeOK, Caches,
     AskOrigin, Goes, uiVars, drawerVars
<1>5. (ActiveInv /\ PaintedInv /\ RoughInv)'
  <2>1. d = current
    BY DEF DrawersInv, IsAlive, AskOrigin, Goes, uiVars, drawerVars
  <2> QED  BY <2>1 DEF ActiveInv, PaintedInv, RoughInv, DrawersInv, DrawingInv,
     IsAlive, UiActs, Polishing, Ready, TypeOK, Caches, NumbersInv, AskOrigin,
     Goes, uiVars, drawerVars
<1> QED  BY <1>1, <1>2, <1>3, <1>4, <1>5

(* BeginUpdate(d) keeps the invariant. *)
LEMMA BeginUpdateInv ==
    ASSUME Inv, NEW d \in Drawers, BeginUpdate(d)
    PROVE  Inv'
<1> USE EventsAssumption DEF Inv
<1>1. TypeOK'
  BY DEF TypeOK, Caches, NumbersInv, BeginUpdate, Goes, uiVars, drawerVars
<1>2. DrawersInv'
  BY DEF DrawersInv, IsAlive, TypeOK, BeginUpdate, Goes, uiVars, drawerVars
<1>3. NumbersInv'
  BY DEF NumbersInv, Ready, TypeOK, BeginUpdate, Goes, uiVars, drawerVars
<1>4. DrawingInv'
  BY DEF DrawingInv, DrawersInv, IsAlive, NumbersInv, Ready, TypeOK, Caches,
     BeginUpdate, Goes, uiVars, drawerVars
<1>5. (ActiveInv /\ PaintedInv /\ RoughInv)'
  <2>1. d = current
    BY DEF DrawersInv, IsAlive, BeginUpdate, Goes, uiVars, drawerVars
  <2> QED  BY <2>1 DEF ActiveInv, PaintedInv, RoughInv, DrawersInv, DrawingInv,
     IsAlive, UiActs, Polishing, Ready, TypeOK, Caches, NumbersInv,
     BeginUpdate, Goes, uiVars, drawerVars
<1> QED  BY <1>1, <1>2, <1>3, <1>4, <1>5

(* EndUpdate(d) keeps the invariant. *)
LEMMA EndUpdateInv ==
    ASSUME Inv, NEW d \in Drawers, EndUpdate(d)
    PROVE  Inv'
<1> USE EventsAssumption DEF Inv
<1>1. TypeOK'
  BY DEF TypeOK, Caches, NumbersInv, EndUpdate, Goes, uiVars, drawerVars
<1>2. DrawersInv'
  BY DEF DrawersInv, IsAlive, TypeOK, EndUpdate, Goes, uiVars, drawerVars
<1>3. NumbersInv'
  BY DEF NumbersInv, Ready, TypeOK, EndUpdate, Goes, uiVars, drawerVars
<1>4. DrawingInv'
  BY DEF DrawingInv, DrawersInv, IsAlive, NumbersInv, Ready, TypeOK, Caches,
     EndUpdate, Goes, uiVars, drawerVars
<1>5. (ActiveInv /\ PaintedInv /\ RoughInv)'
  <2>1. d = current
    BY DEF DrawersInv, IsAlive, EndUpdate, Goes, uiVars, drawerVars
  <2> QED  BY <2>1 DEF ActiveInv, PaintedInv, RoughInv, DrawersInv, DrawingInv,
     IsAlive, UiActs, Polishing, Ready, TypeOK, Caches, NumbersInv, EndUpdate,
     Goes, uiVars, drawerVars
<1> QED  BY <1>1, <1>2, <1>3, <1>4, <1>5

(* AbortUpdate(d) keeps the invariant. *)
LEMMA AbortUpdateInv ==
    ASSUME Inv, NEW d \in Drawers, AbortUpdate(d)
    PROVE  Inv'
<1> USE EventsAssumption DEF Inv
<1>1. TypeOK'
  BY DEF TypeOK, Caches, NumbersInv, AbortUpdate, Goes, uiVars, drawerVars
<1>2. DrawersInv'
  BY DEF DrawersInv, IsAlive, TypeOK, AbortUpdate, Goes, uiVars, drawerVars
<1>3. NumbersInv'
  BY DEF NumbersInv, Ready, TypeOK, AbortUpdate, Goes, uiVars, drawerVars
<1>4. DrawingInv'
  BY DEF DrawingInv, DrawersInv, IsAlive, NumbersInv, Ready, TypeOK, Caches,
     AbortUpdate, Goes, uiVars, drawerVars
<1>5. (ActiveInv /\ PaintedInv /\ RoughInv)'
  <2>1. d = current
    BY DEF DrawersInv, IsAlive, AbortUpdate, Goes, uiVars, drawerVars
  <2> QED  BY <2>1 DEF ActiveInv, PaintedInv, RoughInv, DrawersInv, DrawingInv,
     IsAlive, UiActs, Polishing, Ready, TypeOK, Caches, NumbersInv,
     AbortUpdate, Goes, uiVars, drawerVars
<1> QED  BY <1>1, <1>2, <1>3, <1>4, <1>5

(* ActivateHQ(d) keeps the invariant. *)
LEMMA ActivateHQInv ==
    ASSUME Inv, NEW d \in Drawers, ActivateHQ(d)
    PROVE  Inv'
<1> USE EventsAssumption DEF Inv
<1>1. TypeOK'
  BY DEF TypeOK, Caches, NumbersInv, ActivateHQ, Goes, uiVars, drawerVars
<1>2. DrawersInv'
  BY DEF DrawersInv, IsAlive, TypeOK, ActivateHQ, Goes, uiVars, drawerVars
<1>3. NumbersInv'
  BY DEF NumbersInv, Ready, TypeOK, ActivateHQ, Goes, uiVars, drawerVars
<1>4. DrawingInv'
  BY DEF DrawingInv, DrawersInv, IsAlive, NumbersInv, Ready, TypeOK, Caches,
     ActivateHQ, Goes, uiVars, drawerVars
<1>5. (ActiveInv /\ PaintedInv /\ RoughInv)'
  <2>1. d = current
    BY DEF DrawersInv, IsAlive, ActivateHQ, Goes, uiVars, drawerVars
  <2> QED  BY <2>1 DEF ActiveInv, PaintedInv, RoughInv, DrawersInv, DrawingInv,
     IsAlive, UiActs, Polishing, Ready, TypeOK, Caches, NumbersInv, ActivateHQ,
     Goes, uiVars, drawerVars
<1> QED  BY <1>1, <1>2, <1>3, <1>4, <1>5

(* RequestRedraw(d) keeps the invariant. *)
LEMMA RequestRedrawInv ==
    ASSUME Inv, NEW d \in Drawers, RequestRedraw(d)
    PROVE  Inv'
<1> USE EventsAssumption DEF Inv
<1>1. TypeOK'
  BY DEF TypeOK, Caches, NumbersInv, RequestRedraw, Goes, uiVars, drawerVars
<1>2. DrawersInv'
  BY DEF DrawersInv, IsAlive, TypeOK, RequestRedraw, Goes, uiVars, drawerVars
<1>3. NumbersInv'
  BY DEF NumbersInv, Ready, TypeOK, RequestRedraw, Goes, uiVars, drawerVars
<1>4. DrawingInv'
  BY DEF DrawingInv, DrawersInv, IsAlive, NumbersInv, Ready, TypeOK, Caches,
     RequestRedraw, Goes, uiVars, drawerVars
<1>5. (ActiveInv /\ PaintedInv /\ RoughInv)'
  <2>1. d = current
    BY DEF DrawersInv, IsAlive, RequestRedraw, Goes, uiVars, drawerVars
  <2> QED  BY <2>1 DEF ActiveInv, PaintedInv, RoughInv, DrawersInv, DrawingInv,
     IsAlive, UiActs, Polishing, Ready, TypeOK, Caches, NumbersInv,
     RequestRedraw, Goes, uiVars, drawerVars
<1> QED  BY <1>1, <1>2, <1>3, <1>4, <1>5

(* The initial state satisfies the invariant.                              *)
LEMMA InitInv == Init => Inv
<1> SUFFICES ASSUME Init PROVE Inv
    OBVIOUS
<1>1. TypeOK
  <2>1. 0 \in 0 .. MaxEvents
    BY EventsAssumption
  <2>2. picture \in [Caches -> 0 .. MaxEvents]
    BY <2>1 DEF Init, Caches
  <2>3. /\ drawing \in [Drawers -> 0 .. MaxEvents]
        /\ drawnInto \in [Drawers -> 0 .. MaxEvents]
    BY <2>1 DEF Init
  <2>4. drawer \in [Drawers -> {"none", "new", "asked", "draw", "finished",
                                "active", "ended"}]
    BY DEF Init
  <2>5. events \in 0 .. MaxEvents /\ resizes \in 0 .. MaxEvents
        /\ wanted \in 0 .. MaxEvents /\ shown \in 0 .. MaxEvents
    BY <2>1 DEF Init
  <2> QED
    BY <2>2, <2>3, <2>4, <2>5 DEF Init, TypeOK, Caches
<1>2. DrawersInv /\ DrawingInv
  <2>1. \A d \in Drawers : drawer[d] = "none"
    BY DEF Init
  <2>2. current \in Drawers
    BY DEF Init
  <2> QED
    BY <2>1, <2>2 DEF DrawersInv, DrawingInv, IsAlive
<1>3. NumbersInv
    BY DEF Init, NumbersInv, Ready
<1>4. ActiveInv /\ PaintedInv /\ RoughInv
    BY DEF Init, ActiveInv, PaintedInv, RoughInv, Ready
<1> QED
    BY <1>1, <1>2, <1>3, <1>4 DEF Inv

(* Every step of the UI thread, the polishing threads and the user keeps   *)
(* it.                                                                     *)
LEMMA StepInv == Inv /\ [Next]_vars => Inv'
<1> SUFFICES ASSUME Inv, [Next]_vars PROVE Inv'
    OBVIOUS
<1>1. CASE Event
    BY <1>1, SetPreciseBitmapInv, ExposeInv, ControlResizedInv, DragOrZoomInv,
       OnSizeChangedInv, TouchInv DEF Event
<1>2. CASE UiThread
    BY <1>2, ActivateLQInv, PaintInv, PaintedStepInv, JoinInv, StartDrawerInv
       DEF UiThread
<1>3. CASE \E d \in Drawers : Draws(d)
    BY <1>3, AskOriginInv, BeginUpdateInv, EndUpdateInv, AbortUpdateInv,
       ActivateHQInv, RequestRedrawInv DEF Draws
<1>4. CASE UNCHANGED vars
    BY <1>4 DEF vars, uiVars, drawerVars, Inv, TypeOK, DrawersInv, IsAlive,
       NumbersInv, DrawingInv, ActiveInv, PaintedInv, RoughInv, UiActs,
       Polishing, Ready
<1> QED
    BY <1>1, <1>2, <1>3, <1>4 DEF Next, AllDone

(* Inv is an invariant, whatever the scheduler does.                       *)
LEMMA Invariance == Spec => []Inv
BY InitInv, StepInv, PTL DEF Spec

(* The types of the view, its caches and its threads.                      *)
THEOREM TypeCorrect == Spec => []TypeOK
<1>1. Inv => TypeOK
    BY DEF Inv
<1> QED
    BY <1>1, Invariance, PTL

(* However often polish is called, and however late an interrupt comes,    *)
(* no two polishing threads draw the fine picture of a view.               *)
THEOREM NeverTwoDrawers == Spec => []OneDrawer
<1>1. Inv => OneDrawer
    BY DEF Inv, DrawersInv, OneDrawer
<1> QED
    BY <1>1, Invariance, PTL

(* A view at rest shows what is wanted, unless its polishing thread made   *)
(* an old picture active too late or its size changed under the fine one.  *)
THEOREM RestsFresh == Spec => []FreshAtRest
<1>1. ASSUME Inv, AtRest, Ready, ~ late
      PROVE  shown = wanted
  <2>1. ~ UiActs /\ ~ dirty /\ ui = "idle"
    BY <1>1 DEF AtRest, UiActs
  <2>2. ~ Polishing /\ drawer[current] # "active"
    BY <1>1 DEF AtRest, IsAlive, Polishing, Inv, TypeOK
  <2>3. activeImageIndex = "HQ"
    BY <1>1, <2>1, <2>2 DEF Inv, RoughInv, TypeOK, Caches
  <2> QED
    BY <1>1, <2>1, <2>2, <2>3 DEF Inv, PaintedInv
<1>2. Inv => FreshAtRest
    BY <1>1 DEF FreshAtRest
<1> QED
    BY <1>2, Invariance, PTL
=============================================================================
