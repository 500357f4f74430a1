------------------------- MODULE PreciseBitmapView --------------------------
(***************************************************************************)
(* PreciseBitmapView of com.cateye.ui.swt and of com.cateye.ui.android,    *)
(* with the two caches of a view: a rough picture (LQ), which the UI       *)
(* thread draws at a change, and a fine one (HQ),                          *)
(* which a polishing thread draws when a rough one was painted.  The paint *)
(* handler shows the cache that activeImageIndex names, a volatile field   *)
(* that both threads assign.                                               *)
(*                                                                         *)
(* What is to be seen - bitmap, pan, zoom and size - is the number of the  *)
(* change that led to it.  A picture is the number of the view it shows;   *)
(* 0: it is new or only partly drawn.  The pixels, and the exceptions of a *)
(* drawing whose size changes under it, are left out.                      *)
(*                                                                         *)
(* The front ends differ in what a new size does, and in painting: SWT     *)
(* paints within update(), Android some time after invalidate().           *)
(***************************************************************************)
EXTENDS Naturals

CONSTANTS
    Drawers,        \* names for the polishing threads that may be alive
    MaxEvents       \* bound: what the user and the window system do

ASSUME DrawersAssumption == Drawers # {}
ASSUME EventsAssumption == MaxEvents \in Nat

VARIABLES
    frontEnd,           \* whose view it is; never changes
    events,             \* events so far
    loaded,             \* preciseBitmap # null
    resizes,            \* calls of setViewSize so far; 0: no imageData yet
    wanted,             \* the view that is to be seen
    picture,            \* cache -> the view in it
    activeImageIndex,
    ui,                 \* where the UI thread is
    dirty,              \* a paint is due
    shown,              \* what is on the screen
    drawer,             \* polishing thread -> where it is in run()
    current,            \* polishingDrawingThread; the last one started
    interrupted,        \* threads whose interrupt flag is set
    drawing,            \* thread -> the view it draws
    drawnInto,          \* thread -> resizes when it took the imageData
    late                \* history: since LQ was last made active, HQ was
                        \* made active with an old view, or an Android
                        \* view got a new size while HQ was active

uiVars == <<frontEnd, events, loaded, resizes, wanted, ui, shown, current>>
drawerVars == <<drawer, interrupted, drawing, drawnInto>>
vars == <<uiVars, picture, activeImageIndex, dirty, drawerVars, late>>

Caches == {"LQ", "HQ"}

TypeOK ==
    /\ frontEnd \in {"swt", "android"}
    /\ events \in 0 .. MaxEvents
    /\ loaded \in BOOLEAN
    /\ resizes \in 0 .. MaxEvents
    /\ wanted \in 0 .. MaxEvents
    /\ picture \in [Caches -> 0 .. MaxEvents]
    /\ activeImageIndex \in Caches
    /\ ui \in {"idle", "activate", "paint", "painted", "join", "start"}
    /\ dirty \in BOOLEAN
    /\ shown \in 0 .. MaxEvents
    /\ drawer \in [Drawers -> {"none", "new", "asked", "draw", "finished", "active",
                              "ended"}]
    /\ current \in Drawers
    /\ interrupted \in SUBSET Drawers
    /\ drawing \in [Drawers -> 0 .. MaxEvents]
    /\ drawnInto \in [Drawers -> 0 .. MaxEvents]
    /\ late \in BOOLEAN

Init ==
    /\ frontEnd \in {"swt", "android"}
    /\ events = 0
    /\ loaded = FALSE
    /\ resizes = 0
    /\ wanted = 0
    /\ picture = [c \in Caches |-> 0]
    /\ activeImageIndex = "LQ"
    /\ ui = "idle"
    /\ dirty = TRUE
    /\ shown = 0
    /\ drawer = [d \in Drawers |-> "none"]
    /\ current \in Drawers
    /\ interrupted = {}
    /\ drawing = [d \in Drawers |-> 0]
    /\ drawnInto = [d \in Drawers |-> 0]
    /\ late = FALSE

IsAlive(d) == drawer[d] \notin {"none", "ended"}

-----------------------------------------------------------------------------
(* The handlers.  Each changes what is wanted, calls cache[LQ].update(),   *)
(* which draws the whole picture unless there is no bitmap or no imageData *)
(* yet, makes LQ active, and asks for a paint.                             *)

Happens ==
    /\ ui = "idle" /\ events < MaxEvents
    /\ events' = events + 1
    /\ UNCHANGED frontEnd

UpdateLQ(pictures) ==
    picture' = IF loaded' /\ resizes' > 0
               THEN [pictures EXCEPT !["LQ"] = wanted'] ELSE pictures

Changes(pictures) ==
    /\ Happens
    /\ wanted' = events'
    /\ UpdateLQ(pictures)
    /\ ui' = "activate"
    /\ UNCHANGED <<activeImageIndex, dirty, shown, current, drawerVars, late>>

SetPreciseBitmap == loaded' = TRUE /\ UNCHANGED resizes /\ Changes(picture)

(* setViewSize makes new imageData for both caches.                        *)
Blank == [c \in Caches |-> 0]

ControlResized ==
    /\ frontEnd = "swt"
    /\ resizes' = resizes + 1
    /\ UNCHANGED loaded
    /\ Changes(Blank)

(* The Android handler neither draws the rough picture nor makes it        *)
(* active; the window system paints a view whose size changed.             *)
OnSizeChanged ==
    /\ frontEnd = "android"
    /\ Happens
    /\ resizes' = resizes + 1
    /\ wanted' = events'
    /\ picture' = Blank
    /\ dirty' = TRUE
    /\ late' = (late \/ activeImageIndex = "HQ")
    /\ UNCHANGED <<loaded, activeImageIndex, ui, shown, current, drawerVars>>

(* mouseMove with the button down, and the mouse wheel.                    *)
DragOrZoom ==
    /\ frontEnd = "swt"
    /\ UNCHANGED <<loaded, resizes>>
    /\ Changes(picture)

(* onTouchEvent with ACTION_MOVE.                                          *)
Touch ==
    /\ frontEnd = "android"
    /\ UNCHANGED <<loaded, resizes>>
    /\ Changes(picture)

(* The window system wants the view painted again.                         *)
Expose ==
    /\ Happens
    /\ dirty' = TRUE
    /\ UNCHANGED <<loaded, resizes, wanted, picture, activeImageIndex, ui,
                   shown, current, drawerVars, late>>

(* redraw() and update(), or invalidate().                                 *)
AskForPaint ==
    /\ dirty' = TRUE
    /\ ui' = IF frontEnd = "swt" THEN "paint" ELSE "idle"

KeepActive ==
    /\ ui = "activate"
    /\ AskForPaint
    /\ UNCHANGED <<frontEnd, events, loaded, resizes, wanted, picture, activeImageIndex,
                   shown, current, drawerVars, late>>
ActivateLQ ==
    /\ ui = "activate"
    /\ activeImageIndex' = "LQ"
    /\ late' = FALSE
    /\ AskForPaint
    /\ UNCHANGED <<frontEnd, events, loaded, resizes, wanted, picture, shown, current,
                   drawerVars>>

-----------------------------------------------------------------------------
(* paintControl reads activeImageIndex twice.                              *)

Paint ==
    /\ ui = "paint" \/ (ui = "idle" /\ dirty)
    /\ dirty' = FALSE
    /\ shown' = picture[activeImageIndex]
    /\ ui' = "painted"
    /\ UNCHANGED <<frontEnd, events, loaded, resizes, wanted, picture, activeImageIndex,
                   current, drawerVars, late>>

InterruptOnly ==
    /\ interrupted' = IF IsAlive(current) THEN interrupted \union {current} ELSE interrupted
    /\ ui' = IF IsAlive(current) THEN "idle" ELSE "start"
DoNotJoin ==
    /\ interrupted' = IF IsAlive(current) THEN interrupted \union {current} ELSE interrupted
    /\ ui' = "start"
Interrupt ==
    /\ interrupted' = IF IsAlive(current) THEN interrupted \union {current} ELSE interrupted
    /\ ui' = IF IsAlive(current) THEN "join" ELSE "start"

Painted ==
    /\ ui = "painted"
    /\ \/ activeImageIndex = "LQ" /\ Interrupt
       \/ activeImageIndex = "HQ" /\ ui' = "idle" /\ UNCHANGED interrupted
    /\ UNCHANGED <<frontEnd, events, loaded, resizes, wanted, picture, activeImageIndex,
                   dirty, shown, drawer, current, drawing, drawnInto, late>>

Join ==
    /\ ui = "join"
    /\ ~ IsAlive(current)
    /\ ui' = "start"
    /\ UNCHANGED <<frontEnd, events, loaded, resizes, wanted, picture, activeImageIndex,
                   dirty, shown, current, drawerVars, late>>

StartDrawer(d) ==
    /\ ui = "start"
    /\ ~ IsAlive(d)
    /\ drawer' = [drawer EXCEPT ![d] = "new"]
    /\ current' = d
    /\ interrupted' = interrupted \ {d}
    /\ ui' = "idle"
    /\ UNCHANGED <<frontEnd, events, loaded, resizes, wanted, picture, activeImageIndex,
                   dirty, shown, drawing, drawnInto, late>>

-----------------------------------------------------------------------------
(* polishingDrawingRunnable in thread d.                                   *)

Goes(d, where) == drawer' = [drawer EXCEPT ![d] = where]

(* cache[HQ].update() asks the transformer for the origin and then for the *)
(* zoom; with a change between them the picture is of no view that was     *)
(* ever wanted.  Then it draws row by row: SWT into the imageData itself,  *)
(* Android into an array that setPixels copies into the image at the end.  *)
AskOriginAgain(d) ==
    /\ drawer[d] = "new"
    /\ IF loaded /\ resizes > 0
       THEN Goes(d, "asked") /\ drawing' = [drawing EXCEPT ![d] = wanted]
       ELSE UNCHANGED <<drawer, drawing>>
    /\ UNCHANGED <<uiVars, picture, activeImageIndex, dirty, interrupted,
                   drawnInto, late>>
AskOrigin(d) ==
    /\ drawer[d] = "new"
    /\ IF loaded /\ resizes > 0
       THEN Goes(d, "asked") /\ drawing' = [drawing EXCEPT ![d] = wanted]
       ELSE Goes(d, "ended") /\ UNCHANGED drawing
    /\ UNCHANGED <<uiVars, picture, activeImageIndex, dirty, interrupted,
                   drawnInto, late>>

BeginUpdate(d) ==
    /\ drawer[d] = "asked"
    /\ Goes(d, "draw")
    /\ picture' = IF frontEnd = "swt"
                  THEN [picture EXCEPT !["HQ"] = 0] ELSE picture
    /\ drawing' = [drawing EXCEPT ![d] = IF @ = wanted THEN @ ELSE 0]
    /\ drawnInto' = [drawnInto EXCEPT ![d] = resizes]
    /\ UNCHANGED <<uiVars, activeImageIndex, dirty, interrupted, late>>

(* After the last row, perhaps too late for an interrupt.  A picture that  *)
(* setViewSize replaced meanwhile stays blank.                             *)
EndUpdate(d) ==
    /\ drawer[d] = "draw"
    /\ Goes(d, "finished")
    /\ picture' = IF drawnInto[d] = resizes
                  THEN [picture EXCEPT !["HQ"] = drawing[d]] ELSE picture
    /\ UNCHANGED <<uiVars, activeImageIndex, dirty, interrupted, drawing,
                   drawnInto, late>>

(* report(): Thread.interrupted() clears the flag, and update() fails.     *)
AbortUpdate(d) ==
    /\ drawer[d] = "draw"
    /\ d \in interrupted
    /\ interrupted' = interrupted \ {d}
    /\ Goes(d, "ended")
    /\ UNCHANGED <<uiVars, picture, activeImageIndex, dirty, drawing, drawnInto,
                   late>>

ActivateHQ(d) ==
    /\ drawer[d] = "finished"
    /\ activeImageIndex' = "HQ"
    /\ late' = (drawing[d] # wanted)
    /\ Goes(d, "active")
    /\ UNCHANGED <<uiVars, picture, dirty, interrupted, drawing, drawnInto>>

RequestRedraw(d) ==
    /\ drawer[d] = "active"
    /\ dirty' = TRUE
    /\ Goes(d, "ended")
    /\ UNCHANGED <<uiVars, picture, activeImageIndex, interrupted, drawing,
                   drawnInto, late>>

Draws(d) ==
    \/ AskOrigin(d) \/ BeginUpdate(d) \/ EndUpdate(d) \/ AbortUpdate(d)
    \/ ActivateHQ(d) \/ RequestRedraw(d)

-----------------------------------------------------------------------------
UiThread == ActivateLQ \/ Paint \/ Painted \/ Join \/ \E d \in Drawers : StartDrawer(d)
Event ==
    \/ SetPreciseBitmap \/ Expose
    \/ ControlResized \/ DragOrZoom        \* SWT
    \/ OnSizeChanged \/ Touch              \* Android

AllDone ==
    /\ ui = "idle" /\ ~ dirty /\ events = MaxEvents
    /\ \A d \in Drawers : ~ IsAlive(d)
    /\ UNCHANGED vars

Next == Event \/ UiThread \/ (\E d \in Drawers : Draws(d)) \/ AllDone

(* Both threads run; nothing makes the user act.                           *)
Spec ==
    /\ Init /\ [][Next]_vars
    /\ WF_vars(UiThread)
    /\ \A d \in Drawers : WF_vars(Draws(d))

-----------------------------------------------------------------------------
(* Properties.                                                             *)

Ready == loaded /\ resizes > 0

(* polish interrupts and joins the thread before it starts the next one:   *)
(* the fine picture is never drawn by two threads at once.                 *)
OneDrawer == \A d, e \in Drawers : IsAlive(d) /\ IsAlive(e) => d = e

(* When everything has come to rest, the picture on the screen is of what  *)
(* is wanted, unless a polishing thread made its old picture active after  *)
(* the UI thread had made the new rough one active, or the size of an      *)
(* Android view changed while its fine picture was active.                 *)
AtRest == ui = "idle" /\ ~ dirty /\ \A d \in Drawers : ~ IsAlive(d)
FreshAtRest == AtRest /\ Ready /\ ~ late => shown = wanted

(* In a view that is left alone the fine picture becomes the active one    *)
(* and stays it, however its events interrupted the polishing.  (It may be *)
(* blank, when an Android view's size changed under it.)                   *)
PolishedAtLast == <>[](Ready => activeImageIndex = "HQ" /\ ui = "idle")

(* The polishing thread never waits for the UI thread that waits for it.   *)
JoinReturns == ui = "join" ~> ui # "join"
=============================================================================
