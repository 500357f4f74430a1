---------------------------- MODULE ImageWindow -----------------------------
(***************************************************************************)
(* com.cateye.ui.swt.ImageWindow, the desktop program's only window, with  *)
(* the threads that work for it: the loader thread of ImagesRegistry, the  *)
(* processing thread of ImageProcessor, and the thread of closeASAP.       *)
(*                                                                         *)
(* The window closes only when nothing is loaded or processed; until then  *)
(* `closingPending` asks the processing to stop and the closure thread     *)
(* sends `close` again and again.  Threads reach the UI through callFromUi *)
(* and Display.syncExec, which waits until the UI thread has run the       *)
(* runnable.  The UI thread dispatches as long as the window lives; nobody *)
(* disposes the display.  The one image is requested once, so the registry *)
(* is just the state of that image, and the processor has one call.        *)
(* Neither the decoder nor the compression has a bound on its reports.     *)
(***************************************************************************)
EXTENDS ImageProcessor

CONSTANTS
    Request,        \* the startProcessingAsync call of reportSuccess
    DecodeErrors    \* what a failed decoding may throw, as in ImagesRegistry

ASSUME RequestAssumption == Calls = {Request}
ASSUME DecodeErrorsAssumption ==
    DecodeErrors \subseteq {"LibRawException", "NoSuchMethodError"}

VARIABLES
    loadingState,   \* the registry's state of the image
    loader,         \* where the loader thread is
    call,           \* thread -> its way through callFromUi or syncExec
    closer,         \* where the closure thread is
    ui,             \* what the UI thread does; "over": left its loop
    box,            \* showError's message box is open, and its loop runs
    closing,        \* who made it test whether the window may close
    closingPending, \* ImageWindow.closingPending
    disposed        \* isDisposed()

loadVars == <<loadingState, loader>>
windowState == <<closingPending, disposed>>
uiVars == <<ui, box, closing, windowState>>
windowVars == <<loadVars, call, closer, uiVars>>
vars == <<processorVars, windowVars>>

Threads == {"loader", "processor", "closer"}

TypeOK ==
    /\ ProcessorTypeOK
    /\ loadingState \in {"NotLoadedYet", "LoadingInProgress", "Loaded", "LoadingError"}
    /\ loader \in {"zero", "begin", "decode", "progress", "outcome", "done", "dead"}
    /\ call \in [Threads -> {"none", "checked", "posted", "runs", "returned", "threw"}]
    /\ closer \in {"none", "loop", "closing", "sleep", "done", "dead"}
    /\ ui \in {"loop", "processorTest", "registryTest", "accepts", "over"}
    /\ box \in BOOLEAN
    /\ closing \in {"user", "closer", "error"}
    /\ closingPending \in BOOLEAN
    /\ disposed \in BOOLEAN

(* openWithFile up to its message loop: the window is open and loadImage   *)
(* has started the loader thread.                                          *)
Init ==
    /\ ProcessorInit
    /\ loadingState = "NotLoadedYet"
    /\ loader = "zero"
    /\ call = [t \in Threads |-> "none"]
    /\ closer = "none"
    /\ ui = "loop"
    /\ box = FALSE
    /\ closing = "user"
    /\ closingPending = FALSE
    /\ disposed = FALSE

-----------------------------------------------------------------------------
(* callFromUi by thread t: the test of isDisposed, then getDisplay, which  *)
(* throws for a disposed widget, then syncExec, which waits.  In "none"    *)
(* with a disposed window the call returns false and posts nothing.        *)

SetCall(t, c) == call' = [call EXCEPT ![t] = c]

CheckDisposed(t) ==
    /\ call[t] = "none"
    /\ ~ disposed
    /\ SetCall(t, "checked")

Post(t) ==
    /\ call[t] = "checked"
    /\ SetCall(t, IF disposed THEN "threw" ELSE "posted")
    /\ UNCHANGED <<processorVars, loadVars, closer, uiVars>>

Dispatch(t) == ui = "loop" /\ call[t] = "posted"

CallOver(t) ==
    \/ call[t] = "returned" /\ SetCall(t, "none")
    \/ call[t] = "none" /\ disposed /\ UNCHANGED call

-----------------------------------------------------------------------------
(* The loader thread: each reporter call goes through callFromUi.          *)

LoaderGoes(where) == loader' = where

LoaderCalls ==
    /\ loader \in {"zero", "progress", "outcome"}
    /\ CheckDisposed("loader")
    /\ UNCHANGED <<processorVars, loadVars, closer, uiVars>>

AfterLoaderCall ==
    CASE loader = "zero" -> "begin"
      [] loader = "progress" -> "decode"
      [] loader = "outcome" -> "done"

LoaderReported ==
    /\ loader \in {"zero", "progress", "outcome"}
    /\ CallOver("loader")
    /\ LoaderGoes(AfterLoaderCall)
    /\ UNCHANGED <<processorVars, loadingState, closer, uiVars>>

BeginLoading ==
    /\ loader = "begin"
    /\ loadingState' = "LoadingInProgress"
    /\ LoaderGoes("decode")
    /\ UNCHANGED <<processorVars, call, closer, uiVars>>

DecodeRaises ==
    /\ loader = "decode"
    /\ LoaderGoes("progress")
    /\ UNCHANGED <<processorVars, loadingState, call, closer, uiVars>>

(* A decoding gives a bitmap, or throws an exception that run() reports,   *)
(* or an error that it does not catch: that one ends the thread and leaves *)
(* LoadingInProgress behind.                                               *)
EndLoading ==
    /\ loader = "decode"
    /\ \/ loadingState' = "Loaded"
       \/ "LibRawException" \in DecodeErrors /\ loadingState' = "LoadingError"
    /\ LoaderGoes("outcome")
    /\ UNCHANGED <<processorVars, call, closer, uiVars>>

LoadingThrowsError ==
    /\ loader = "decode"
    /\ "NoSuchMethodError" \in DecodeErrors
    /\ LoaderGoes("dead")
    /\ UNCHANGED <<processorVars, loadingState, call, closer, uiVars>>

LoaderDies ==
    /\ call["loader"] = "threw"
    /\ loader # "dead"
    /\ LoaderGoes("dead")
    /\ UNCHANGED <<processorVars, loadingState, call, closer, uiVars>>

LoaderThread ==
    LoaderCalls \/ LoaderReported \/ BeginLoading \/ DecodeRaises
    \/ EndLoading \/ LoadingThrowsError \/ LoaderDies

(* What its runnables do: progress only paints; success shows the bitmap   *)
(* and starts the processing; an exception opens the message box, and the  *)
(* runnable goes on when the user leaves it.                               *)
ShowProgress ==
    /\ Dispatch("loader")
    /\ loader \in {"zero", "progress"}
    /\ SetCall("loader", "returned")
    /\ UNCHANGED <<processorVars, loadVars, closer, uiVars>>

ShowSuccess ==
    /\ Dispatch("loader")
    /\ loader = "outcome" /\ loadingState = "Loaded"
    /\ SetCall("loader", "returned")
    /\ StartProcessingAsync(Request)
    /\ UNCHANGED <<loadVars, closer, uiVars>>

ShowError ==
    /\ Dispatch("loader")
    /\ loader = "outcome" /\ loadingState = "LoadingError"
    /\ SetCall("loader", "runs")
    /\ box' = TRUE
    /\ UNCHANGED <<processorVars, loadVars, closer, ui, closing, windowState>>

DispatchLoader == ShowProgress \/ ShowSuccess \/ ShowError

-----------------------------------------------------------------------------
(* The processing thread.  Its reporter answers false when closingPending  *)
(* is set or the window is gone, else it calls the UI and answers true.    *)

Reporting == Request \in toReport[Request]

Processes ==
    /\ DoProcessing(Request)
    /\ UNCHANGED windowVars

NeverAsksToStop == FALSE
AsksToStop == closingPending

ProcessorCalls ==
    /\ Reporting
    /\ At(Request, "report") \/ ~ AsksToStop
    /\ CheckDisposed("processor")
    /\ UNCHANGED <<processorVars, loadVars, closer, uiVars>>

ProgressRefused ==
    /\ call["processor"] = "none"
    /\ AsksToStop \/ disposed
    /\ CallReporter(Request, Request, FALSE)
    /\ UNCHANGED windowVars

ProgressShown ==
    /\ call["processor"] = "returned"
    /\ SetCall("processor", "none")
    /\ CallReporter(Request, Request, TRUE)
    /\ UNCHANGED <<loadVars, closer, uiVars>>

ResultHandled ==
    /\ CallOver("processor")
    /\ ReportResult(Request, Request)
    /\ UNCHANGED <<loadVars, closer, uiVars>>

ProcessorDies ==
    /\ call["processor"] = "threw"
    /\ ~ At(Request, "dead")
    /\ Die(Request)
    /\ UNCHANGED <<state, resultPreciseBitmap, reporters, work, toReport,
                   overtaken, agreed, freedCopies, reported, overlapped,
                   windowVars>>

ProcessorThread ==
    Processes \/ ProcessorCalls \/ ProgressRefused \/ ProgressShown
    \/ ResultHandled \/ ProcessorDies

DispatchProcessor ==
    /\ Dispatch("processor")
    /\ SetCall("processor", "returned")
    /\ UNCHANGED <<processorVars, loadVars, closer, uiVars>>

-----------------------------------------------------------------------------
(* Closing.  shellClosed asks the processor and then the registry whether  *)
(* they are idle.                                                          *)

TryToClose(who) ==
    /\ ui = "loop"
    /\ ui' = "processorTest"
    /\ closing' = who
    /\ UNCHANGED <<processorVars, loadVars, call, closer, windowState>>

(* A message box in front of the window keeps the user off it.             *)
UserCloses == ~ box /\ TryToClose("user") /\ UNCHANGED box

(* showError goes on when the user leaves the box, and closes the window.  *)
ErrorBoxLeft == box /\ TryToClose("error") /\ box' = FALSE

CloserCloses ==
    call["closer"] = "posted" /\ TryToClose("closer") /\ UNCHANGED box

(* The runnable that called close() is done.                               *)
CloserReleased == IF closing = "closer" THEN "returned" ELSE call["closer"]
LoaderReleased == IF closing = "error" THEN "returned" ELSE call["loader"]

CannotCloseUnrecorded ==
    /\ IF closingPending THEN UNCHANGED closer ELSE closer' = "loop"
    /\ UNCHANGED closingPending
    /\ ui' = "loop"
    /\ call' = [call EXCEPT !["closer"] = CloserReleased, !["loader"] = LoaderReleased]
CannotClose ==
    /\ IF closingPending THEN UNCHANGED closer ELSE closer' = "loop"
    /\ closingPending' = TRUE
    /\ ui' = "loop"
    /\ call' = [call EXCEPT !["closer"] = CloserReleased, !["loader"] = LoaderReleased]

TestProcessor ==
    /\ ui = "processorTest"
    /\ \/ /\ state = "Idle"
          /\ ui' = "registryTest"
          /\ UNCHANGED <<closer, closingPending, call>>
       \/ /\ state = "Working"
          /\ CannotClose
    /\ UNCHANGED <<processorVars, loadVars, box, closing, disposed>>

TestRegistry ==
    /\ ui = "registryTest"
    /\ \/ /\ loadingState # "LoadingInProgress"
          /\ closingPending' = TRUE
          /\ ui' = "accepts"
          /\ UNCHANGED <<closer, call>>
       \/ /\ loadingState = "LoadingInProgress"
          /\ CannotClose
    /\ UNCHANGED <<processorVars, loadVars, box, closing, disposed>>

(* doit is true: the window is disposed and the message loop ends.  With   *)
(* it goes a message box, whose showError then closes a disposed window,   *)
(* so that syncExec throws in the loader thread.                           *)
Dispose ==
    /\ ui = "accepts"
    /\ disposed' = TRUE
    /\ ui' = "over"
    /\ box' = FALSE
    /\ call' = [call EXCEPT !["closer"] = CloserReleased,
                            !["loader"] = IF box THEN "threw" ELSE LoaderReleased]
    /\ UNCHANGED <<processorVars, loadVars, closer, closing, closingPending>>

UiThread == TestProcessor \/ TestRegistry \/ Dispose

CloserLoops ==
    /\ closer = "loop"
    /\ IF disposed
       THEN closer' = "done" /\ UNCHANGED call
       ELSE closer' = "closing" /\ SetCall("closer", "checked")
    /\ UNCHANGED <<processorVars, loadVars, uiVars>>

CloserReturns ==
    /\ closer = "closing"
    /\ \/ call["closer"] = "returned" /\ closer' = "sleep" /\ SetCall("closer", "none")
       \/ call["closer"] = "threw" /\ closer' = "dead" /\ UNCHANGED call
    /\ UNCHANGED <<processorVars, loadVars, uiVars>>

CloserWakes ==
    /\ closer = "sleep"
    /\ closer' = "loop"
    /\ UNCHANGED <<processorVars, loadVars, call, uiVars>>

CloserThread == CloserLoops \/ CloserReturns \/ CloserWakes

-----------------------------------------------------------------------------
ThreadEnded(t) ==
    CASE t = "loader" -> loader \in {"done", "dead"}
      [] t = "processor" -> Over(Request)
      [] t = "closer" -> closer \in {"none", "done", "dead"}

Ended ==
    /\ ui = "over"
    /\ \A t \in Threads : ThreadEnded(t) \/ call[t] = "posted"
    /\ UNCHANGED vars

Next ==
    \/ LoaderThread \/ ProcessorThread \/ CloserThread \/ UiThread
    \/ DispatchLoader \/ DispatchProcessor \/ CloserCloses
    \/ \E t \in Threads : Post(t)
    \/ UserCloses \/ ErrorBoxLeft
    \/ Ended

(* The scheduler runs every thread; the UI thread serves each runnable     *)
(* sooner or later, however often the user and the others keep it busy; a  *)
(* decode ends and a message box is left.  The compression need not end by *)
(* itself, and nothing makes the user close the window.                    *)
Spec ==
    /\ Init /\ [][Next]_vars
    /\ WF_vars(LoaderThread) /\ WF_vars(ProcessorThread) /\ WF_vars(CloserThread)
    /\ WF_vars(UiThread)
    /\ \A t \in Threads : WF_vars(Post(t))
    /\ SF_vars(DispatchLoader) /\ SF_vars(DispatchProcessor)
    /\ SF_vars(CloserCloses) /\ SF_vars(ErrorBoxLeft)
    /\ SF_vars(EndLoading \/ LoadingThrowsError)

-----------------------------------------------------------------------------
(* Properties.                                                             *)

(* closeASAP, line 77: "Tries to close the shell until it accepts to be    *)
(* closed."  Once the user has asked for it, the window closes, however    *)
(* far the load and the processing are and however long the compression    *)
(* would go on, unless an exception ended the processing or an error the   *)
(* loading.                                                                *)
ClosesAtLast ==
    closingPending ~> (disposed \/ At(Request, "dead") \/ loader = "dead")

(* shellClosed, line 129: "If we can't close the shell immediately,        *)
(* starting the thread which will close it ASAP", and canCloseNow, line    *)
(* 65: "The only cause which prevents us from closing now is image         *)
(* processing".  No failed load keeps the window from closing.             *)
ClosesAfterFailedLoad ==
    closingPending /\ loader = "dead" ~> disposed

(* A refusal never starts a second closure thread beside one that lives.   *)
OneClosureThread ==
    [][closer' = "loop" => closer \in {"none", "sleep", "loop"}]_vars

(* Processing that outlives the window, which the test of canCloseNow does *)
(* not exclude, soon stops, although nothing else would end it: it ends,   *)
(* or its thread waits for a UI thread that is gone.                       *)
WorkEndsAfterClose ==
    disposed ~> (Over(Request) \/ call["processor"] = "posted")

(* callFromUi, line 36: "Calls a Runnable from UI thread if possible ...   *)
(* true if succeeded, false otherwise": the call of a thread comes back.   *)
CallReturns == \A t \in Threads : call[t] = "posted" ~> call[t] # "posted"
=============================================================================
