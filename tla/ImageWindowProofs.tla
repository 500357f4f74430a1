-------------------------- MODULE ImageWindowProofs --------------------------
(***************************************************************************)
(* Proofs about ImageWindow: its types, with those of the processor whose  *)
(* one call it makes, and that there is one closure thread at most.        *)
(***************************************************************************)
EXTENDS ImageWindow, TLAPS

(* The closure thread was started by a refusal, which set closingPending,  *)
(* and nothing resets that.                                                *)
PendingInv == closer # "none" => closingPending

WInv == TypeOK /\ PendingInv

(* The processor's variables but the list of calls keep their types, also  *)
(* when an exception of its reporter ends the call.                        *)
LEMMA ProcessorTypes ==
    ASSUME ProcessorTypeOK,
           \/ StartProcessingAsync(Request)
           \/ DoProcessing(Request)
           \/ CallReporter(Request, Request, TRUE)
           \/ CallReporter(Request, Request, FALSE)
           \/ ReportResult(Request, Request)
           \/ ProcessorDies
    PROVE  ProcessorTypeOK'
<1> USE RequestAssumption, CallsAssumption DEF ProcessorTypeOK, Steps, At, Go
<1>1. CASE StartProcessingAsync(Request)
  BY <1>1 DEF StartProcessingAsync, MayCall, NoteOverlap, SetReporters
<1>2. ASSUME NEW answer \in BOOLEAN, CallReporter(Request, Request, answer)
      PROVE  ProcessorTypeOK'
  BY <1>2 DEF CallReporter
<1>3. CASE ReportResult(Request, Request)
  BY <1>3 DEF ReportResult
<1>4. CASE ProcessorDies
  BY <1>4 DEF ProcessorDies, Die
<1>5. CASE SetWorking(Request) \/ FreePrevious(Request) \/ Copy(Request)
           \/ CopyThrows(Request) \/ CallProcess(Request)
  BY <1>5 DEF SetWorking, FreePrevious, Copy, CopyThrows, CallProcess, Die
<1>6. CASE ReportProgressStart(Request) \/ LastReport(Request)
           \/ ReportProgressEnd(Request)
  BY <1>6 DEF ReportProgressStart, LastReport, ReportProgressEnd, StartLoop,
        AfterReport
<1>7. CASE ProcessReturns(Request) \/ ReportEnd(Request)
           \/ LoopThrows(Request) \/ SetIdle(Request)
  BY <1>7 DEF ProcessReturns, ReportEnd, LoopThrows, SetIdle, StartLoop, Die
<1> QED  BY <1>1, <1>2, <1>3, <1>4, <1>5, <1>6, <1>7 DEF DoProcessing

USE DEF vars, windowVars, processorVars, loadVars, uiVars, windowState, SetCall,
        LoaderGoes, Dispatch, CheckDisposed, CallOver

(* The steps of the threads that work for the window.                      *)
LEMMA ThreadSteps ==
    ASSUME WInv, LoaderThread \/ ProcessorThread \/ CloserThread
    PROVE  WInv'
<1> USE DEF WInv, TypeOK, PendingInv, Threads
<1>1. CASE LoaderThread
  <2>1. UNCHANGED <<processorVars, closer, closingPending, ui, box, closing, disposed>>
    BY <1>1 DEF LoaderThread, LoaderCalls, LoaderReported, BeginLoading,
          DecodeRaises, EndLoading, LoadingThrowsError, LoaderDies
  <2>2. loadingState' \in {"NotLoadedYet", "LoadingInProgress", "Loaded", "LoadingError"}
        /\ loader' \in {"zero", "begin", "decode", "progress", "outcome", "done", "dead"}
        /\ call' \in [Threads -> {"none", "checked", "posted", "runs", "returned", "threw"}]
    BY <1>1 DEF LoaderThread, LoaderCalls, LoaderReported, BeginLoading,
          DecodeRaises, EndLoading, LoadingThrowsError, LoaderDies, AfterLoaderCall
  <2> QED  BY <2>1, <2>2 DEF ProcessorTypeOK
<1>2. CASE ProcessorThread
  <2>1. UNCHANGED <<loadVars, closer, uiVars>>
    BY <1>2 DEF ProcessorThread, Processes, ProcessorCalls, ProgressRefused,
          ProgressShown, ResultHandled, ProcessorDies
  <2>2. call' \in [Threads -> {"none", "checked", "posted", "runs", "returned", "threw"}]
    BY <1>2 DEF ProcessorThread, Processes, ProcessorCalls, ProgressRefused,
          ProgressShown, ResultHandled, ProcessorDies
  <2>3. ProcessorTypeOK'
    <3>1. CASE ProcessorCalls
      BY <3>1 DEF ProcessorCalls, ProcessorTypeOK
    <3> QED  BY <1>2, <3>1, ProcessorTypes DEF ProcessorThread, Processes,
                  ProgressRefused, ProgressShown, ResultHandled
  <2> QED  BY <2>1, <2>2, <2>3
<1>3. CASE CloserThread
  <2>1. UNCHANGED <<processorVars, loadVars, uiVars>>
    BY <1>3 DEF CloserThread, CloserLoops, CloserReturns, CloserWakes
  <2>2. closer # "none"
        /\ closer' \in {"loop", "closing", "sleep", "done", "dead"}
        /\ call' \in [Threads -> {"none", "checked", "posted", "runs", "returned", "threw"}]
    BY <1>3 DEF CloserThread, CloserLoops, CloserReturns, CloserWakes
  <2> QED  BY <2>1, <2>2 DEF ProcessorTypeOK
<1> QED  BY <1>1, <1>2, <1>3

(* The steps of the UI thread.                                             *)
LEMMA UiSteps ==
    ASSUME WInv,
           \/ UiThread \/ DispatchLoader \/ DispatchProcessor \/ CloserCloses
           \/ (\E t \in Threads : Post(t))
           \/ UserCloses \/ ErrorBoxLeft
    PROVE  WInv'
<1> USE DEF WInv, TypeOK, PendingInv, Threads
<1>1. ProcessorTypeOK'
  <2>1. CASE ShowSuccess
    BY <2>1, ProcessorTypes DEF ShowSuccess
  <2>2. CASE ~ ShowSuccess
    <3>1. UNCHANGED processorVars
      BY <2>2 DEF UiThread, TestProcessor, TestRegistry, Dispose, DispatchLoader,
            ShowProgress, ShowError, DispatchProcessor, CloserCloses,
            UserCloses, ErrorBoxLeft, TryToClose, Post
    <3> QED  BY <3>1 DEF ProcessorTypeOK
  <2> QED  BY <2>1, <2>2
<1>2. UNCHANGED loadVars
  BY DEF UiThread, TestProcessor, TestRegistry, Dispose, DispatchLoader,
        ShowProgress, ShowSuccess, ShowError, DispatchProcessor, CloserCloses,
        UserCloses, ErrorBoxLeft, TryToClose, Post
<1>3. call' \in [Threads -> {"none", "checked", "posted", "runs", "returned", "threw"}]
  <2>1. CASE TestProcessor \/ TestRegistry \/ Dispose
    BY <2>1 DEF TestProcessor, TestRegistry, Dispose, CannotClose,
          CloserReleased, LoaderReleased
  <2>2. CASE \E t \in Threads : Post(t)
    BY <2>2 DEF Post
  <2>3. CASE ShowProgress \/ ShowSuccess \/ ShowError \/ DispatchProcessor
    BY <2>3 DEF ShowProgress, ShowSuccess, ShowError, DispatchProcessor
  <2>4. CASE CloserCloses \/ UserCloses \/ ErrorBoxLeft
    BY <2>4 DEF CloserCloses, UserCloses, ErrorBoxLeft, TryToClose
  <2> QED  BY <2>1, <2>2, <2>3, <2>4 DEF UiThread, DispatchLoader
<1>4. /\ closer' \in {"none", "loop", "closing", "sleep", "done", "dead"}
      /\ closingPending' \in BOOLEAN /\ disposed' \in BOOLEAN
      /\ closer' # "none" => closingPending'
  <2>1. CASE TestProcessor \/ TestRegistry
    BY <2>1 DEF TestProcessor, TestRegistry, CannotClose
  <2>2. CASE Dispose
    BY <2>2 DEF Dispose
  <2>3. CASE ~ UiThread
    <3>1. UNCHANGED <<closer, closingPending, disposed>>
      BY <2>3 DEF DispatchLoader, ShowProgress, ShowSuccess, ShowError,
            DispatchProcessor, CloserCloses, UserCloses, ErrorBoxLeft,
            TryToClose, Post
    <3> QED  BY <3>1
  <2> QED  BY <2>1, <2>2, <2>3 DEF UiThread
<1>5. /\ ui' \in {"loop", "processorTest", "registryTest", "accepts", "over"}
      /\ box' \in BOOLEAN
      /\ closing' \in {"user", "closer", "error"}
  <2>1. CASE UiThread
    BY <2>1 DEF UiThread, TestProcessor, TestRegistry, Dispose, CannotClose
  <2>2. CASE CloserCloses \/ UserCloses \/ ErrorBoxLeft
    BY <2>2 DEF CloserCloses, UserCloses, ErrorBoxLeft, TryToClose
  <2>3. CASE DispatchLoader \/ DispatchProcessor \/ \E t \in Threads : Post(t)
    BY <2>3 DEF DispatchLoader, ShowProgress, ShowSuccess, ShowError,
          DispatchProcessor, Post
  <2> QED  BY <2>1, <2>2, <2>3
<1> QED  BY <1>1, <1>2, <1>3, <1>4, <1>5

(* Every step of the window and of its threads keeps the invariant.        *)
LEMMA StepW == WInv /\ [Next]_vars => WInv'
<1> SUFFICES ASSUME WInv, [Next]_vars PROVE WInv'
  OBVIOUS
<1>1. CASE UNCHANGED vars
  BY <1>1 DEF WInv, TypeOK, PendingInv, ProcessorTypeOK
<1> QED  BY <1>1, ThreadSteps, UiSteps DEF Next, Ended

(* WInv is an invariant; fairness plays no part in it.                     *)
LEMMA WindowInvariance == Spec => []WInv
<1>1. Init => WInv
  BY CallsAssumption DEF Init, ProcessorInit, WInv, TypeOK, PendingInv, Threads,
        ProcessorTypeOK, Steps
<1> QED  BY <1>1, StepW, PTL DEF Spec

(* The types of the window, its threads and its processor.                 *)
THEOREM TypeCorrect == Spec => []TypeOK
<1>1. WInv => TypeOK
  BY DEF WInv
<1> QED  BY <1>1, WindowInvariance, PTL

(* However many refusals there are, of the user's closing, of an error's   *)
(* or of the closure thread's own, the first one alone starts a thread.    *)
THEOREM ClosureThreadIsOne == Spec => OneClosureThread
<1>1. ASSUME WInv, [Next]_vars, closer' = "loop"
      PROVE  closer \in {"none", "sleep", "loop"}
  <2>1. CASE CannotClose
    BY <1>1, <2>1 DEF CannotClose, WInv, PendingInv
  <2>2. CASE CloserThread
    BY <1>1, <2>2 DEF CloserThread, CloserLoops, CloserReturns, CloserWakes
  <2>3. CASE ~ CannotClose /\ ~ CloserThread
    <3>1. closer' = closer
      BY <1>1, <2>3 DEF Next, Ended, UiThread, TestProcessor, TestRegistry,
            Dispose, LoaderThread, LoaderCalls, LoaderReported, BeginLoading,
            DecodeRaises, EndLoading, LoadingThrowsError, LoaderDies,
            ProcessorThread, Processes,
            ProcessorCalls, ProgressRefused, ProgressShown, ResultHandled,
            ProcessorDies, DispatchLoader, ShowProgress, ShowSuccess,
            ShowError, DispatchProcessor, CloserCloses, UserCloses,
            ErrorBoxLeft, TryToClose, Post
    <3> QED  BY <1>1, <3>1
  <2> QED  BY <2>1, <2>2, <2>3
<1>2. WInv /\ [Next]_vars =>
          [closer' = "loop" => closer \in {"none", "sleep", "loop"}]_vars
  BY <1>1
<1> QED  BY <1>2, WindowInvariance, PTL DEF Spec, OneClosureThread
=============================================================================
